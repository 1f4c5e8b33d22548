CONSTANTS
  InitFiles <- MCInitFiles
  Paths <- MCPaths
  WritePaths <- MCWritePaths
  Datas <- MCDatas
  MaxNodes = 18
  Queries <- MCQueries
  MaxSearches = 2
  NoNode = NoNode
  NoData = NoData
  Absent = Absent
  Dir = Dir
  Err = Err
  Orig = Orig
  D1 = D1
  D2 = D2
SPECIFICATION Spec
INVARIANTS TypeOK NamesUnique HistoryRoundTrip
PROPERTY Refines
