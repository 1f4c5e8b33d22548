\* One aligned segment, four frames: root, table and the image fit, the stack does not.
CONSTANTS
  NumFrames = 4
  PageSize = 4
  NumPages = 16
  TableSpan = 8
  NoFrame = NoFrame
  Junk = Junk
  Zero = Zero
  MaxSegs = 2
  Panic = Panic
  NoImage = NoImage
  StackTop = 64
  StackPages = 1
  MaxSpawns = 1
  Files <- MCFilesAligned
SPECIFICATION Spec
INVARIANT UserSpaceMapped
CHECK_DEADLOCK FALSE
