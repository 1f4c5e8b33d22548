\* One unaligned segment, frames enough for everything.
CONSTANTS
  NumFrames = 12
  PageSize = 4
  NumPages = 16
  TableSpan = 8
  NoFrame = NoFrame
  Junk = Junk
  Zero = Zero
  MaxSegs = 2
  Panic = Panic
  NoImage = NoImage
  StackTop = 64
  StackPages = 1
  MaxSpawns = 1
  Files <- MCFilesUnaligned
SPECIFICATION Spec
INVARIANT ImageLoaded
CHECK_DEADLOCK FALSE
