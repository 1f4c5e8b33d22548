CONSTANTS
  Panic = Panic
  NoImage = NoImage
  NoBpb = NoBpb
  Hang = Hang
  NoFile = NoFile
  NoDisk = NoDisk
  NoLock = NoLock
  Null = Null
  NoWin = NoWin
  NoFrame = NoFrame
  Junk = Junk
  Zero = Zero
SPECIFICATION Spec
INVARIANTS ParseAgrees ListRootAgrees LoadAgrees AllocSound ElfWindowAgrees SetStateByIdAgrees RxDeliveredOnceInOrder FileReadAgrees FramesFromMap FramesUsedOnce ImagePagesClean ConsoleShowsTranscript
