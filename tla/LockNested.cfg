SPECIFICATION FairSpec
CONSTANTS
  Sets <- Two
  Process <- OfItsOwn
  Packages <- All
  Commands <- Alike
  LockFiles <- Writable
  MayFail = FALSE
  Threads = FALSE
  Nested <- OneNested
  NoProcess = NoProcess
PROPERTIES EveryRunEnds
CHECK_DEADLOCK FALSE
