SPECIFICATION FairSpec
CONSTANTS
  Sets <- Three
  Process <- Shared
  Packages <- All
  Commands <- AndRebuild
  LockFiles <- AnyFile
  MayFail = TRUE
  Threads = FALSE
  Nested <- NoneNested
  NoProcess = NoProcess
INVARIANTS LockInv NothingTwice SoundRunsKeep
PROPERTIES EveryRunEnds
