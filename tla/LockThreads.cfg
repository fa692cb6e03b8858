SPECIFICATION Spec
CONSTANTS
  Sets <- Two
  Process <- OneProcess
  Packages <- All
  Commands <- Alike
  LockFiles <- Writable
  MayFail = FALSE
  Threads = TRUE
  Nested <- NoneNested
  NoProcess = NoProcess
INVARIANTS NothingTwice
