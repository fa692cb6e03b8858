SPECIFICATION Spec
CONSTANTS
  Sets <- Two
  Process <- OfItsOwn
  Packages <- All
  Commands <- Alike
  LockFiles <- Writable
  MayFail = FALSE
  Threads = FALSE
  Nested <- NoneNested
  NoProcess = NoProcess
INVARIANTS DependenciesKept
