SPECIFICATION Spec
CONSTANTS
  Kids = {11, 12}
  Others = {21}
  NoPid <- MCNoPid
  Failed <- MCFailed
  Pipes = {1, 2}
  MaxFd = 3
  PsmThreads = FALSE
  SigchldIgnored = FALSE
  ForkMayFail = TRUE
  Interrupts = TRUE
INVARIANTS NeverEarly QueueEnds
