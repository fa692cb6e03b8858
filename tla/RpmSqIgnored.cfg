SPECIFICATION FairSpec
CONSTANTS
  Kids = {11, 12}
  Others = {21}
  NoPid <- MCNoPid
  Failed <- MCFailed
  Pipes = {1, 2}
  MaxFd = 3
  PsmThreads = FALSE
  SigchldIgnored = TRUE
  ForkMayFail = FALSE
  Interrupts = FALSE
PROPERTIES WaitReturns
CHECK_DEADLOCK FALSE
