SPECIFICATION Spec
CONSTANTS
  Catalogue <- All
  Suggested <- Libs
  MaxCalls = 3
INVARIANTS LinksMutual CheckSound
CHECK_DEADLOCK FALSE
