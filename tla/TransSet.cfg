SPECIFICATION Spec
CONSTANTS
  Catalogue <- All
  Suggested <- Libs
  MaxCalls = 3
INVARIANTS TypeOK Newest CheckRight
CHECK_DEADLOCK FALSE
