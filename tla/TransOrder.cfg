SPECIFICATION Spec
CONSTANTS
  Transactions <- All
  NRescans = 100
INVARIANTS TypeOK OnlyLoopsBroken
PROPERTIES RoundBreaksLoops
