SPECIFICATION Spec
CONSTANTS
  Transactions <- LoopsOrMixed
  NRescans = 100
INVARIANTS PrereqsFirst RemovedLast
