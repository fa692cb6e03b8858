SPECIFICATION Spec
CONSTANTS
  NFiles = 3
  Goals = {"build"}
  Actions = {"create", "skip"}
  Faults = {"rename"}
INVARIANTS SucceededWhole
CHECK_DEADLOCK FALSE
