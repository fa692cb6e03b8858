SPECIFICATION Spec
CONSTANTS
  NFiles = 3
  Goals = {"save"}
  Actions = {"create", "skip"}
  Faults = {}
INVARIANTS MissingInstalled NoneMissing
CHECK_DEADLOCK FALSE
