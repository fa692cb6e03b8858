SPECIFICATION Spec
CONSTANTS
  Alphabet <- Usual
  MaxLength = 3
  Versions <- Even
  Missing = Missing
INVARIANTS VersionsOrdered OverlapMeans
CHECK_DEADLOCK FALSE
