SPECIFICATION Spec
CONSTANTS
  Alphabet <- WithSlash
  MaxLength = 3
  Versions <- Even
  Missing = Missing
INVARIANTS VersionsOrdered OverlapExact
CHECK_DEADLOCK FALSE
