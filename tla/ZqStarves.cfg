SPECIFICATION FairSpec
CONSTANTS
  Workers = {w1, w2}
  Writer = Writer
  NoJob = NoJob
  MaxFiles = 1
  FileKinds <- Four
PROPERTIES EveryFileFinishes
CHECK_DEADLOCK FALSE
