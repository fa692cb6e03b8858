SPECIFICATION FairSpec
CONSTANTS
  Workers = {w1, w2, w3}
  Writer = Writer
  NoJob = NoJob
  MaxFiles = 2
  FileKinds <- Small
INVARIANTS ZqInv WrittenInOrder AllReturned
PROPERTIES RoomyFilesFinish
CHECK_DEADLOCK FALSE
