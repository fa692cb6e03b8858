SPECIFICATION Spec
CONSTANTS
  NFiles = 4
  Goals = {"build", "save"}
  Actions = {"skip", "backup", "altname"}
  Faults = {"header", "extract", "link"}
INVARIANTS FsmInv ArchiveWhole LinksInstalled
CHECK_DEADLOCK FALSE
