SPECIFICATION Spec
CONSTANTS
  Types = {"decision", "end"}
  Foreign <- Documents
  MaxIds = 5
  Depth = 2
  MaxCommands = 6
INVARIANT EditorIsConsistent
PROPERTY HistoryIsALine
CHECK_DEADLOCK FALSE
