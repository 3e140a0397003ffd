CONSTANTS
  SceneNodes = {"a", "b"}
  SceneLinks = {"ab"}
  NoNode = "none"
  Flows <- MCFlows
  Statuses = {"idle", "running"}
  Budget = 1
  LodEvery = 2
  MaxChanges = 3
SPECIFICATION FairSpec
INVARIANT BatchesAreCurrent
PROPERTY ScreenCatchesUp
