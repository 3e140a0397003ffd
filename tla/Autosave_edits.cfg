SPECIFICATION Spec
CONSTANTS
  d1 = d1
  d2 = d2
  Definitions <- MCDefinitions
  FirstDraft = d1
  MaxMounts = 2
  MaxEdits = 2
  MaxIncidents = 1
CHECK_DEADLOCK FALSE
INVARIANTS
  NoFalseConflict
  EditsAreKept
  OnlyRacesHurt
PROPERTIES
  EditsSettle
