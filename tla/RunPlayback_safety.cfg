CONSTANTS
  Controllers = {c1, c2}
  Clients = {s1}
  Plans <- AllPlans
  Speeds = {1}
  Slack = 1
  LeaseRow = TRUE
  MaxControls = 3
  MaxFaults = 1
  MaxCrashes = 1
  Nobody = Nobody
  c1 = c1
  c2 = c2
  s1 = s1
SPECIFICATION Spec
SYMMETRY RequestSymmetry
INVARIANTS
  TerminalClosesLog
  SeenIsDurable
  MemoryMatchesStore
  StepStopsAfterOneVisit
PROPERTIES
  PausedIsQuiet
  JournalSpec
