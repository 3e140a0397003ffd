CONSTANTS
  Scenarios <- AllScenarios
  Keys = {"a", "b", "c", "x"}
SPECIFICATION Spec
CHECK_DEADLOCK FALSE
INVARIANTS
  VisitsInTimeOrder
  TokensAccounted
  JoinsAreSound
  PlanIsPlayable
  MergesAreSound
  ReplayMatchesRun
PROPERTIES
  ReturnsAVerdict
