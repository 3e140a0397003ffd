CONSTANTS
  Definitions <- MCDefinitions
  Plan <- MCPlan
  Names = {""}
  Inputs = {"other", "bad"}
  MAX_SCENARIO_PRESETS = 2
  MaxChanges = 3
  MaxVersions = 2
  MaxOthers = 1
SPECIFICATION Spec
INVARIANT ComparisonIsSound
PROPERTY PresetsAreKept
