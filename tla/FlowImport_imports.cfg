CONSTANTS
  Kinds = {"csv", "text", "modules", "functions", "journey", "drawn"}
  Files <- MCFiles
  Packages = {"persistence", "service"}
  Bodies <- MCBodies
  Canvas <- MCCanvas
  RowIds <- MCRowIds
  RowTypes <- MCRowTypes
  RowTargets <- MCRowTargets
  MaxNodes = 12
  MaxEdges = 12
  MaxRows = 3
  MaxLines = 4
  MaxImports = 3
  MaxFunctions = 3
  MaxCalls = 2
  MaxDrawn = 5
SPECIFICATION Spec
INVARIANTS ComponentsAreClasses ValidFlowCanStop LayersGoForward ReadingIsSound
CHECK_DEADLOCK FALSE
