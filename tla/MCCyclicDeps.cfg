SPECIFICATION Spec
CONSTANTS
  Paths <- MCPaths
  Inputs <- MCInputs
  None = None
INVARIANT ReportsCycles
PROPERTY Terminates
CHECK_DEADLOCK FALSE
