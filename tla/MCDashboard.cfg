SPECIFICATION Spec
CONSTANTS
  Dimension = {"d1", "d2", "d3"}
  Compared = {"d1", "d3"}
  Limit = 1
  Report <- MCReport
  OldFormat <- MCOldFormat
  MaxScans = 1
  NoFile = NoFile
  Torn = Torn
  NoAnswer = NoAnswer
  MaxRecords = 2
  MaxRequests = 2
INVARIANTS
  AnswersOfEnvelopes
  ListsWhatIsThere
  DiffAccounts
PROPERTY HeatmapHeals
CHECK_DEADLOCK FALSE
