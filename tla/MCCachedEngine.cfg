SPECIFICATION MCSpec
CONSTANTS
  f1 = f1
  f2 = f2
  b1 = b1
  b2 = b2
  k1 = k1
  k2 = k2
  File = {f1, f2}
  Content = {b1, b2}
  Config = {k1, k2}
  Run = {r1, r2}
  Absent = Absent
  NotRead = NotRead
  NoReport = NoReport
  NoEntry = NoEntry
  Torn = Torn
  NoFile = NoFile
  MaxEdits = 1
  MaxStarts = 3
  Scope <- MCScope
  Parses <- MCParses
  FileFindings <- MCFileFindings
  ReportOf <- MCReportOf
  Included <- MCIncluded
  HashBytes <- MCHashBytes
  HashConfig <- MCHashConfig
SYMMETRY RunSymmetry
INVARIANTS
  CacheSound
  WholeIfPublishedAlone
  UnchangedFilesHit
CHECK_DEADLOCK FALSE
PROPERTIES
  PublishesWhatItScanned
  ImplementsUncached
