SPECIFICATION Spec
CONSTANTS
  Recorder = {r1, r2}
  Server = server
  Config = {c1}
  Second = {1, 2}
  Suffix = {0, 1}
  MaxScans = 1
  NoFile = NoFile
  Torn = Torn
  Whole = Whole
  NoProc = NoProc
  NoScan = NoScan
  MaxRecords = 2
  MaxRequests = 1
  MaxDeletes = 1
INVARIANTS
  MetaWhole
  HeldWhileWorking
  Retention
  SnapshotPresent
PROPERTIES
  FirstSeenKept
  KeepsNewest
SYMMETRY RecorderSymmetry
CHECK_DEADLOCK FALSE
