SPECIFICATION FairRunSpec
CONSTANTS
  MaxStdout = 3
  Timeout = 2
  ReadBuf = 2
  PipeSize = 3
  MaxWritten = 5
INVARIANTS
  OkIsWhole
  CapExact
  ChildReaped
PROPERTY ReturnsUnlessSilent
CHECK_DEADLOCK FALSE
