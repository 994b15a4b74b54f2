SPECIFICATION Spec
CONSTANTS
  Cmd = {c1, c2}
  Pid = {d1, d2}
  Port = {q1, q2}
  Version = {v1, v2}
  Polls = 2
  NoFile = NoFile
  Torn = Torn
  NoInfo = NoInfo
  MaxBegins = 3
SYMMETRY Symmetry
INVARIANTS
  OnlyRegisteredRun
PROPERTIES
  StopStops
  ShowServes
CHECK_DEADLOCK FALSE
