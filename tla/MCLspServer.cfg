CONSTANTS
  d = d
  e = e
  Doc = {d, e}
  Escaped = {e}
  Missing <- MCMissing
  NoDoc = NoDoc
  Traffic <- MCTraffic
  Size = 2
  MaxLength = 4
  MaxSends = 3
  MaxEdits = 1
SPECIFICATION Spec
CHECK_DEADLOCK FALSE
INVARIANTS TypeOK DiagnosticsOfLastEvent
PROPERTIES ImplementsSession WellFramedAreHandled
