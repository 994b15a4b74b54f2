SPECIFICATION WatchSpec
CONSTANTS
  UseCache = TRUE
  CacheWatched = FALSE
  OpensReported = FALSE
  Debounce = 5
  None = None
  MaxSaves = 5
INVARIANTS
  WatchTypeOK
  EditsPending
PROPERTIES
  OneScanPerBurst
  EditsRead
  Quiesces
