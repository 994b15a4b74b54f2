SPECIFICATION WatchSpec
CONSTANTS
  UseCache = TRUE
  CacheWatched = TRUE
  OpensReported = FALSE
  Debounce = 5
  None = None
  MaxSaves = 5
PROPERTY OneScanPerBurst
