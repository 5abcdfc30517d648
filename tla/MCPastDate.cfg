SPECIFICATION Spec
CONSTANTS
  MaxRetrySecs = 5
  DefRetrySecs = 1
  MaxRetries = 2
  U64 = 64
  U16 = 8
  TicksPerSecond = 3
  MaxDelay = 2
  Seconds <- MCSeconds
  DateOffsets <- MCDateOffsets
INVARIANT
  PastDateWaitsDefault
CHECK_DEADLOCK FALSE
