SPECIFICATION FairSpec
CONSTANTS
  MaxRetrySecs = 3
  DefRetrySecs = 4
  MaxRetries = 2
  U64 = 64
  U16 = 8
  TicksPerSecond = 3
  MaxDelay = 2
  Seconds <- MCSeconds
  DateOffsets <- MCDateOffsets
INVARIANTS
  TypeOK
  WaitBounded
  TriesBounded
PROPERTIES
  RetriesWelcome
  Ends
CHECK_DEADLOCK FALSE
