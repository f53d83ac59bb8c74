CONSTANTS
  MaxTime = 5
  MaxMessages = 5
  Readable <- AllButThird
  Limit = 3
  EpochLength = 2
  Delay = 4
  Day = 1
  Retention = 3
  ClocksAgree = TRUE
  MaxBacklog = 2
  Failures = TRUE
SPECIFICATION FairSpec
CHECK_DEADLOCK FALSE
INVARIANTS
  NothingSkipped
  StoredAtMostThrice
PROPERTIES
  CursorAdvances
  SyncEnds
