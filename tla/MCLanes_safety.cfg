SPECIFICATION LanesSpec
CONSTANTS
  MaxAttempts = 2
  MaxSessions = 1
  MaxGen = 0
  MaxCrashes = 0
  MaxReads = 1
  Reindexing = FALSE
  MaxHeads = 2
  MaxCycles = 2
  RetryLimit = 1
  MaxDeaths = 1
  Name = {1}
  Call = {1, 2}
  Cap = 1
  MaxFaults = 3
  MaxCrash = 2
INVARIANTS RejectedNeverTaken  ToldOnce OneOpenAttempt  HeardOnce DoneIsGreen LanesStart
CHECK_DEADLOCK FALSE
