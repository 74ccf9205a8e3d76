\* One attempt, one delivery, a clock that steps back once.
CONSTANTS
  a1 = a1
  d1 = d1
  Attempts = {a1}
  LaneJobs = {}
  Outbox = {d1}
  Hour = 1
  Month = 2
  Batch = 1
  MaxSeq = 4
  MaxClock = 4
  MaxStepBacks = 1
SPECIFICATION Spec
INVARIANTS ReplayExact ServesTruth
PROPERTIES SweepSparing
CHECK_DEADLOCK FALSE
