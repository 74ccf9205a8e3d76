SPECIFICATION LiveSpec
CONSTANTS
  Sup = {1}
  Own = 9
  MaxBoot = 3
  MaxOwner = 1
  SupDies = TRUE
INVARIANT FenceHolds
PROPERTIES EveryEventEnds WorkEnds
CHECK_DEADLOCK FALSE
