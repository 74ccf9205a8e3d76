\* Two restarts, no crash: the second launch replaces the receipt of a hold.
CONSTANTS
  Sup = {1, 2}
  Own = 9
  MaxBoot = 3
  MaxOwner = 1
  SupDies = FALSE
SPECIFICATION Spec
INVARIANT HoldIsRecoverable
CHECK_DEADLOCK FALSE
