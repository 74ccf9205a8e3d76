\* Two messages, two epochs, one requeue.
CONSTANTS
  N = 2
  MaxEpoch = 1
  MaxTries = 1
SPECIFICATION Spec
INVARIANTS NoOrphan TakenOnce NoSilentEnd OneOwner
CHECK_DEADLOCK FALSE
