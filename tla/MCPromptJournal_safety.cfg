\* Two calls that may overlap.
CONSTANTS
  Caller = {c1, c2}
SPECIFICATION FairSpec
INVARIANTS RefusalProves OneSubmission
PROPERTIES KeepsPromise EverySendEnds
CHECK_DEADLOCK FALSE
