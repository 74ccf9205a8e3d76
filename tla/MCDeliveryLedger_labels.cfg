\* Duplicate labels: one delivery, one chunk, two copies.
CONSTANTS
  d1 = d1
  Deliveries = {d1}
  Batches = {}
  Chunks = 1
  MaxFailures = 2
  MaxCopies = 2
SPECIFICATION Spec
INVARIANTS DuplicatesLabelled
CHECK_DEADLOCK FALSE
