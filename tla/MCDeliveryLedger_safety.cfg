\* One monitor delivery, two chunks, two failures, two copies.
CONSTANTS
  d1 = d1
  Deliveries = {d1}
  Batches = {d1}
  Chunks = 2
  MaxFailures = 2
  MaxCopies = 2
SPECIFICATION FairSpec
INVARIANTS ConfirmedLanded DeliveredOnlyConfirmed
PROPERTIES TerminalStable EveryDeliverySettles ExpiredBatchFails
CHECK_DEADLOCK FALSE
