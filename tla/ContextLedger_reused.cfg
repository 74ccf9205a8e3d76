\* A conversation whose rows may all fall out of retention at once.
CONSTANTS
    MaxMessages = 3
    MaxNow = 3
    MaxEpochs = 2
    Relevance = 1
    Retention = 1
    Limit = 1
    Late = 0
    MayEmpty = TRUE
SPECIFICATION LedgerSpec
INVARIANT OmitsOnlyOld
CHECK_DEADLOCK FALSE
