SPECIFICATION FairSpec
CONSTANTS
    Capacity = 2
    TokenMod = 4
    MaxLength = 3
    FieldMod = 2
    Tags = {t1, t2, t3}
    Requests <- MixedRequests
    MaxTransfers = 6
INVARIANTS RingInv WaitMeansTransferred
PROPERTY CallsReturn
CHECK_DEADLOCK FALSE
