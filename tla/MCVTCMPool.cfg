SPECIFICATION Spec
CONSTANTS
    kSmallAlignment = 2
    kLargeAlignment = 6
    vtcmAllocatedSize = 14
    Requests <- MCRequests
    NullPtr = NullPtr
INVARIANTS PoolInv EmptyPoolIsOneBlock
PROPERTY ImplementsAllocator
CHECK_DEADLOCK FALSE
