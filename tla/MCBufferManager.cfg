SPECIFICATION BufferSpec
CONSTANTS
    kSmallAlignment = 2
    kLargeAlignment = 6
    vtcmAllocatedSize = 12
    Requests = {}
    NullPtr = NullPtr
    Clients = {c1, c2, c3}
    HeapPtrs = {h1, h2, h3, h4}
    Shapes <- MCShapes
    None = None
SYMMETRY MCSymmetry
INVARIANTS MapInv OnlyExhaustionAborts
CHECK_DEADLOCK FALSE
