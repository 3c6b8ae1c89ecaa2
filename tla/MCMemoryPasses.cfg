CONSTANTS
    Programs <- MCPrograms
    Alignment = 8
    BufferSize = 44
    Scratch = 48
SPECIFICATION Spec
INVARIANTS
    MemoryMeaningKept
    BuffersReleased
CHECK_DEADLOCK FALSE
