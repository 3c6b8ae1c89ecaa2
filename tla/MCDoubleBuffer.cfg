SPECIFICATION Spec
CONSTANTS
    NumOperands = 3
    Stored <- MCStored
    Memref <- MCMemref
    step = 2
    Loops <- MCLoops
INVARIANTS PipelineInv QuietAtExit
PROPERTY ImplementsTiledLoop
CHECK_DEADLOCK FALSE
