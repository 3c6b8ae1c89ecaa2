CONSTANTS
    Circuits <- MCNone
    Selections <- MCNone
    Fusions <- MCNone
    Bands <- MCNone
    CacheSets <- MCNone
    TiledAccesses <- MCNone
    VectorBytes = 8
    CroutonShape <- MCCroutonShape
    Tilings <- MCNone
    Reductions <- MCNone
    Slicings <- MCNone
    VTCMTilings <- MCNone
    CroutonHeight = 2
    CroutonDepth = 2
    Convolutions <- MCOneWholeTile
    Threadings <- MCNone
    Foldings <- MCNone
    Pairings <- MCNone
    ScanInputs <- MCNone
    SumInputs <- MCNone
    Memory <- MCMemory
    Copies <- MCNone
    F16_CROUTON_SHAPE <- MCF16Crouton
    INT8_CROUTON_SHAPE <- MCInt8Crouton
    SeededConvs <- MCNone
    Matmuls <- MCNone
    CroutonInputs <- MCNone
    LayoutChanges <- MCNone
    Resources <- MCNone
    Generics <- MCNone
    Unrollings <- MCNone
    Powers <- MCNone
SPECIFICATION Spec
INVARIANT TiledConvIsSame
CHECK_DEADLOCK FALSE
