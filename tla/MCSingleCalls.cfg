CONSTANTS
    Circuits <- MCCircuits
    Selections <- MCSelections
    Fusions <- MCFusions
    Bands <- MCBands
    CacheSets <- MCCacheSets
    TiledAccesses <- MCTiledAccesses
    VectorBytes = 8
    CroutonShape <- MCCroutonShape
    Tilings <- MCTilings
    Reductions <- MCReductions
    Slicings <- MCSlicings
    VTCMTilings <- MCVTCMTilings
    CroutonHeight = 2
    CroutonDepth = 2
    Convolutions <- MCConvolutions
    Threadings <- MCThreadings
    Foldings <- MCFoldings
    Pairings <- MCPairings
    ScanInputs <- MCScanInputs
    SumInputs <- MCSumInputs
    Memory <- MCMemory
    Copies <- MCCopies
    F16_CROUTON_SHAPE <- MCF16Crouton
    INT8_CROUTON_SHAPE <- MCInt8Crouton
    SeededConvs <- MCSeededConvs
    Matmuls <- MCMatmuls
    CroutonInputs <- MCCroutonInputs
    LayoutChanges <- MCLayoutChanges
    Resources <- MCResources
    Generics <- MCGenerics
    Unrollings <- MCUnrollings
    Powers <- MCPowers
SPECIFICATION Spec
INVARIANTS
    CircuitsAreExact
    SelectionIsMaximum
    FusionKeepsDependences
    TilesFitCache
    CachedLoopIsSame
    IterationsRunOnce
    TilesFitVTCM
    TiledConvIsSame
    FoldedConstantIsSame
    ConvertedLayoutIsSame
    BodiesComputeSame
    ScanIsExact
    CopiedExactly
CHECK_DEADLOCK FALSE
