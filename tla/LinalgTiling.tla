---------------------------- MODULE LinalgTiling ----------------------------
(***************************************************************************)
(* The passes that cut one linalg operation in pieces: hexagon-tiling with   *)
(* its split reductions, split-reduce-generic, hexagon-slicing,              *)
(* form-virtual-threads and vtcm-tiling.  An operation has the ranges of its loops, the set red of    *)
(* its reduction loops, the element types and indexing maps of its operands  *)
(* (the last is the output), the operations of its body and what combines    *)
(* a result.  A map has one entry for each dimension of the operand: the     *)
(* loops that are added, or <<>> for the constant 0.                         *)
(***************************************************************************)
EXTENDS Integers, Sequences, FiniteSets, SequencesExt, FiniteSetsExt

CONSTANTS VectorBytes,  \* nativeVectorWidthInBytes
          CroutonShape  \* of an element type: its loops and inner tile

Prod(s) == FoldLeft(LAMBDA a, b : a * b, 1, s)
Total(s) == FoldLeft(LAMBDA a, b : a + b, 0, s)
Least(a, b) == IF a < b THEN a ELSE b
Largest(a, b) == IF a < b THEN b ELSE a
CeilDivide(a, b) == (a + b - 1) \div b

PowerOf2(k) == Prod([i \in 1 .. k |-> 2])
\* floor(log2(n)).
Log2(n) == CHOOSE k \in 0 .. n : PowerOf2(k) <= n /\ n < PowerOf2(k + 1)

Loops(op) == DOMAIN op.ranges
Innermost(op) == Len(op.ranges)
Parallel(op) == Loops(op) \ op.red
OutMap(op) == op.maps[Len(op.maps)]
\* Loops from the least weight to the greatest; the outer of two that weigh the same.
InOrder(loops, weight) ==
    LET Before(d) == {e \in loops : weight[e] < weight[d] \/ (weight[e] = weight[d] /\ e < d)}
    IN  [i \in 1 .. Cardinality(loops) |-> CHOOSE d \in loops : Cardinality(Before(d)) = i - 1]

Points(ranges) ==
    {p \in [DOMAIN ranges -> 0 .. Total(ranges)] : \A d \in DOMAIN ranges : p[d] < ranges[d]}
\* The element of the output an iteration contributes to.
CellOf(op, p) == [i \in DOMAIN OutMap(op) |-> Total([j \in DOMAIN OutMap(op)[i] |-> p[OutMap(op)[i][j]]])]

-----------------------------------------------------------------------------
\* Pieces of the iteration space.

Holds(piece, p) == \A d \in DOMAIN p : piece.offset[d] <= p[d] /\ p[d] < piece.offset[d] + piece.size[d]
Whole(ranges) == [offset |-> [d \in DOMAIN ranges |-> 0], size |-> ranges]

\* The faulty variant lets the last tile be as long as the others.
getBoundedTileSizeFull(range, offset, tile) == tile

\* A tile never reaches past the loop.
getBoundedTileSize(range, offset, tile) ==
    IF tile = 1 \/ range % tile = 0 THEN tile ELSE Least(range - offset, tile)

\* The tiles of one loop; size zero does not tile it.
TilesOf(range, tile) ==
    IF tile = 0 THEN {[offset |-> 0, size |-> range]}
    ELSE {[offset |-> o, size |-> getBoundedTileSize(range, o, tile)] :
            o \in {k * tile : k \in 0 .. (CeilDivide(range, tile) - 1)}}

Tiled(ranges, tiles) ==
    {[offset |-> [d \in DOMAIN ranges |-> t[d].offset], size |-> [d \in DOMAIN ranges |-> t[d].size]] :
        t \in {f \in [DOMAIN ranges -> UNION {TilesOf(ranges[d], tiles[d]) : d \in DOMAIN ranges}] :
                  \A d \in DOMAIN ranges : f[d] \in TilesOf(ranges[d], tiles[d])}}

\* The shape of an operand whose loops run over sizes.
Extents(map, sizes) ==
    [i \in DOMAIN map |-> Total([j \in DOMAIN map[i] |-> sizes[map[i][j]] - 1]) + 1]

-----------------------------------------------------------------------------
\* Common.cpp

getElementSizeInBytes ==
    [i1 |-> 1, i8 |-> 1, f16 |-> 2, bf16 |-> 2, i16 |-> 2, f32 |-> 4, i32 |-> 4, f64 |-> 8, i64 |-> 8]

\* body has the types of the vectorizable operations of a generic.
computeSmallestOperandTypeSize(op) ==
    Min({getElementSizeInBytes[e] : e \in ToSet(op.elems) \cup op.bodyElems})

computeDataTileSize(op) == VectorBytes \div computeSmallestOperandTypeSize(op)

-----------------------------------------------------------------------------
\* TilingPass.cpp and SplitReductionUtils.cpp

IsSplitReductionCandidate(op) == op.body \subseteq {"addf", "maxnumf", "minnumf", "mulf", "yield"}

\* The plan a pass makes of an operation: its pieces, the loops whose iterations
\* become lanes of a partial result, and how often the lanes start with the
\* initial value of the output.
Plan(pieces, dims, inits) == [pieces |-> pieces, dims |-> dims, inits |-> inits]
Untouched(op) == Plan({Whole(op.ranges)}, <<>>, 0)

getUserTileSizesAndNumThreads(op, tiles) == [d \in Loops(op) |-> IF d <= Len(tiles) THEN tiles[d] ELSE 0]

\* A partial reduction may tile no parallel loop.
checkTileSizes(op, tiles) == \A d \in Loops(op) : tiles[d] # 0 => d \in op.red

getSanitizedReductionDims(op, tiles) ==
    InOrder({d \in op.red : tiles[d] # 0}, [d \in Loops(op) |-> d])

\* The shape of the partial result: lanes follow the dimensions of the output.
createInitialTensorsForTiling(op, tiles, dims) ==
    LET sizes == [d \in Loops(op) |-> IF d \in ToSet(dims) THEN tiles[d] ELSE op.ranges[d]]
    IN  Extents(OutMap(op), sizes) \o [i \in DOMAIN dims |-> sizes[dims[i]]]

\* Where iteration p of a tile finds its lane.
getInitSliceInfoForOuterReduction(op, dims, piece, p) ==
    CellOf(op, p) \o [i \in DOMAIN dims |-> p[dims[i]] - piece.offset[dims[i]]]

\* What a tile adds to the lanes it writes.  Its body reads a lane from an input
\* of the operation, not from its output: when the tile still has a reduction
\* loop, every iteration starts again from the lane and the last one is kept.
tileToPartialReduction(op, dims, lanes, piece) ==
    LET held == {p \in Points(op.ranges) : Holds(piece, p)}
        Lane(p) == getInitSliceInfoForOuterReduction(op, dims, piece, p)
        LastOf(S) == CHOOSE p \in S : \A q \in S : \A d \in DOMAIN p : q[d] <= p[d]
    IN  {[by |-> piece, lane |-> lane, adds |-> LastOf({p \in held : Lane(p) = lane})] :
            lane \in lanes \cap {Lane(p) : p \in held}}

\* Every lane of an element ends up in it.
mergeTilingResults(partial, cell) == {a \in partial : IsPrefix(cell, a.lane)}

\* The loop over the tiles and the merge after it: what reaches each element.
TileLoopUsingSCF(op, pieces, tiles, dims) ==
    LET lanes == Points(createInitialTensorsForTiling(op, tiles, dims))
        partial == UNION {tileToPartialReduction(op, dims, lanes, piece) : piece \in pieces}
    IN  [cell \in {CellOf(op, p) : p \in Points(op.ranges)} |-> mergeTilingResults(partial, cell)]

\* All reduction loops are offered, the innermost one alone has a tile.
TileReductionLoop(op, tiles) ==
    LET all == getUserTileSizesAndNumThreads(op, tiles)
    IN  IF checkTileSizes(op, all)
        THEN Plan(Tiled(op.ranges, all), getSanitizedReductionDims(op, all), 0)
        ELSE Untouched(op)

SplitReductionLinalgOp(op) ==
    TileReductionLoop(op, [d \in Loops(op) |-> IF d = Innermost(op) THEN computeDataTileSize(op) ELSE 0])

\* One vector of the innermost loop in each step.  What does not divide is cut
\* off first (splitTilingRange), or padded to a vector.
Vectors(op, splitTilingRange) ==
    LET n == Innermost(op)
        tile == computeDataTileSize(op)
        Steps(range) == Tiled([op.ranges EXCEPT ![n] = range], [d \in Loops(op) |-> IF d = n THEN tile ELSE 1])
        rest == op.ranges[n] % tile
        split == op.ranges[n] - rest
    IN  IF rest = 0 THEN Steps(op.ranges[n])
        ELSE IF splitTilingRange
        THEN Steps(split) \cup {[offset |-> [d \in Loops(op) |-> IF d = n THEN split ELSE 0],
                                 size |-> [op.ranges EXCEPT ![n] = rest]]}
        ELSE Steps(split + tile)

\* A loop shorter than a vector, or exactly one, stays as it is.
tileLinalgOp(op, splitTilingRange) ==
    LET range == op.ranges[Innermost(op)]
        tile == computeDataTileSize(op)
    IN  IF range < tile \/ (range = tile /\ Len(op.ranges) = 1)
        THEN Untouched(op)
        ELSE Plan(Vectors(op, splitTilingRange), <<>>, 0)

SplitsReduction(op, enableSplitReduction) ==
    /\ enableSplitReduction
    /\ IsSplitReductionCandidate(op)
    /\ Innermost(op) \in op.red

HexagonTiling(op, enableSplitReduction, splitTilingRange) ==
    IF SplitsReduction(op, enableSplitReduction)
    THEN SplitReductionLinalgOp(op)
    ELSE tileLinalgOp(op, splitTilingRange)

-----------------------------------------------------------------------------
\* SplitReduceGenericPass.cpp: a single reduction loop becomes one of vectors,
\* with a vector of partial results.  A constant that was inserted in the
\* output also fills the partial results.

SplitReduceGeneric(op) ==
    LET lanes == computeDataTileSize(op)
    IN  IF Len(op.ranges) = 1 /\ op.red = {1} /\ op.ranges[1] % lanes = 0
        THEN Plan(Tiled(op.ranges, <<lanes>>), <<1>>, IF op.init = "constant" THEN lanes ELSE 0)
        ELSE Untouched(op)

-----------------------------------------------------------------------------
\* FormVirtualThreadsPass.cpp: one parallel loop becomes a scf.forall.

ParallelLoops(op) == InOrder(Parallel(op), [d \in Loops(op) |-> d])

\* Half of the operations of the body, once for each iteration.
willThreadingBeUseful(op, minPolytopeSize) ==
    Prod(op.ranges) * (Cardinality(op.body) \div 2) >= minPolytopeSize

computeThreadSize(range, numThreads) == IF range <= numThreads THEN 1 ELSE range \div numThreads

\* The loop that becomes threads and how many of its iterations each runs, or
\* <<>>.  A single parallel loop is taken as it is; of several, the first that
\* has more than one iteration.
rewriteForTLP(op, blockSize, numThreads, minPolytopeSize) ==
    LET loops == ParallelLoops(op)
        first == SelectInSeq(loops, LAMBDA d : Len(loops) = 1 \/ op.ranges[d] # 1)
    IN  IF loops = <<>> THEN <<>>
        ELSE IF blockSize # 0 THEN <<1, blockSize>>
        ELSE IF ~willThreadingBeUseful(op, minPolytopeSize) \/ first = 0 THEN <<>>
        ELSE <<loops[first], computeThreadSize(op.ranges[loops[first]], numThreads)>>

FormVirtualThreads(op, blockSize, numThreads, minPolytopeSize) ==
    LET By(thread) ==
            IF thread = <<>> THEN Untouched(op)
            ELSE Plan(Tiled(op.ranges, [d \in Loops(op) |-> IF d = thread[1] THEN thread[2] ELSE 0]), <<>>, 0)
    IN  By(rewriteForTLP(op, blockSize, numThreads, minPolytopeSize))

-----------------------------------------------------------------------------
\* SlicingPass.cpp

\* Double the first parts while what is left allows; the last part takes the rest.
computeSliceSizes(L, K) ==
    LET part == PowerOf2(Log2(L \div K))
        doubled == Least(K, (L - K * part) \div part)
    IN  [i \in 1 .. K |-> (IF i <= doubled THEN 2 * part ELSE part)
                            + (IF i = K THEN L - (K + doubled) * part ELSE 0)]

sliceLinalgOp(op, factor) ==
    IF factor <= 1 \/ 1 \in op.red \/ op.ranges[1] < factor THEN Untouched(op)
    ELSE LET sizes == computeSliceSizes(op.ranges[1], factor)
             Slice(i) == [offset |-> [d \in Loops(op) |-> IF d = 1 THEN Total(SubSeq(sizes, 1, i - 1)) ELSE 0],
                          size |-> [op.ranges EXCEPT ![1] = sizes[i]]]
         IN  Plan({Slice(i) : i \in 1 .. factor}, <<>>, 0)

-----------------------------------------------------------------------------
\* VTCMTilingOptions.cpp and VTCMTiling.cpp

\* A constant in a map counts as one.
calcMemoryFootprint(op, sizes) ==
    Total([k \in DOMAIN op.maps |->
        getElementSizeInBytes[op.elems[k]]
          * Prod([i \in DOMAIN op.maps[k] |->
                IF op.maps[k][i] = <<>> THEN 1
                ELSE Total([j \in DOMAIN op.maps[k][i] |-> sizes[op.maps[k][i][j]]])])])

\* The next power of two of how many times size is the budget.
getReductionFactor(size, budget) ==
    IF size < budget THEN 1
    ELSE PowerOf2(CHOOSE k \in 0 .. size :
            PowerOf2(k) * budget >= size /\ (k = 0 \/ PowerOf2(k - 1) * budget < size))

\* Parallel loops first, the one whose tiling saves most before the others.
generateTilingPriorityOrder(op, tilingDims) ==
    LET ParallelFirst(halved) == InOrder(Parallel(op), halved) \o InOrder(op.red, halved)
    IN  IF tilingDims # <<>> THEN tilingDims
        ELSE ParallelFirst([d \in Loops(op) |-> calcMemoryFootprint(op, [op.ranges EXCEPT ![d] = @ \div 2])])

\* The inner loops are a crouton: its shape, or <<>>.
getCroutonLowerBounds(op) ==
    LET elem == op.elems[Len(op.elems)]
    IN  IF elem \notin DOMAIN CroutonShape THEN <<>>
        ELSE IF /\ Len(op.ranges) = CroutonShape[elem].loops
                /\ IsSuffix(CroutonShape[elem].tile, op.ranges)
             THEN CroutonShape[elem].tile ELSE <<>>

\* Four outer iterations for the threads; a crouton, or a vector of the inner loop.
calculateTileSizeLowerBounds(op) ==
    LET n == Innermost(op)
        threads == [d \in Loops(op) |-> IF d = 1 /\ op.ranges[1] >= 4 THEN 4 ELSE 1]
        crouton == getCroutonLowerBounds(op)
        vector == computeDataTileSize(op)
    IN  IF crouton # <<>>
        THEN SubSeq(threads, 1, n - Len(crouton)) \o crouton
        ELSE IF op.ranges[n] >= vector THEN [threads EXCEPT ![n] = vector] ELSE threads

\* The faulty variant settles for the first tile sizes that do not grow.
determineTileSizesOnce(op, budget, tilingDims) ==
    LET factor == getReductionFactor(calcMemoryFootprint(op, op.ranges), budget)
        Cut(d) == [op.ranges EXCEPT ![d] = Largest(@ \div factor, calculateTileSizeLowerBounds(op)[d])]
    IN  Cut(generateTilingPriorityOrder(op, tilingDims)[1])

\* In order of priority a loop is cut by what is still over the budget, first
\* down to the lower bounds, then to one.  <<>> when the operation cannot fit.
CutInOrder(op, budget, order, lower) ==
    LET CutLoop(tiles, bytes, d, least) ==
            IF bytes <= budget THEN tiles
            ELSE [tiles EXCEPT ![d] = Largest(@ \div getReductionFactor(bytes, budget), least)]
        Cut(tiles, step) ==
            CutLoop(tiles, calcMemoryFootprint(op, tiles), step[2], IF step[1] = 1 THEN lower[step[2]] ELSE 1)
        Fitting(tiles) == IF calcMemoryFootprint(op, tiles) <= budget THEN tiles ELSE <<>>
    IN  Fitting(FoldLeft(Cut, op.ranges, [i \in DOMAIN order |-> <<1, order[i]>>]
                                           \o [i \in DOMAIN order |-> <<2, order[i]>>]))

determineTileSizes(op, budget, tilingDims) ==
    CutInOrder(op, budget, generateTilingPriorityOrder(op, tilingDims), calculateTileSizeLowerBounds(op))

\* Sizes of the user are for the innermost loops.
getTileSizes(op, userTileSizes, budget) ==
    IF userTileSizes # <<>>
    THEN SubSeq(userTileSizes, Len(userTileSizes) - Len(op.ranges) + 1, Len(userTileSizes))
    ELSE determineTileSizes(op, budget, <<>>)

\* The operands a tile has all of.
setFullTensors(op, tiles) ==
    {k \in DOMAIN op.maps :
        Extents(op.maps[k], op.ranges)
          = [i \in DOMAIN op.maps[k] |->
                Largest(1, Total([j \in DOMAIN op.maps[k][i] |-> tiles[op.maps[k][i][j]]]))]}

VTCMTiling(op, userTileSizes, budget) ==
    LET By(tiles) == IF tiles = <<>> THEN Untouched(op) ELSE Plan(Tiled(op.ranges, tiles), <<>>, 0)
    IN  By(getTileSizes(op, userTileSizes, budget))

\* Full operands are copied to VTCM before the loops, slices of the others in
\* each iteration.
VTCMBytes(op, tiles) ==
    Total([k \in DOMAIN op.maps |->
        getElementSizeInBytes[op.elems[k]]
          * Prod(Extents(op.maps[k], IF k \in setFullTensors(op, tiles) THEN op.ranges ELSE tiles))])

-----------------------------------------------------------------------------
\* What a plan computes.

\* Every iteration contributes once to its element, by the piece it is in or
\* through its lane.
EachOnce(op, plan) ==
    IF plan.dims = <<>>
    THEN \A p \in Points(op.ranges) : Cardinality({piece \in plan.pieces : Holds(piece, p)}) = 1
    ELSE LET tiles == [d \in Loops(op) |-> Max({piece.size[d] : piece \in plan.pieces})]
         IN  \E result \in {TileLoopUsingSCF(op, plan.pieces, tiles, plan.dims)} :
                \A cell \in DOMAIN result :
                    /\ \A a, b \in result[cell] : a.adds = b.adds => a = b
                    /\ {a.adds : a \in result[cell]} = {p \in Points(op.ranges) : CellOf(op, p) = cell}

\* No two threads write the same element.
ThreadsApart(op, thread) ==
    thread # <<>> => \A p, q \in Points(op.ranges) :
        (p[thread[1]] \div thread[2] # q[thread[1]] \div thread[2]) => CellOf(op, p) # CellOf(op, q)

\* Iterations that only padding has.
PaddedPoints(op, plan) ==
    LET reach == [d \in Loops(op) |-> Max({piece.offset[d] + piece.size[d] : piece \in plan.pieces})]
    IN  Points([d \in Loops(op) |-> Largest(reach[d], op.ranges[d])]) \ Points(op.ranges)

\* Every iteration counts once, as does the initial value unless repeating it
\* changes nothing; padding is zero and may only meet a sum.
RunsOnce(op, plan) ==
    /\ EachOnce(op, plan)
    /\ plan.inits = 0 \/ op.init = "identity" \/ op.combiner # "addf"
    /\ \A p \in PaddedPoints(op, plan) :
          op.combiner = "addf" \/ CellOf(op, p) \notin {CellOf(op, q) : q \in Points(op.ranges)}

=============================================================================
