----------------------------- MODULE SingleCalls -----------------------------
(***************************************************************************)
(* What is called once on an input and keeps nothing: the passes that        *)
(* transform one operation, one constant or one loop nest, and the copy      *)
(* between buffers of the runtime.                                           *)
(***************************************************************************)
EXTENDS CallAlgorithms, Integers, Sequences, FiniteSets

CONSTANTS Circuits,     \* pairs of a matrix and a sequence of rows, for BareissLU
          Selections,   \* matrix, groups and whether only a prefix counts
          Fusions,      \* pairs of a problem and whether the producer can go
          Bands,        \* trip counts, cache, footprints
          CacheSets,    \* memrefs of a loop and the cache
          TiledAccesses, \* one memref accessed in tiles
          Tilings,      \* operation, enableSplitReduction, splitTilingRange
          Reductions,   \* operations for split-reduce-generic
          Slicings,     \* operation and slicing factor
          VTCMTilings,  \* operation, tile sizes of the user, budget
          CroutonHeight, CroutonDepth,
          Convolutions,
          Threadings,   \* operation, block size, threads and least work
          Foldings,     \* constant and the operations on it
          Pairings,     \* tensor and a chain of operations with unpacks and packs
          ScanInputs,   \* length and direction
          SumInputs,    \* shape and axis
          Copies,       \* destination, source and length
          F16_CROUTON_SHAPE, INT8_CROUTON_SHAPE,
          SeededConvs,
          Matmuls,
          CroutonInputs, \* inputs of generics
          LayoutChanges, \* memref and layout
          Resources,    \* tensor, permutation and element type
          Generics,     \* inputs and body
          Unrollings,   \* loop and factor
          Powers        \* base, exponent, greatest exponent, negative ones too

ASSUME CallsAssumption ==
    /\ {CroutonHeight, CroutonDepth} \subseteq Nat \ {0}
    /\ F16_CROUTON_SHAPE \in Seq(Nat \ {0}) /\ Len(F16_CROUTON_SHAPE) = 4
    /\ F16_CROUTON_SHAPE[3] % 2 = 0 /\ F16_CROUTON_SHAPE[4] = 2
    /\ INT8_CROUTON_SHAPE \in Seq(Nat \ {0}) /\ Len(INT8_CROUTON_SHAPE) = 3

\* The input of a scan has an element, and an axis is one of its dimensions.
ASSUME ScansAssumption ==
    /\ ScanInputs \subseteq (Nat \ {0}) \X BOOLEAN
    /\ \A in \in SumInputs : in[1] \in Seq(Nat \ {0}) /\ in[2] \in DOMAIN in[1]

\* The operations the passes are given.  A reduction is split when the innermost
\* loop is its only one; padding and lanes that start with a constant are for
\* bodies they do not change; a block of threads has parallel iterations.
ASSUME OperationsAssumption ==
    /\ \A in \in Tilings :
          /\ IsOperation(in[1]) /\ IndexesOutput(in[1]) /\ in[2] \in BOOLEAN /\ in[3] \in BOOLEAN
          /\ LT!SplitsReduction(in[1], in[2]) => in[1].red = {LT!Innermost(in[1])}
          /\ in[3] \/ in[1].combiner = "addf" \/ LT!Innermost(in[1]) \notin in[1].red
    /\ \A op \in Reductions :
          IsOperation(op) /\ IndexesOutput(op) /\ (op.init = "constant" => op.combiner # "addf")
    /\ \A in \in Slicings : IsOperation(in[1]) /\ in[2] \in Nat
    /\ \A in \in VTCMTilings :
          /\ IsOperation(in[1]) /\ in[2] \in Seq(Nat) /\ in[3] \in Nat \ {0}
          /\ in[2] # <<>> => Len(in[2]) >= LT!Innermost(in[1])
    /\ \A in \in Threadings :
          /\ IsOperation(in[1]) /\ IndexesOutput(in[1])
          /\ in[2] \in Nat /\ (in[2] # 0 => 1 \notin in[1].red) /\ in[3] \in Nat \ {0}

\* One iteration of a band fits the cache, if there is one.  The footprint of a
\* memref's tile and of the memref are not empty.
ASSUME CachesAssumption ==
    /\ \A in \in Bands :
          /\ in[1] \in Seq(Nat) /\ in[1] # <<>> /\ {in[2], in[3], in[4]} \subseteq Nat
          /\ in[2] = 0 \/ in[3] <= in[2]
    /\ \A in \in CacheSets : in[1] \in Seq(TM!Memref) /\ in[2] \in Nat

\* A copy is between buffers that do not overlap, or between one and plain memory.
ASSUME CopiesAssumption ==
    \A c \in Copies :
        /\ CanCopy(c.dest, c.src, c.n)
        /\ CanCopy(HB!External(c.dest.base, c.n), c.src, c.n)
        /\ CanCopy(c.dest, HB!External(c.src.base, c.n), c.n)

VARIABLE call

BL == INSTANCE BareissLU
MI == INSTANCE MatroidIntersection
PF == INSTANCE PipelineFusion
CT == INSTANCE ConvTiling
CF == INSTANCE ConstantFolds
CR == INSTANCE Croutons
LB == INSTANCE LoopBodies

NoCall == [alg |-> "none"]
Call(alg, inputs) == \E in \in inputs : call' = [alg |-> alg, in |-> in]

Init == call = NoCall
BareissLU == call = NoCall /\ Call("dependence", Circuits)
MatroidIntersection == call = NoCall /\ Call("selection", Selections)
AffinePipelineFusion == call = NoCall /\ Call("fusion", Fusions)
AffineTiling == call = NoCall /\ Call("band", Bands)
TileMemoryFit == call = NoCall /\ Call("caches", CacheSets)
TileMemoryCopy == call = NoCall /\ Call("tiles", TiledAccesses)
HexagonTiling == call = NoCall /\ Call("tiling", Tilings)
SplitReduceGeneric == call = NoCall /\ Call("split", Reductions)
HexagonSlicing == call = NoCall /\ Call("slicing", Slicings)
VTCMTiling == call = NoCall /\ Call("vtcm", VTCMTilings)
ConvTiling == call = NoCall /\ Call("conv", Convolutions)
FormVirtualThreads == call = NoCall /\ Call("threads", Threadings)
FoldPackUnpackConstants == call = NoCall /\ Call("fold", Foldings)
EliminateRedundantUnpackPack == call = NoCall /\ Call("pair", Pairings)
LowerScan == call = NoCall /\ Call("scan", ScanInputs)
LowerCumSum == call = NoCall /\ Call("cumsum", SumInputs)
\* Plain memory on one side has the length that is asked.
CopyTo == call = NoCall /\ Call("copy", {[c EXCEPT !.dest = HB!External(@.base, c.n)] : c \in Copies})
CopyFrom == call = NoCall /\ Call("copy", {[c EXCEPT !.src = HB!External(@.base, c.n)] : c \in Copies})
CopyFromBuffer == call = NoCall /\ Call("copy", Copies)
SeedLayoutConversions == call = NoCall /\ Call("seed", SeededConvs)
MatmulToConv == call = NoCall /\ Call("matmul", Matmuls)
ForceHVXCrouton == call = NoCall /\ Call("crouton", CroutonInputs)
ConvertLayout == call = NoCall /\ Call("layout", LayoutChanges)
FoldResourceTranspose == call = NoCall /\ Call("resource", Resources)
HoistScalarOps == call = NoCall /\ Call("hoist", Generics)
SCFLoopUnroll == call = NoCall /\ Call("unroll", Unrollings)
SmallExponentToMultiply == call = NoCall /\ Call("power", Powers)

Next ==
    \/ BareissLU
    \/ MatroidIntersection
    \/ AffinePipelineFusion
    \/ AffineTiling
    \/ TileMemoryFit
    \/ TileMemoryCopy
    \/ HexagonTiling
    \/ SplitReduceGeneric
    \/ HexagonSlicing
    \/ VTCMTiling
    \/ ConvTiling
    \/ FormVirtualThreads
    \/ FoldPackUnpackConstants
    \/ EliminateRedundantUnpackPack
    \/ LowerScan
    \/ LowerCumSum
    \/ CopyTo
    \/ CopyFrom
    \/ CopyFromBuffer
    \/ SeedLayoutConversions
    \/ MatmulToConv
    \/ ForceHVXCrouton
    \/ ConvertLayout
    \/ FoldResourceTranspose
    \/ HoistScalarOps
    \/ SCFLoopUnroll
    \/ SmallExponentToMultiply

Spec == Init /\ [][Next]_call

-----------------------------------------------------------------------------
\* BareissLU.cpp: a row is found dependent exactly when it is, and the rows it
\* is said to depend on are its circuit.
CircuitsAreExact ==
    call.alg = "dependence" =>
        \A j \in DOMAIN call.in[1] : (\A k \in DOMAIN call.in[2] : call.in[2][k] # j) =>
            BL!CircuitOracle(call.in[1], call.in[2], j)

\* MatroidIntersection.cpp: the rows picked are independent, one of each group,
\* and no such choice is larger.
SelectionIsMaximum ==
    call.alg = "selection" => MI!MaximumSelection(call.in[1], call.in[2], call.in[3])

\* AffinePipelineFusionPass.cpp: every producer iteration a consumer iteration
\* needs has run before it, once, and nothing else runs.
FusionKeepsDependences ==
    call.alg = "fusion" => PF!FusionPreservesDependences(call.in[1], call.in[2])

\* AffineTilingPass.cpp and AffineTileMemoryPass.cpp: a tile fits the cache when
\* the body does, and no tile is partial; the caches chosen for a loop fit together,
\* save one larger than the memref it is copied from, whose copy is ill-typed.
TilesFitCache ==
    /\ call.alg = "band" => AT!TilesFit(call.in[1], call.in[2], call.in[3], call.in[4])
    /\ call.alg = "caches" => TM!CachesFit(call.in[1], call.in[2])

\* AffineTileMemoryPass.cpp: a loop on cached tiles reads and leaves what the
\* loop without caches does, inside the memref and the cache.
CachedLoopIsSame == call.alg = "tiles" => TM!CachingPreservesResult(call.in)

\* TilingPass.cpp, SplitReductionUtils.cpp, SplitReduceGenericPass.cpp,
\* SlicingPass.cpp, VTCMTiling.cpp and FormVirtualThreadsPass.cpp: however an
\* operation is cut, every iteration contributes once to its element, and
\* nothing else does; no two threads share an element.
IterationsRunOnce ==
    /\ call.alg = "tiling" => LT!RunsOnce(call.in[1], LT!HexagonTiling(call.in[1], call.in[2], call.in[3]))
    /\ call.alg = "split" => LT!RunsOnce(call.in, LT!SplitReduceGeneric(call.in))
    /\ call.alg = "slicing" => LT!RunsOnce(call.in[1], LT!sliceLinalgOp(call.in[1], call.in[2]))
    /\ call.alg = "vtcm" => LT!RunsOnce(call.in[1], LT!VTCMTiling(call.in[1], call.in[2], call.in[3]))
    /\ call.alg = "threads" =>
          /\ LT!RunsOnce(call.in[1], LT!FormVirtualThreads(call.in[1], call.in[2], call.in[3], call.in[4]))
          /\ LT!ThreadsApart(call.in[1], LT!rewriteForTLP(call.in[1], call.in[2], call.in[3], call.in[4]))

\* VTCMTilingOptions.cpp: what vtcm-tiling copies to VTCM fits the budget,
\* the operands it copies as a whole included.
TilesFitVTCM ==
    (call.alg = "vtcm" /\ call.in[2] = <<>>) =>
        LET tiles == LT!getTileSizes(call.in[1], <<>>, call.in[3])
        IN  tiles # <<>> => LT!VTCMBytes(call.in[1], tiles) <= call.in[3]

\* ConvTilingPass.cpp and PreprocessTiledConv2D.cpp: each element of a
\* convolution that is tiled, peeled and moved to packed slices is computed
\* from the same rows and the same filter, and none is lost.
TiledConvIsSame ==
    call.alg = "conv" => CT!PreprocessTiledConv2D(call.in) = CT!Conv2D(call.in)

\* FoldPackUnpackConstantsPass.cpp and EliminateRedundantUnpackPackPass.cpp: a
\* folded constant has every element, in its place, that the operations would
\* have computed, and a dropped pair loses no data.
FoldedConstantIsSame ==
    /\ call.alg = "fold" => CF!FoldsExactly(call.in[1], call.in[2])
    /\ call.alg = "pair" => CF!EliminatesExactly(call.in[1], call.in[2])

\* SeedLayoutConversions.cpp, PackUnpackUtils.cpp, MatmulToConvPass.cpp,
\* ForceHVXCrouton.cpp, ConvertLayoutPass.cpp and FoldResourceTransposePass.cpp:
\* what runs on converted layouts, with all their padding, or on the operation
\* that was put in place of another, computes the same elements.
ConvertedLayoutIsSame ==
    /\ call.alg = "seed" => CR!PackedConvIsSame(call.in)
    /\ call.alg = "matmul" => CR!MatmulToConvIsSame(call.in)
    /\ call.alg = "crouton" => CR!RoundTripIsSame(call.in)
    /\ call.alg = "layout" => CR!LayoutIsConverted(call.in[1], call.in[2])
    /\ call.alg = "resource" => CR!TransposeIsFolded(call.in[1], call.in[2], call.in[3])

\* HoistScalarOps.cpp, SCFLoopUnrollPass.cpp and SmallExponentToMultiplyPass.cpp:
\* a body that lost its scalar operations yields the same, from operands that
\* still are the ones meant, an unrolled loop runs the same iterations in the
\* same order, and products are the power they replace.
BodiesComputeSame ==
    /\ call.alg = "hoist" => LB!HoistedBodyIsSame(call.in)
    /\ call.alg = "unroll" => LB!UnrolledLoopIsSame(call.in[1], call.in[2])
    /\ call.alg = "power" => LB!PowerIsSame(call.in[1], call.in[2], call.in[3], call.in[4])

\* LowerTTX.cpp: every element of a scan combines itself and all before it, in
\* the order of the scan, although the input is overwritten on the way.
ScanIsExact ==
    /\ call.alg = "scan" => SC!ScansInOrder(call.in[1], call.in[2])
    /\ call.alg = "cumsum" => SC!SumsAlong(call.in[1], call.in[2])

\* HexagonBuffer.cpp: however the regions of the two buffers interleave, a copy
\* moves the bytes asked for and changes no other.
CopiedExactly == call.alg = "copy" => HB!CopiesExactly(call.in.dest, call.in.src, call.in.n)

=============================================================================
