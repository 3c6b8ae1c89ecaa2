# A TLA+ model of hexagon-mlir

hexagon-mlir compiles Triton and PyTorch kernels with MLIR to code for the
Hexagon DSP.  The repository has two halves: a compiler (`lib/`, a pipeline of
MLIR passes) and a runtime the generated code calls (`bin/runtime/`).  This
project models the runtime, the passes that decide how generated code uses it,
and the passes whose result is hard to see by looking: layouts, tiles, loop
fusion, memory and the matrix unit.  Paths below are relative to
`qcom_hexagon_backend/`.

## 1. The system

### The runtime

| component | state it keeps | operations | what makes it correct |
|---|---|---|---|
| VTCM pool (`bin/runtime/src/VTCMPool.cpp`) | live blocks `allocations_`, free list `free_` | `Allocate`, `Free`, destructor | live blocks never overlap; free list sorted and coalesced; no byte lost; a request fails only when no hole is large enough |
| User DMA (`bin/runtime/UserDMA/`) | ring of 128 descriptors with wrapping `head`/`tail`, tail descriptor of the hardware chain | `copy`, `copy2D`, `wait`, destructor | a descriptor is not reused before its transfer ends; `wait` returns only after the transfer; a full ring makes room; the chain handed to the engine has no gap |
| Thread pool (`multithreading/HexagonThreadPool`) | task queue, `activeTasks`, `stop`, two condition variables | `enqueueTask`, `wait`, worker loop, destructor | a task runs once; no wake-up lost; `wait` means idle; the destructor drains the queue |
| Async runtime (`multithreading/AsyncRuntime`) | reference-counted tokens, values and groups, their awaiters | create, emplace, error, add to group, await, execute | each token counted once, error before completion; nothing used after its last reference; nothing left at exit |
| Buffers of the C API (`BufferManager.h`, `HexagonBuffer`, `HexagonAPI`) | map from data pointers to owned buffers, map of aliases, the session's pool | `Alloc`, `Free`, `Copy`, alias, session start and end | the map matches the pool's live blocks; every byte of a copy reaches its place |
| HexKL API (`HexKLAPI.cpp`) | tiles of VTCM, the unit's accumulator and configuration | `hexkl_matmul_f16f16_f32` | the result is the product; no tile is used for two things at once |

### The compiler

| component | what it works on | what makes it correct |
|---|---|---|
| Layout propagation (`ExtendPackUnpackFrontier`) | packs, unpacks and reshapes around generics, moved by a pattern driver in any order | every lane that holds data keeps its value; shapes agree |
| Constant folds (`FoldPackUnpackConstants`, `EliminateRedundantUnpackPack`) | packed, transposed, reshaped constants | each element at its place |
| Tiling (`TilingPass`, `SplitReduction*`, `SlicingPass`, `VTCMTiling*`, `FormVirtualThreads`) | linalg generics | every iteration once; partial results merged; a tile fits VTCM; threads disjoint |
| Convolution tiling (`ConvTilingPass`, `PreprocessTiledConv2D`) | tiled, peeled and packed convolutions | no row or channel lost |
| Affine pipeline (`AffineTiling`, `AffineTileMemory`, `AffinePipelineFusion`, `BareissLU`, `MatroidIntersection`) | loop nests | a producer runs before its consumer; caches fit and hold what the loop reads |
| Virtual threads to async (`FormAsyncThreads`) | `scf.forall` | the join waits for every iteration |
| Double buffering (`DoubleBufferGenericS1/S2`) | tiled loops | same stores as the plain loop; no race with a transfer |
| Memory pipeline (`CopyCanonicalization`, `ConvertToHexagonmem`, `InsertScratchArg`, `MemoryOffsets`, `HexmemCpyToDMA`, `DMAToLLVM`, `HexagonMemToLLVM`, `CollapseAddressSpace`) | bufferized functions | the same bytes in the end; every buffer released once |
| HexKL passes (`MatmulToHexKL`, `DecomposeHexKLMatmul`, `LowerHexKLMatmulToMacro`, `PreprocessWeightsForHMX`, `FoldCastsIntoMatmul`) | matmuls | results are products; the unit locked, set up, and reading what left the cache |
| Croutons (`SeedLayoutConversions`, `PackUnpackUtils`, `MatmulToConv`, `ForceHVXCrouton`, `ConvertLayout`, `FoldResourceTranspose`) | convolutions, matmuls, memrefs and resources put into the layout of the unit | image, filter and result agree on the layout, padding included |
| Loop bodies (`HoistScalarOps`, `SCFLoopUnroll`, `SmallExponentToMultiply`) | generics, `scf.for`, `math.fpowi` | the same values, the same iterations |
| Scans (`LowerTTX`) | scan and cumulative sum | each element combines all before it, although the input is overwritten |

The remaining parts (dialects, peephole rewrites, code generation, Python driver)
are listed in `PROJECT.json`, each with the reason it is not modelled.

### Interactions

Passes hand functions on to the next pass; what one writes the next one looks
for, often by shape alone (the wrapping casts of a convolution, the loop form the
double-buffering pass parses, the `hexagonmem.dealloc` a pass deletes).  Generated
code runs on a main thread and, for an `scf.forall`, on the workers of the
thread pool: each iteration becomes a coroutine that `mlirAsyncRuntimeExecute`
puts in the pool's queue, and the main thread blocks in `AwaitAllInGroup` on a
group whose condition variable the last finishing task signals.  Kernels obtain
scratchpad memory from the VTCM pool through `HexagonAPI::Alloc`, or at compile
time by offsets into one argument, and move data with the DMA runtime: `dma_start`
appends a descriptor to a chain that the engine walks on its own; `dma_wait` spins on the
descriptor's done bit.  Matmuls go to a unit that reads memory past the
CPU's cache.  So there are four sources of concurrency: threads, the
DMA engine, the cache, and wake-ups of condition variables.

### What is hard here

- the counters of the ring wrap, transfers end out of order, and a token may
  be waited for after its slot has been given to another transfer;
- notifications are sent after the mutex was released, from inside tasks too,
  while the owner waits or destroys the pool;
- a task may emplace its token before, during or after the main thread adds it
  to the group, and reference counts decide who frees what;
- the free list is only as good as the longest mix of joins and cuts it has seen;
- patterns apply in any order until none fits, and each must be right after every other;
- tiles that do not divide, windows that overlap, a first tile that starts outside;
- a pass recognises a loop by its form, and another pass may have changed the form;
- several failures are not seen at all: a rejected DMA start, a truncated size,
  a group of the wrong size.

Each of these is a line of `hazards` in `PROJECT.json`, with the properties that
would catch it going wrong, or a note saying why none does.

## 2. Plan

| module | models | builds on |
|---|---|---|
| `ScratchAllocator` | what a client expects of a scratchpad allocator | - |
| `VTCMPool` | the free-list allocator | refines `ScratchAllocator` |
| `VectorLemmas` | lemmas about lists, remainders, folds and counting | TLAPS |
| `UserDMAProofs`, `AsyncForallProofs`, `BufferManagerProofs`, `DoubleBufferProofs` | proofs about the runtime and the double-buffered loop | their component; `AsyncForallProofs` holds the thread pool's, `BufferManagerProofs` the VTCM pool's |
| `UserDMA` | descriptor ring, DMA engine, generated start and wait | - |
| `HexagonThreadPool` | the pool of threads | - |
| `AsyncRuntime`, `AsyncForall` | tokens and groups; the program generated for an `scf.forall` | `HexagonThreadPool` |
| `BufferManager` | C API allocation and sessions | extends `VTCMPool` |
| `TiledLoop`, `DoubleBuffer` | the plain loop and the ping-pong loop of S1 and S2 | `DoubleBuffer` refines `TiledLoop` |
| `Tensors` | what packs, reshapes, pads and generics compute | - |
| `LayoutPropagation` | the patterns of `ExtendPackUnpackFrontier` | `Tensors` |
| `MemoryPrograms`, `MemoryPasses` | bufferized functions and their execution; the memory pipeline | - |
| `HexKL` | the HexKL passes, the machine they generate code for, the runtime's matmul | - |
| `BareissLU`, `MatroidIntersection`, `PipelineFusion`, `AffineTiling`, `TileMemory`, `LinalgTiling`, `ConvTiling`, `ConstantFolds`, `Croutons`, `LoopBodies`, `Scans`, `HexagonBuffer` | operators: one pass or routine each | - |
| `CallAlgorithms` | the passes and routines proved about, and what their inputs are | the operators above |
| `SingleCalls` | one call of any of these on any input of a set | all of them |
| `TilingLemmas`, `CallLemmas`, `SingleCallsProofs` | proofs about tilings; about scans, copies and caches; about convolutions and the calls | `CallAlgorithms`, `SingleCalls` |

Each `MC...` module gives a specification's constants values TLC can enumerate.

### Next

1. *Proofs*: the patterns of layout propagation one by one, whose steps work on chains of any
   length; windows of cached tiles (`CachedLoopIsSame`); folded constants.
2. *Compositions*: the descriptor ring as the engine below the double-buffered
   loop, and the ring used by several threads of one `scf.forall`.
3. *More of the code*: async values and the `AwaitAndExecute` entry points, aliases
   of buffers, the walk of the fusion pass over a block of many nests.

## 3. Modules and code

`PROJECT.json` maps every definition to its lines.  Here is how to read them.

**VTCMPool.** `allocations` and `free` are `allocations_` and `free_`, blocks are
`(first, second)` pairs as in the code.  The order of `allocations_` is not kept:
it is only searched by pointer.  `Allocate` has three outcomes, an action
each: `AllocateFromEnd`, `AllocateBestFit`, `AllocateFails`.  `Free` is split by its
`CHECK`s; a failed `CHECK` is a `status` in which nothing more happens.  A call is
one step: the pool has no lock, so this holds for clients whose calls do not
overlap and for no others (see Limits).  Addresses are offsets from the start of
the pool, which is page aligned.

**UserDMA.** One kernel thread (`pc`) and the engine (`chain`, `active`).  A
`dma_start` is the steps `StartAccepted`, the scan of a full ring one descriptor at a
time (`BeginScan`, `FreeHead`, `EndScan`) and `Submit`: the engine can set done bits
between any two.  A `dma_wait` spins in `pc = "wait"`.  `issued`, `completed` and
`returned` record what really happened to each transfer; no guard reads them except for the
bound `MaxTransfers`.  The engine, hardware outside the repository, fetches in chain order and
completes in any order, since every descriptor is built with `DESC_ORDER_NOORDER`.

**HexagonThreadPool.** Workers loop `test` - `asleep`/`run` - `test`; a section under a
mutex is a step and what follows the unlock (`notify_one`, `notify_all`) another.  Condition
variables wake spuriously.  Any thread may enqueue, workers from inside a task too.

**AsyncRuntime, AsyncForall.** Each operation of the runtime is an action without
a thread; `AsyncForall` gives it one.  `token->mu` is a field because
`setTokenState` holds it across the awaiters; `group->mu` is never held across
a wait and stays implicit.  Failed asserts do not stop the model (`NDEBUG`); the
properties say separately that they do not fail.  `dropsRefs` covers both kinds of program:
those whose compiler emits `drop_ref` and those, like this pipeline's, whose compiler does not.

**BufferManager.** A client allocates, holds and frees.  Heap addresses are model values that
may be reused after they were freed.  A session ends by destroying the buffers of the
map one by one, then the pool.

**TiledLoop, DoubleBuffer.** `generateSchedule` is the parser of loop bodies, kept
as a state machine; `Init` admits the loops it accepts.  The rewritten loop runs
one operation per step, with `toggle` as the generated memref of one bit; a
transfer reads at one moment and writes at a later one.  Data is
symbolic: a tile records which computation produced it from which tiles.

**Tensors, LayoutPropagation.** A program is a tensor and the chain of operations on
it; a generic may have a second operand with a chain of its own.  `Tensors` says what an
operation computes, with an integer per element and a mark that tells data from padding.
Each pattern of the pass is an operator from a chain and a place to the set of its
rewritten chains, and a step applies one pattern at one place, as the
greedy driver may.  What a pattern asks of types (`isDimsDivisibleByTileSizes`, projected
positions, regrouped reassociations) is translated; static shapes only.

**MemoryPrograms, MemoryPasses.** A function is a list of operations on named memrefs
with shape, strides, offset, element width and space; `Meaning` executes it, byte by byte, and
faults on an access outside a buffer or after its release.  The passes run in the order of
`LinalgToLLVMPass`; an optional one may be skipped.  Between `DMAToLLVM` and `HexagonMemToLLVM`
(`stage = "dma_to_llvm"`) sizes are already in bytes on one side, and no
property is stated there.

**HexKL.** The operators at the top rewrite a function the way the five passes
do and compile it to instructions; the actions execute them, with a data cache that may
write back or drop a line at any moment.  A tensor's value is its layout and what it is a product
of; the unit gives garbage for data in another layout.

**SingleCalls.** Each action is one call of a pass on an input.  The
property says of the input and the result what makes the call right, by a definition
that does not use the algorithm: circuits by trying all subsets, schedules by running both
nests, tiles by the multiset of iterations that reach an element, constants by the operations
that were folded, copies by the byte each address received.

- `BareissLU`, `MatroidIntersection`: matrices over the integers, rows as functions from 0.
- `PipelineFusion`: `computeSrcToDstRelation` and `computeSchedule` over constraint
  rows, the schedule found, then the fused nest of `pipelineFuse` as the iterations it runs.
- `AffineTiling`, `TileMemory`: tile sizes; reuse, footprints and promotion; windows, copies and
  remapped accesses.
- `LinalgTiling`: an operation is its ranges, its reduction loops and maps of sums of loops.
  `TilesOf` and `getBoundedTileSize` give the pieces; split reductions keep partial results.
- `ConvTiling`: an output element records the input row and filter it came from, or a
  zero it started from.  The pieces of a nest are numbered in the order they run, and the last
  one to write an element decides.  `CutsCroutons` and `KeepsEveryPiece` say of a convolution and
  its tiles when no piece is dropped; the inputs of `single_calls` meet them.
- `ConstantFolds`: linear indices, as the code computes them.
- `Croutons`: tensors and operations of `Tensors`.  `PackedConv` is the unit: it finds each element at
  the place its layout gives it, so an image, filter or result that was packed otherwise comes
  out wrong.  The unit adds to nothing, since the seeded convolution starts from an empty
  tensor; channels of a padded crouton are read and must be zero.
- `LoopBodies`: a body is a sequence of operations on values, each named by where it comes
  from; what it yields is a term.  Unrolled loops are compared by the induction values they run, in order.
- `Scans`: an element is the sequence of inputs combined so far.
- `HexagonBuffer`: memory maps an address to the address its byte came from.  The nested
  loops that cut a copy where a region of either side ends become the set of
  overlaps of regions; sorting and merging are kept.

## 4. Runs

| run | question | instance, and why it is enough |
|---|---|---|
| `vtcm_pool` | do all sequences of calls keep the pool's invariants and the abstract allocator's promise? | 14 bytes, granules 2 and 6, requests 0, 1, 4, 5, 7, 15: zero, both sides of the threshold, a small size rounded up to the large one, a size above the pool; 14 is not a multiple of 6, so best fit leaves remainders.  Every pointer, good or bad, is freed.  The proofs cover all sizes |
| `user_dma` | is a descriptor reused too early, does a wait return too early, does every call return? | ring of 2, counters modulo 4, `MaxTransfers` 6: the ring fills, every slot is used three times, the counters wrap; three tags, so that a token outlives its slot; starts may be rejected |
| `thread_pool` | is a task lost or run twice, a wake-up lost; do `wait` and the destructor mean what they say, and return? | three workers, three tasks: two can sleep while one enqueues from inside a task |
| `async_forall` | does the join wait for all bodies; are errors seen, objects freed exactly once; does the process end? | three iterations on two workers, so that a worker runs several and two end together |
| `async_forall_uneven` | the join, when the step does not divide the range. **Violated** | bounds 0 and 5, step 2 |
| `buffer_manager` | do buffer map and pool stay in step, until a session ends with buffers held? | three clients, a pool of 12 bytes that three buffers exhaust, five shapes (1D and 2D, VTCM and DDR, small and large alignment).  Clients and heap addresses are symmetric |
| `double_buffer` | does the pipelined loop compute what the loop did, without races? | bounds 0, 2, 4, 5, 6 with step 2: no tile, one (nothing to prefetch), two, three (ping twice), and an uneven bound that must be rejected; two inputs and two stores, one in place; `scf.for` and `scf.forall`; views that stay or advance |
| `layout_propagation` | does a chain of rewrites compute the tensor it started from, and do shapes agree? | chains of up to five operations of rank 2 and 3, dimensions 2 to 8: every pattern fires, most of them after another; transposed, broadcast, dividing, index-reading and reducing generics; outer dimensions swapped and rotated; tiles that divide, that do not, and that are larger than the dimension |
| `single_calls` | is what a pass makes of one operation, nest, constant or copy what it was given? | per pass, about 13,200 inputs in all: sizes around every tile size, divisible or not, zero tiles, tiles larger than the range, every combiner, caches too small for one buffer, just large enough for one and for two; croutons of 2 by 4 by 4, images and filters that fill them and that do not; bodies of four operations over every kind of operand |
| `conv_rest` | the same, for a convolution of one whole tile and a rest. **Violated** | 6 rows in tiles of 4 |
| `memory_passes` | does a function leave the same bytes after every pass, and are its buffers released once? | two-dimensional and three-dimensional tiles of 8 and 16 bits, strided on either side; one tile, a chain of copies, a loop that carries a buffer, a staged copy; every optional pass on and off; room for some of the buffers in the scratch argument, not for all |
| `hexkl` | are the results products, with the unit locked, set up, and reading what left the cache? | macro functions with matmuls alone, adjacent, chained, in loops of 0 to 2 trips and in conditionals, with folded casts and operands that must stay on the CPU; micro and runtime mode with shapes of one tile, of several, and with partial tiles in each dimension |

Bounds that are not in the code: `MaxTransfers`, the number of transfers of a
run.  Every other constant stands for one of the code's at a smaller size: a tile of
32 by 32 of the matrix unit is one value, a vector has 8 bytes.
`CHECK_DEADLOCK FALSE` is set where the program may stop: a client calls nothing more, a
process aborts or ends, a call or a pipeline is over.  `AsyncForall` and
`HexKL` have to run to their end and are checked for deadlock.

The big invariants (`PoolInv`, `RingInv`, `SchedulerInv`, `RuntimeInv`, `MapInv`,
`PipelineInv`, `MachineInv`) are conjunctions of named parts, each with its own comment:
read those.

The two runs marked **Violated** show where the code and what its comments say part ways.

- *Uneven `scf.forall`.* The group is created for `ub / step` tokens, rounded down; the
  loop adds one more, and the join can return before the last body runs.
- *The rest of a convolution.* The two convolutions of a peeled loop are tied by
  casts that `ConvTilingPass` puts around loops.  One whole tile leaves a loop of a single
  iteration, which is inlined before; no cast is placed, and the rest begins from zeros
  instead of the rows already computed.  These zeros have the size of the rest (`PreprocessTiledConv2D.cpp:808`),
  while the piece is inserted at its place in the whole result, so neither the rows of the whole tile nor
  those of the rest are found there; the IR is ill-typed as well (line 825).  `KeepsEveryPiece`
  excludes this, and `TiledConvsAreSame` proves that nothing else goes wrong.

### Inputs outside the runs

The `MC` modules keep inputs on which a property fails because the code does not
do there what the property says.  They are no part of a passing run, and the definitions that
leave them out say so:

| input | property | what happens |
|---|---|---|
| `MCLayoutPropagation`, `Suite` "partial_tile" | `MeaningPreserved` | a padded tile moved across a reshape puts the padding between the data |
| "broadcast" | `MeaningPreserved` | a loop on which one operand is constant is packed with padding the body reads |
| "unequal_factors" | `ShapesAgree` | a collapse and an expand of equal positions and other factors are taken for inverses |
| `MCSkewed` | `FusionKeepsDependences` | the free loop of a producer read along a diagonal leaves its bounds |
| `MCHalo` | `CachedLoopIsSame` | a tile that begins before the memref is moved and not cut |
| `MCInnerLoop`, `MCMatmulOperand` | `CachedLoopIsSame` | accesses to the cache lose the coefficient of a loop of the band beyond the rank of the memref (`AffineTileMemoryPass.cpp:506`): a vector over the inner of two loops, the second operand of a matmul |
| `MCRowsFromOne` | `CachedLoopIsSame` | a memref of more dimensions than the band has loops, from row 1 on: the same line takes the constant for a coefficient of the first index |
| `MCDivided` | `CachedLoopIsSame` | a tile that starts at half the loop: the copies start at the undivided bound (line 613) |
| `MCReducingForall` | `PipelineInv`, `ImplementsTiledLoop` | a loop around an `scf.forall` that reduces into one tile is double-buffered (`DoubleBufferGenericS1.cpp:302`): the next tile is fetched before the current one is stored |
| `MCBias` | `ConvertedLayoutIsSame` | an f16 convolution seeded with layouts loses the value its result starts from (`SeedLayoutConversions.cpp:225`); a matmul that became a convolution keeps it until then |
| `MCBothRests` | `TiledConvIsSame` | a rest in both directions |
| `MCMasks` | `MemoryMeaningKept` | elements of one bit are measured in bytes |
| `MCOverwritten` | `MemoryMeaningKept` | the source of a forwarded copy was written in between |
| `MCF16Result` | `ResultsAreProducts` | micro mode converts an f16 result once more |
| `MCDenseWeight` | `ResultsAreProducts` | a macro weight that is a dense constant is taken (`MatmulToHexKLPass.cpp:49`) and, as it is no resource, not laid out (`PreprocessWeightsForHMXPass.cpp:137`) |
| `MCSharedWeight` | `ResultsAreProducts` | a resource that a matmul left to the CPU reads as well is laid out for both (line 197) |

`MCComputedSizes` is an input of the same kind as `conv_rest`, with sizes the pass chose
itself.  Two properties leave out a part of their inputs.  `TilesFitCache` does not count a
cache that is larger than its memref: a memref whose tile exceeds it is counted by its own size
(`AffineTileMemoryPass.cpp:346`) and marked full, while its cache is allocated in the size of the tile
(line 473), so that the sum may exceed the budget; the copies between the two are ill-typed and
the function does not compile.  `BuffersReleased` counts releases and not which call makes them: a release
by the wrong call is not seen.  Three more differences were met in the runtime and are stated by no run: large
blocks of the pool need not be 2 KB aligned after small ones were cut from the same
region; a rejected DMA start returns a token that the wait takes for slot 0; 2D sizes and
strides are masked to 16 bits.

## 5. Fairness

- `UserDMA`: weak fairness of each step inside a call and of the engine.  A thread
  inside `dma_start` or `dma_wait` keeps running and hardware finishes transfers; no fairness
  on the start of a call, since a kernel may make none.
- `HexagonThreadPool`: weak fairness of each worker's steps and the end of its task (tasks
  terminate), of a notification that is due and of the owner's progress inside `wait`
  or the destructor.  None on spurious wake-ups: progress must not depend on
  them; none on calls.
- `AsyncForall`: weak fairness of the main thread, its wait at exit, and each
  worker.  Spurious wake-ups of the main thread are excluded again, so `Terminates` shows
  that the last token's notification always reaches it.
- The other specifications state safety only: their operations are loops over data the caller
  owns, wait for the engine alone, or are one call.

## 6. Proofs

Six components with state are proved for every value of their constants: VTCM pool, buffers of the
C API, DMA ring, thread pool, async runtime and double buffering.  Each has one inductive invariant
(`PoolInv`, `BufferIInv`, `RingIInv`, `SchedulerIInv`, `ForallIInv`, `PipelineIInv`), a lemma or
step per action that it is kept, and the theorems that follow.  TLC checked each of these invariants
on the component's run before it was proved.  Of the single calls, six properties are
proved for every input their assumptions admit.

| theorem | says | assumes |
|---|---|---|
| `BufferManagerProofs!PoolInvariant`, `NoFragmentationLeft` | `Spec => []PoolInv`, `Spec => []EmptyPoolIsOneBlock` | `PoolAssumption` |
| `PoolRefinesAllocator` | the pool implements `ScratchAllocator`: a request fails exactly when no hole of its rounded size exists | `PoolAssumption` |
| `BuffersMatchPool`, `AbortsOnlyAfterExhaustion` | `BufferSpec => []MapInv`, `BufferSpec => []OnlyExhaustionAborts` | `PoolAssumption`, `BufferAssumption` |
| `UserDMAProofs!RingInvariant`, `WaitIsForItsTransfer` | `Spec => []RingInv`, `Spec => []WaitMeansTransferred` | `DMAAssumption` |
| `AsyncForallProofs!SchedulerInvariant`, `WaitReturnsIdle` | `PoolSpec => []SchedulerInv`, `PoolSpec => []WaitMeansIdle` | `PoolThreads` |
| `EvenRuntimeIsSafe`, `EvenJoinIsComplete` | `Spec => []RuntimeInv`, `Spec => []JoinMeansDone` | `lb = 0`, `ub % step = 0` |
| `EvenNothingLeaks` | `Spec => []AllReleased` | `lb = 0`, `ub % step = 0` |
| `DoubleBufferProofs!PipelineIsSafe`, `ExitIsQuiet` | `Spec /\ LoopAdvances => []PipelineInv`, `Spec /\ LoopAdvances => []QuietAtExit` | `DoubleBufferAssumption` |
| `PipelineImplementsLoop` | a double-buffered loop whose results advance implements `TiledLoop` | `DoubleBufferAssumption` |
| `TilingLemmas!VTCMTilingRunsOnce`, `ThreadsRunOnce`, `TilingRunsOnce`, `SplitReduceRunsOnce` | `RunsOnce` of the plan of each pass, for every operation | an operation (`IsOperation`), and what `OperationsAssumption` says of each |
| `CallLemmas!CopyIsExact`, `BandTilesFit`, `ChosenCachesFit` | the result of one copy, one band, one choice of caches | buffers apart; one iteration fits; none (caches larger than their memref are not counted) |
| `SingleCallsProofs!IterationsAreRunOnce`, `TilesAlwaysFitVTCM` | `Spec => []IterationsRunOnce`, `Spec => []TilesFitVTCM` | `OperationsAssumption`, `TargetAssumption` |
| `ScansAreExact` | `Spec => []ScanIsExact` | `ScansAssumption` |
| `CopiesAreExact` | `Spec => []CopiedExactly` | `CopiesAssumption` |
| `TilesAlwaysFitCache` | `Spec => []TilesFitCache` | `CachesAssumption` |
| `TiledConvsAreSame` | `Spec => []TiledConvIsSame` | `ConvsKeepEveryPiece`, `CallsAssumption` |

`VectorLemmas` holds what several need: the entries of a list after an erase, a replacement or an
insertion, the arithmetic of remainders, folds, and how many elements a set of numbers has.

### VTCM pool

*The invariant.* Disjointness of live blocks is not inductive: a step that cuts a free
block keeps it only if free blocks miss live ones (`AllocationsNotFree`); a step that joins
blocks keeps that only if the list is sorted, because `lower_bound` looks at two
neighbours and no more (`FreeSortedCoalesced`).  That the three `CHECK`s of
`coalesceAndAddToFreeList` never fire (`FreeListChecksUnreachable`) follows from the same
facts.  With types and `EveryByteAccounted` the conjunction `PoolInv` is inductive.

*The argument.* The conjuncts about lists are gathered as a layout of an arbitrary pair of live set
and free list.  `CarveKeepsLayout` shows that cutting an end off one free
block and making it live keeps the layout, for both allocation actions.  For
`Free`, `SpliceKeepsLayout` shows that replacing a run of entries by their
union with the freed block does, and `NextSplice` and `CoalescedSplice` that the four
outcomes of coalescing are such splices.  For the refinement `HoleInFreeBlock` shows that a hole
of the pool lies inside one free block, which needs the list to be coalesced: a hole over two
adjacent entries would be one the code cannot use.  `NoFragmentationLeft` follows the same way.

### Buffers of the C API

The pool's invariant holds below a session as long as nothing aborted (`PoolWhileRunning`): the
pool's two lemmas `AllocateKeepsPoolInv` and `FreeAcceptedKeepsPoolInv` are for any request, and here the
requests are the rounded sizes of buffers.  `MapInv` alone is not inductive.  A block freed by the
manager must be one the pool knows, so `KeysByKind` says which kind of pointer each buffer has
(a pointer into the pool is the block itself, one outside is a heap address); and `SessionStatus`
says which failures are possible at all: the only `CHECK` that can fire is that of an unknown pointer, and
a client that frees what it holds meets it only with the null pointer of an allocation that found no
memory (`AbortsOnlyAfterExhaustion`).  `BufferSizes` shows by arithmetic that two roundings, of a row and then of the whole
request, leave room for the last row.

### DMA ring

`UnfinishedOwnSlot` is about slots, the code about two counters that wrap.  The invariant ties
them: with `freed` the number of transfers that left the ring, `head` and `tail` are
`freed` and `issued` modulo `TokenMod` (`CountersMatch`), everything up to `freed` is finished
(`FreedAreDone`), and each later transfer's descriptor is its own, done bit included
(`RingOwnsSlots`).  At most `Capacity` consecutive counts have different remainders (`ModApart`), and a
token's slot is that of the count because `TokenMod` is a multiple of `Capacity` (`ModOfMod`):
this is the one fact about the widths that the code needs, 2^32 and 128 there.  `EngineKnows`
says that chain and active set hold each unfinished slot once.  A wait whose slot belongs to a
later transfer returns late, never early, since a slot is given out again only when its
transfer was done: `WaitIsForItsTransfer`.

### Thread pool

`EnoughAwake`, which bounds the smaller of sleepers and queued tasks, is not inductive: a worker
that takes a task may leave as many sleepers with one task and one notification less.
`Announced` is what the code keeps: while anybody sleeps, every queued task has a
notification still to be sent, or an awake worker that will look at the queue, of its own.  `Counted`
makes `activeTasks` the number of tasks submitted and unfinished, on which the wait relies;
`Apart` and `Unfinished` say where those tasks are.  `Exits` carries the destructor: workers leave after
`stop`, and the last to leave has seen an empty queue.

### Async runtime

The pool's invariant is carried over: a step of the program is a step of the pool or leaves it alone
(`PoolStepOfForall`).  The rest is accounting, token by token.  `TokenOK` says what state, mutex,
awaiter and references a token has, given how far the main thread and the task of its
iteration have come; `GroupState` says that the group waits for `nThreads` less the
tokens counted (`CountedTokens`) and is referred to by the program and by the awaiters not yet
done (`AwaiterRefs`).  The reference counts, the asserts and the uses after release follow
from these sums, whatever the interleaving.

`EnoughPending` says that the group is created for as many tokens as the loop has iterations.  The code does
not establish it: `nThreads` is `ub / step`, rounded down, with `lb` left out, and the run
`async_forall_uneven` shows what happens when that is too few.  The lemmas `SafeWhenEnough`,
`JoinWhenEnough` and `ReleasedWhenEnough` have it as a hypothesis; `EvenLoop` derives it for a loop
from 0 whose step divides its range, and the theorems are stated for these loops.

### Double buffering

`NoRace` and `TagNamesThisTile` speak of one state; why they hold is a matter of which fetches
are under way.  `Pending` and `DueTile` say so for each statement of the rewritten loop.
`FetchTags` gives the tags of these fetches, `EngineKnown` says that the engine works on
them and on the store being waited for and on nothing else, `ReadIsCurrent` that nobody has written
to what a transfer has read, and `TilesArrive` that a fetch which is over has brought its
tile.  `Control` ties `toggle` to the side whose kernel runs.

*The refinement.* The plain loop's memory is the pipelined one's, its iteration
the kernel's, its results the output buffers that wait to be stored.  Two kinds of step are
visible: the computation, which finds in the buffers what the plain loop reads in the memrefs
(`ComputeRefines`, from `TilesArrive`), and the engine's write of a store, which is the plain store
(`StoreRefines`).  Prefetches, waits, loads and the flipping of sides are stutters.

*Hypotheses.* `DoubleBufferAssumption` gives the constants their types.  `LoopAdvances` says of the
loop that a tile it stores is no tile the next iteration reads.  The first pass does not
establish it for every loop it accepts: around an `scf.for` it asks for the annotation of a parallel
generic, around an `scf.forall` for nothing (`DoubleBufferGenericS1.cpp:302`).  So it is a hypothesis
of the three theorems, on the loop and not on the constants, and they say nothing of a loop around an
`scf.forall` that reduces into one tile: `MCReducingForall` under *Inputs outside the runs* is
one, on which `PipelineInv` and the refinement fail.

### Single calls

A state is a call, and `GivenInputs` is all the induction there is: a call was given one of its
inputs.  What is left are facts about algorithms over data of any size.

*Folds.* The algorithms are folds of the community modules, and a fold is a function on sets
of indices chosen for its recursion equation.  `FoldExists` shows that such a function exists, once
its steps stay in a set of values; the fold is then unfolded one index at a time
(`FoldIndices`), and `Induction`, a statement about sets of numbers, takes a claim from the first index to
the last.  So sums, products and loops are proved for every length.

*Tilings.* `TilesOf` and `Tiled` are what all tilings of linalg operations end in.  `OneTileEach`
shows that in one loop every iteration is in exactly one tile, the bounded last one included, and
`TilesInside` that no tile leaves the loop; `TiledCuts` puts the loops together, `RestCuts`
does it for a rest that was cut off.  `CutsRunOnce` concludes `RunsOnce`.  Where a reduction is split,
an iteration reaches its element through a lane of partial results: the lanes of an element are a
set, each iteration is in one of them, and the lanes are merged once.  The sizes vtcm-tiling
determines are followed through the halving of every loop in order (`CutTiles`), and
`FootprintCoversCopies` shows that the footprint the pass bounds is at least what it
copies, whole operands included: `TilesFitVTCM`.

*Scans.* After iteration `k` the accumulator is the sequence of the first `k + 1` inputs, places up to
`k` hold their result and the others still hold their input, in either direction.  The cumulative
sum is the same along one axis of any shape.

*Copies.* `MergeAdjacent` works on copies sorted by their source.  Sorting is by rank
(`RankOrder`); appending or merging a copy adds its moves to those done, and nothing else
(`MergeStep`).  Source and destination are apart, so the order of the merged copies does not matter
(`MemcpyStep`): each byte is moved once and no other address is written.

*Caches.* The footprint of a band's tile is the product of its sizes times that of one
iteration, and balancing and rounding to divisors only make sizes smaller.  The sum that fitting and
promotion keep below the scratchpad counts, for each memref, at least the bytes allocated for it
unless its cache is larger than itself (`FitCounted`, `PromoteCounted`), whatever the order in
which memrefs are taken.

*Convolutions.* The parts of a peeled loop start on a crouton and end on one or with the loop
(`PeeledParts`), so that a piece on packed slices, which are rounded to whole croutons,
reads the rows it would have read and writes no element of another (`PieceIsExact`).
The pieces of a nest are the pairs of its iterations (`PiecesArePairs`) and hold every
element of it (`PiecesHold`); whichever writes last, the element is right
(`TransformedIsExact`).  An item that was transformed starts from what is there only if it follows a
loop; `GoodItem` asks this of each, and `ItemsRun` concludes that all that items hold is written.
`ItemsKeepAll` shows, for the nine ways a loop of rows and one of channels are cut, that
`KeepsEveryPiece` gives such items.

*Hypotheses.* `OperationsAssumption` leaves out what the code does not handle: a split of several
reduction loops, padding of a reduction whose body does not add, a constant initial value that an
adding body would count once per lane.  `CopiesAssumption` asks that buffers do not overlap, as
`memcpy` does.  `CachesAssumption` asks that one iteration of a band fits the cache: otherwise the
pass divides by a product of sizes that has become zero when the band has several loops (`AffineTilingPass.cpp:236`).
`ConvsKeepEveryPiece` asks for tiles of whole croutons that drop no piece; the code does not
establish it, as the run `conv_rest` shows, and so it is a hypothesis of the theorem and no assumption
of the module.

## 7. Limits

*Only model-checked.* Every liveness property: `CallsReturn`, `AllTasksRun`, `OwnerReturns` and `Terminates`
(liveness under fairness and `ENABLED` are beyond the prover).  Of the compiler: `LayoutPropagation`,
`MemoryPasses` and `HexKL`, which rewrite or run whole programs, and of the single calls
`CircuitsAreExact`, `SelectionIsMaximum`, `FusionKeepsDependences`, `CachedLoopIsSame`,
`FoldedConstantIsSame`, `ConvertedLayoutIsSame` and `BodiesComputeSame`.  The meaning of a program in
these is a fold of operations that are folds over elements themselves, or a `RECURSIVE` operator, which no
module with a theorem may use; `MachineInv` of `HexKL` depends on the whole program the passes
generated, which is built by recursion over its body.  The runs compare them with
their meaning on all small inputs.

*Threads.* The VTCM pool, the buffer map and the DMA ring have no lock (the tests of the DMA
runtime say so: "DMA runtime API implementation is not thread-safe"), yet bodies of an
`scf.forall` run on several threads.  The models of these three take calls that do not overlap,
made from one thread; what happens otherwise is a hazard listed without a property.

*Abstractions.* A section under a mutex is one step, except where a lock is held across
visible steps.  Memory order is sequentially consistent; the barriers around the done
bit are taken to work.  Logging and profiling are left out.  The DMA engine fetches without
reading ahead.  Copies move a whole tile at one moment each for read and write.
Values of elements are integers or symbols, never floating-point numbers, so that
rounding and the order of a sum are not seen.  Shapes are static: patterns that give
up on a dynamic shape are modelled by what they do with a static one.  What MLIR's own
utilities do (tiling interfaces, canonicalizers, bufferization) is taken from how the passes
use them.

*Not modelled.* Rewrites of one operation into a fixed sequence of others, whose subject is
the IR and not a state; fusion and generalisation, which are MLIR's drivers with options;
dialect definitions; code generation and linking; rewrites of floating-point values (TLC has no
arithmetic for them); vectorisation; the Python launcher and tools; the external matrix
library behind HexKL.  `PROJECT.json` gives the reason for each component, and its hazards
say which lines of the modelled parts no property covers.
