----------------------------- MODULE MemoryPasses -----------------------------
(***************************************************************************)
(* The passes that turn the memrefs of a bufferized function into memory     *)
(* calls of the runtime, in the order of LinalgToLLVMPass.cpp: copies are     *)
(* canonicalized, VTCM allocations, deallocations and copies between memory   *)
(* spaces become hexagonmem operations, VTCM allocations become views of one  *)
(* scratch buffer, copies become DMA transfers, and the rest becomes calls.   *)
(***************************************************************************)
EXTENDS MemoryPrograms

CONSTANTS Programs,     \* bufferized functions
          Alignment,    \* of VTCM allocations, 2048 in the code
          BufferSize,   \* option bufferSize of MemoryOffsets
          Scratch       \* bytes of scratch of one instance, 0 without

ASSUME MemoryAssumption == Alignment > 0 /\ Scratch % Alignment = 0

VARIABLES source,       \* the program the pipeline started from
          prog,         \* the program now
          stage         \* the pass that runs next

vars == <<source, prog, stage>>

-----------------------------------------------------------------------------
\* Positions of the operations: in the body, or in the body of a loop of it.
Blocks(p) == {<<>>} \cup {<<i>> : i \in {i \in DOMAIN p.body : p.body[i].op = "for"}}
Block(p, b) == IF b = <<>> THEN p.body ELSE p.body[b[1]].body
WithBlock(p, b, ops) ==
    IF b = <<>> THEN [p EXCEPT !.body = ops] ELSE [p EXCEPT !.body[b[1]].body = ops]

Named(op) ==
    CASE op.op \in {"copy", "dma", "dma_call", "rt_copy"} -> {op.src, op.dst}
      [] op.op \in {"dealloc", "rt_free"} -> {op.b}
      [] op.op = "generic" -> {op.out} \cup ToSet(op.ins)
      [] op.op = "view" -> {op.base}
      [] op.op = "for" -> ToSet(op.inits) \cup ToSet(op.yields)
      [] OTHER -> {}

\* Block and index of the operations that use a buffer.
Users(p, name) ==
    UNION {{<<b, i>> : i \in {i \in DOMAIN Block(p, b) : name \in Named(Block(p, b)[i])}} : b \in Blocks(p)}

Operations(p) == UNION {ToSet(Block(p, b)) : b \in Blocks(p)}

\* A pass that rewrites each operation into a sequence of them.
Rewritten(p, Rewrite(_)) ==
    LET InBlock(ops) == FlattenSeq([i \in DOMAIN ops |-> Rewrite(ops[i])])
        Inner(op) == IF op.op = "for" THEN [op EXCEPT !.body = InBlock(@)] ELSE op
    IN  [p EXCEPT !.body = InBlock([i \in DOMAIN @ |-> Inner(@[i])])]

-----------------------------------------------------------------------------
\* CopyCanonicalizationPass.cpp

\* The copies that read the buffer the copy i of block b writes, when nothing
\* else uses it.
readingCopies(p, b, i) ==
    LET op == Block(p, b)[i]
        others == Users(p, op.dst) \ {<<b, i>>}
    IN  IF /\ \E a \in Operations(p) : a.op = "alloc" /\ a.r = op.dst
           /\ \A u \in others : /\ u[1] = b /\ u[2] > i
                                /\ Block(p, b)[u[2]].op = "copy"
                                /\ Block(p, b)[u[2]].src = op.dst
        THEN {u[2] : u \in others} ELSE {}

IntermediateBufferElimination(p, b, i) ==
    LET op == Block(p, b)[i]
        readers == readingCopies(p, b, i)
        ops == [k \in DOMAIN Block(p, b) |->
                  IF k \in readers THEN [Block(p, b)[k] EXCEPT !.src = op.src] ELSE Block(p, b)[k]]
        rest == WithBlock(p, b, RemoveAt(ops, i))
    IN  Rewritten(rest, LAMBDA o : IF o.op = "alloc" /\ o.r = op.dst THEN <<>> ELSE <<o>>)

\* A loop that yields a buffer other than its argument copies it there.
AddCopyBeforeYield(p, i) ==
    LET loop == p.body[i]
        Moved == SelectSeq([k \in DOMAIN loop.yields |-> k], LAMBDA k : loop.yields[k] # loop.iters[k])
        copies == [k \in DOMAIN Moved |->
                     [op |-> "copy", lib |-> "memref", src |-> loop.yields[Moved[k]], dst |-> loop.iters[Moved[k]]]]
    IN  [p EXCEPT !.body[i] = [loop EXCEPT !.body = @ \o copies, !.yields = loop.iters]]

CopyPatterns(p) ==
    {IntermediateBufferElimination(p, x[1], x[2]) :
        x \in {x \in UNION {{b} \X DOMAIN Block(p, b) : b \in Blocks(p)} :
                 Block(p, x[1])[x[2]].op = "copy" /\ readingCopies(p, x[1], x[2]) # {}}}
    \cup {AddCopyBeforeYield(p, i) :
            i \in {i \in DOMAIN p.body : p.body[i].op = "for" /\ p.body[i].yields # p.body[i].iters}}

\* Deallocation at the end of the block of the allocation.
Deallocated(p) ==
    LET Allocs(ops) == SelectSeq(ops, LAMBDA o : o.op = "alloc")
        Frees(ops) == [k \in DOMAIN Allocs(ops) |-> [op |-> "dealloc", lib |-> "memref", b |-> Allocs(ops)[k].r]]
        Inner(op) == IF op.op = "for" THEN [op EXCEPT !.body = @ \o Frees(@)] ELSE op
    IN  [p EXCEPT !.body = [i \in DOMAIN @ |-> Inner(@[i])] \o Frees(@)]

-----------------------------------------------------------------------------
\* ConvertToHexagonmem.cpp: VTCM allocations and deallocations, and copies
\* between memory spaces.
Space(p, name) == p.types[name].space

ConvertToHexagonmem(p) ==
    Rewritten(p, LAMBDA o :
        IF \/ o.op = "alloc" /\ Space(p, o.r) = VTCM
           \/ o.op = "dealloc" /\ Space(p, o.b) = VTCM
           \/ o.op = "copy" /\ Space(p, o.src) # Space(p, o.dst)
        THEN <<[o EXCEPT !.lib = "hexagonmem"]>> ELSE <<o>>)

-----------------------------------------------------------------------------
\* InsertScratchArgPass.cpp: a scratch argument before the six numbers of the
\* program info of Triton.
hasTrailingProgramInfoPack(p) ==
    /\ Len(p.args) >= 6
    /\ \A i \in Len(p.args) - 5 .. Len(p.args) : p.args[i] \notin DOMAIN p.extents

InsertScratchArg(p) ==
    IF p.scratch # "none" \/ ~hasTrailingProgramInfoPack(p) THEN p
    ELSE [p EXCEPT !.args = InsertAt(@, Len(@) - 5, "scratch"),
                   !.extents = "scratch" :> Scratch @@ @,
                   !.types = "scratch" :> Flat(<<Scratch>>, 8, VTCM) @@ @,
                   !.scratch = "scratch"]

-----------------------------------------------------------------------------
\* MemoryOffsetsPass.cpp

AlignTo(n) == ((n + Alignment - 1) \div Alignment) * Alignment

\* Mutant: the end does not count the gaps.
OffsetsWithoutGaps(sizes) ==
    FoldLeft(LAMBDA s, n : [at |-> Append(s.at, AlignTo(s.end)), end |-> s.end + n], [at |-> <<>>, end |-> 0], sizes)

\* computeFlatOffsets: aligned offsets, and where the last buffer ends.
computeFlatOffsets(sizes) ==
    FoldLeft(LAMBDA s, n : [at |-> Append(s.at, AlignTo(s.end)), end |-> AlignTo(s.end) + n],
             [at |-> <<>>, end |-> 0], sizes)

\* collectAllocInfos, in the order of the walk: whole bytes, identity layout.
collectAllocInfos(p) ==
    LET Eligible(o) == LET t == p.types[o.r]
                       IN  /\ t.space = VTCM /\ t = Flat(t.shape, t.bits, VTCM)
                           /\ t.bits % 8 = 0 /\ NumElements(t) > 0
        InOrder == FlattenSeq([i \in DOMAIN p.body |->
                       IF p.body[i].op = "for" THEN p.body[i].body ELSE <<p.body[i]>>])
    IN  SelectSeq(InOrder, LAMBDA o : o.op = "alloc" /\ Eligible(o))

Placed(p) ==
    LET infos == collectAllocInfos(p)
    IN  [names |-> [k \in DOMAIN infos |-> infos[k].r],
         flat |-> computeFlatOffsets([k \in DOMAIN infos |-> NumElements(p.types[infos[k].r]) * (p.types[infos[k].r].bits \div 8)])]

\* The body with the allocations replaced by views of a buffer.
WithViews(p, placed, buffer, Goes(_)) ==
    LET View(o) == [op |-> "view", r |-> o.r, base |-> buffer,
                    off |-> placed.flat.at[SelectInSeq(placed.names, LAMBDA n : n = o.r)]]
    IN  Rewritten(p, LAMBDA o :
            CASE o.op = "alloc" /\ o.r \in ToSet(placed.names) -> <<View(o)>>
              [] o.op = "dealloc" /\ Goes(o.b) -> <<>>
              [] OTHER -> <<o>>)

\* Mutant: the deallocation of every buffer goes.
ReplacedAllFrees(p, placed, buffer) == WithViews(p, placed, buffer, LAMBDA b : TRUE)

\* replaceAllocOpsWithViews, removeDeallocOpsForReplacedAllocs
Replaced(p, placed, buffer) == WithViews(p, placed, buffer, LAMBDA b : b \in ToSet(placed.names))

\* A buffer of the size needed when there is no scratch argument.
MemoryOffsets(p) ==
    LET placed == Placed(p)
    IN  IF placed.names = <<>> THEN p
        ELSE IF p.scratch # "none" THEN Replaced(p, placed, p.scratch)
        ELSE [Replaced(p, placed, "fallback") EXCEPT
                !.types = "fallback" :> Flat(<<placed.flat.end>>, 8, VTCM) @@ @,
                !.body = <<[op |-> "alloc", lib |-> "hexagonmem", r |-> "fallback"]>> \o @]

\* Over the budget the pass fails.
FitsBudget(p) ==
    Placed(p).flat.end <= IF p.scratch = "none" THEN BufferSize ELSE p.extents[p.scratch]

-----------------------------------------------------------------------------
\* HexmemCpyToDMA.cpp

\* Between memory spaces, rows or whole; rows only on the side of the DDR.
isValidCandidate(src, dst) ==
    /\ src.space # dst.space
    /\ \A t \in {src, dst} : isContiguous(t) \/ isStridedMultiDim(t)
    /\ isStridedMultiDim(src) => src.space = DDR /\ dst.space = VTCM
    /\ isStridedMultiDim(dst) => dst.space = DDR /\ src.space = VTCM

\* Mutant: all elements in each transfer of a slice.
SliceElementsAll(src, dst) == NumElements(src)

\* Elements of the slice of the last two dimensions, by the buffer in VTCM.
SliceElements(src, dst) ==
    LET t == IF src.space = DDR THEN dst ELSE src IN t.strides[Len(t.shape) - 2]

\* Transfers that replace a copy, each followed by its wait: one, or one for
\* each index of the dimensions before the last two.
replaceWithDMA(p, o) ==
    LET src == p.types[o.src]
        dst == p.types[o.dst]
        rank == Len(src.shape)
        whole == isContiguous(src) /\ isContiguous(dst)
        Outer(t) == Offsets(SubSeq(src.shape, 1, rank - 2), SubSeq(t.strides, 1, rank - 2))
        Dma(soff, doff, n) ==
            [op |-> "dma", src |-> o.src, soff |-> soff, dst |-> o.dst, doff |-> doff, n |-> n, strided |-> ~whole,
             stride |-> IF whole THEN 0 ELSE Stride(src, dst), width |-> IF whole THEN 0 ELSE Width(src, dst)]
    IN  IF rank > 2 /\ ~whole
        THEN [k \in DOMAIN Outer(src) |-> Dma(Outer(src)[k], Outer(dst)[k], SliceElements(src, dst))]
        ELSE <<Dma(0, 0, NumElements(src))>>

HexmemCpyToDMA(p) ==
    Rewritten(p, LAMBDA o : IF o.op = "copy" /\ isValidCandidate(p.types[o.src], p.types[o.dst])
                            THEN replaceWithDMA(p, o) ELSE <<o>>)

-----------------------------------------------------------------------------
\* DMAToLLVMPass.cpp: the start with the wait on its token after it.

LowerDMAStart(p, o) ==
    LET src == p.types[o.src]
        dst == p.types[o.dst]
        size == src.bits \div 8
        widthInBytes == o.width * size
        StrideIf(slow, fast) == (IF fast.space = VTCM /\ slow.space # VTCM THEN o.stride ELSE o.width) * size
        Row == [op |-> "dma_call", src |-> o.src, dst |-> o.dst,
                srcOff |-> (src.off + o.soff) * Bytes(src), dstOff |-> (dst.off + o.doff) * Bytes(dst)]
    IN  Row @@ (IF o.strided
                THEN [width |-> widthInBytes, height |-> (o.n * size) \div widthInBytes,
                      srcStride |-> StrideIf(src, dst), dstStride |-> StrideIf(dst, src)]
                ELSE [width |-> o.n * size, height |-> 1, srcStride |-> 0, dstStride |-> 0])

DMAToLLVM(p) == Rewritten(p, LAMBDA o : IF o.op = "dma" THEN <<LowerDMAStart(p, o)>> ELSE <<o>>)

-----------------------------------------------------------------------------
\* HexagonMemToLLVMPass.cpp

LowerAlloc(p, o) ==
    LET t == p.types[o.r]
    IN  IF t.space = VTCM THEN [op |-> "rt_alloc", r |-> o.r, bytes |-> NumElements(t) * Bytes(t), isVtcm |-> TRUE]
        ELSE [o EXCEPT !.lib = "memref"]

LowerDealloc(p, o) ==
    IF Space(p, o.b) = VTCM THEN [op |-> "rt_free", b |-> o.b] ELSE [o EXCEPT !.lib = "memref"]

\* Whole buffers by the runtime; the size of a static memref counts bits.
LowerCopy(p, o) ==
    LET src == p.types[o.src]
        dst == p.types[o.dst]
    IN  IF VTCM \notin {src.space, dst.space} \/ ~isContiguous(src) \/ ~isContiguous(dst)
        THEN [o EXCEPT !.lib = "memref"]
        ELSE [op |-> "rt_copy", src |-> o.src, srcOff |-> src.off * Bytes(src),
              dst |-> o.dst, dstOff |-> dst.off * Bytes(dst), bytes |-> (NumElements(src) * src.bits) \div 8,
              sourceIsVTCM |-> src.space = VTCM, targetIsVTCM |-> dst.space = VTCM]

HexagonMemToLLVM(p) ==
    Rewritten(p, LAMBDA o :
        CASE o.op = "alloc" /\ o.lib = "hexagonmem" -> <<LowerAlloc(p, o)>>
          [] o.op = "dealloc" /\ o.lib = "hexagonmem" -> <<LowerDealloc(p, o)>>
          [] o.op = "copy" /\ o.lib = "hexagonmem" -> <<LowerCopy(p, o)>>
          [] OTHER -> <<o>>)

\* CollapseAddressSpace.cpp: every type moves to the default space.
CollapseAddressSpace(p) == [p EXCEPT !.types = [n \in DOMAIN @ |-> [@[n] EXCEPT !.space = DDR]]]

-----------------------------------------------------------------------------
\* The pipeline: a pass that is switched off is skipped.

Init ==
    /\ source \in Programs
    /\ prog = source
    /\ stage = "copies"

Pass(now, next, p) == stage = now /\ stage' = next /\ prog' = p /\ UNCHANGED source
Skip(now, next) == Pass(now, next, prog)

CanonicalizeCopies ==
    /\ stage = "copies" /\ prog' \in CopyPatterns(prog)
    /\ UNCHANGED <<source, stage>>
BufferDeallocation == CopyPatterns(prog) = {} /\ Pass("copies", "hexagonmem", Deallocated(prog))
ConvertToHexagonmemPass ==
    Pass("hexagonmem", "scratch", ConvertToHexagonmem(prog)) \/ Skip("hexagonmem", "scratch")
InsertScratchArgPass ==
    \/ Scratch > 0 /\ Pass("scratch", "offsets", InsertScratchArg(prog))
    \/ Skip("scratch", "dma")
MemoryOffsetsPass ==
    \/ FitsBudget(prog) /\ Pass("offsets", "dma", MemoryOffsets(prog))
    \/ ~FitsBudget(prog) /\ Skip("offsets", "failed")
HexmemCpyToDMAPass == Pass("dma", "dma_to_llvm", HexmemCpyToDMA(prog)) \/ Skip("dma", "dma_to_llvm")
DMAToLLVMPass == Pass("dma_to_llvm", "mem_to_llvm", DMAToLLVM(prog))
HexagonMemToLLVMPass == Pass("mem_to_llvm", "collapse", HexagonMemToLLVM(prog))
CollapseAddressSpacePass ==
    Pass("collapse", "done", CollapseAddressSpace(prog)) \/ Skip("collapse", "done")

Next ==
    \/ CanonicalizeCopies
    \/ BufferDeallocation
    \/ ConvertToHexagonmemPass
    \/ InsertScratchArgPass
    \/ MemoryOffsetsPass
    \/ HexmemCpyToDMAPass
    \/ DMAToLLVMPass
    \/ HexagonMemToLLVMPass
    \/ CollapseAddressSpacePass

Spec == Init /\ [][Next]_vars

-----------------------------------------------------------------------------
\* No pass changes what the caller finds in its buffers, or makes an operation
\* touch a byte outside its buffer or after its release.
MemoryMeaningKept ==
    stage \notin {"dma_to_llvm", "failed"} =>
        Meaning(prog, DOMAIN source.extents) = Meaning(source, DOMAIN source.extents)

\* Once deallocations are there, every buffer of the function is released, by
\* whatever calls its operations became: all but the fallback scratch buffer.
BuffersReleased ==
    stage \notin {"copies", "dma_to_llvm", "failed"} =>
        Cardinality(Left(prog)) <= IF "fallback" \in DOMAIN prog.types THEN 1 ELSE 0

=============================================================================
