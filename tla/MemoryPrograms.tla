---------------------------- MODULE MemoryPrograms ----------------------------
(***************************************************************************)
(* Functions on memrefs, with a memory of objects of bytes that says what    *)
(* they compute.                                                             *)
(*                                                                         *)
(* A program is a record: args, the extents in bytes of those that are        *)
(* memrefs (the others are numbers), the types of all buffers, the argument    *)
(* that is the scratch buffer, and body, a sequence of operations.  An address is an object and a byte of it; every allocation    *)
(* makes an object of its own, so that an access outside is seen.             *)
(***************************************************************************)
EXTENDS Integers, Sequences, FiniteSets, SequencesExt, Functions

DDR == 0
VTCM == 1

-----------------------------------------------------------------------------
\* Memref types: shape, strides and offset in elements, width of an element in
\* bits, memory space.  An element takes at least a byte.
NumElements(type) == FoldLeft(LAMBDA a, b : a * b, 1, type.shape)
Bytes(type) == IF type.bits < 8 THEN 1 ELSE type.bits \div 8

RowMajor(shape) ==
    [k \in 1 .. Len(shape) |-> FoldLeft(LAMBDA a, b : a * b, 1, SubSeq(shape, k + 1, Len(shape)))]

Flat(shape, bits, space) ==
    [shape |-> shape, strides |-> RowMajor(shape), off |-> 0, bits |-> bits, space |-> space]

\* isContiguousMemrefType: inner dimensions row by row, outer ones of size 1.
isContiguous(type) ==
    \E k \in 0 .. Len(type.shape) :
        /\ \A d \in k + 1 .. Len(type.shape) : type.strides[d] = RowMajor(type.shape)[d]
        /\ \A d \in 1 .. k : type.shape[d] = 1

\* isStridedMultiDimMemrefType: rows of width elements, stride apart.
isStridedMultiDim(type) ==
    LET rank == Len(type.shape)
    IN  rank > 1 /\ type.strides[rank] = 1 /\ type.strides[rank - 1] > type.shape[rank]

Stride(src, dst) ==
    LET t == IF isStridedMultiDim(src) THEN src ELSE dst IN t.strides[Len(t.shape) - 1]
Width(src, dst) == LET t == IF isStridedMultiDim(src) THEN src ELSE dst IN t.shape[Len(t.shape)]

\* Element offsets of a type, in row-major order of the indices.
RECURSIVE Offsets(_, _)
Offsets(shape, strides) ==
    IF shape = <<>> THEN <<0>>
    ELSE LET rest == Offsets(Tail(shape), Tail(strides))
         IN  FoldLeft(LAMBDA s, i : s \o [k \in DOMAIN rest |-> i * Head(strides) + rest[k]],
                      <<>>, [i \in 1 .. Head(shape) |-> i - 1])

\* The bytes of a buffer of a type, from its first element on.
ByteOffsets(type) ==
    LET elements == Offsets(type.shape, type.strides)
        n == Bytes(type)
    IN  [k \in 1 .. n * Len(elements) |->
            (type.off + elements[((k - 1) \div n) + 1]) * n + ((k - 1) % n)]


-----------------------------------------------------------------------------
\* A state of the interpreter: contents of the bytes of the live objects, the
\* first byte of each buffer, objects made so far, and what went wrong.
Object(s, n) == {<<s.objects + 1, k>> : k \in 0 .. n - 1}

NewObject(s, name, n, value) ==
    [s EXCEPT !.mem = [a \in Object(s, n) |-> value] @@ @,
              !.env = name :> <<s.objects + 1, 0>> @@ @,
              !.objects = @ + 1]

\* A second release, or one that is not of a whole object, is an error.
Release(s, name) ==
    LET start == s.env[name]
    IN  IF start[2] = 0 /\ start \in DOMAIN s.mem
        THEN [s EXCEPT !.mem = Restrict(@, {a \in DOMAIN @ : a[1] # start[1]})]
        ELSE [s EXCEPT !.ok = FALSE]

Shift(start, k) == <<start[1], start[2] + k>>
Addresses(s, name, offsets) == [k \in DOMAIN offsets |-> Shift(s.env[name], offsets[k])]
Whole(p, s, name) == Addresses(s, name, ByteOffsets(p.types[name]))

\* Every byte of to gets its value from the bytes of froms at the same place.
Write(s, to, Value(_), froms) ==
    IF \E a \in ToSet(to) \cup froms : a \notin DOMAIN s.mem THEN [s EXCEPT !.ok = FALSE]
    ELSE LET at == [a \in ToSet(to) |-> CHOOSE k \in DOMAIN to : to[k] = a]
         IN  [s EXCEPT !.mem = [a \in DOMAIN at |-> Value(at[a])] @@ @]

Move(s, to, from) == Write(s, to, LAMBDA k : s.mem[from[k]], ToSet(from))

\* A function of all its inputs that differs from byte to byte.
Compute(p, s, op) ==
    LET to == Whole(p, s, op.out)
        ins == [i \in DOMAIN op.ins |-> Whole(p, s, op.ins[i])]
        Value(k) == FoldLeft(LAMBDA v, i : (v * 3 + s.mem[ins[i][k]] + i) % 251, 7, [i \in DOMAIN ins |-> i])
    IN  Write(s, to, Value, UNION {ToSet(ins[i]) : i \in DOMAIN ins})

\* Rows of bytes: 2-D DMA of the runtime.
Rows(s, name, start, width, height, stride) ==
    Addresses(s, name, [k \in 1 .. width * height |->
                          start + ((k - 1) \div width) * stride + ((k - 1) % width)])

RECURSIVE Exec(_, _, _)
Exec(p, ops, s) ==
    LET Bind(st, names, values) ==
            [st EXCEPT !.env = [n \in ToSet(names) |-> st.env[values[CHOOSE i \in DOMAIN names : names[i] = n]]] @@ @]
        Iterate(op, st) ==
            FoldLeft(LAMBDA t, i : Bind(Exec(p, op.body, t), op.iters, op.yields),
                     Bind(st, op.iters, op.inits), [i \in 1 .. op.n |-> i])
        Step(st, op) ==
            CASE op.op = "alloc" ->
                   NewObject(st, op.r, NumElements(p.types[op.r]) * Bytes(p.types[op.r]), -1)
              [] op.op = "rt_alloc" -> NewObject(st, op.r, op.bytes, -1)
              [] op.op \in {"dealloc", "rt_free"} -> Release(st, op.b)
              [] op.op = "view" -> [st EXCEPT !.env = op.r :> Shift(@[op.base], op.off) @@ @]
              [] op.op = "copy" -> Move(st, Whole(p, st, op.dst), Whole(p, st, op.src))
              [] op.op = "rt_copy" ->
                   Move(st, Rows(st, op.dst, op.dstOff, op.bytes, 1, 0), Rows(st, op.src, op.srcOff, op.bytes, 1, 0))
              [] op.op = "dma_call" ->
                   Move(st, Rows(st, op.dst, op.dstOff, op.width, op.height, op.dstStride),
                            Rows(st, op.src, op.srcOff, op.width, op.height, op.srcStride))
              [] op.op = "generic" -> Compute(p, st, op)
              [] op.op = "for" -> Bind(Iterate(op, st), op.results, op.iters)
              [] OTHER -> [st EXCEPT !.ok = FALSE]
    IN  FoldLeft(Step, s, ops)

\* The arguments that are memrefs start with contents of their own.
Start(p) ==
    FoldLeft(LAMBDA s, i :
                LET name == p.args[i]
                IN  IF name \notin DOMAIN p.extents THEN s
                    ELSE [NewObject(s, name, p.extents[name], 0) EXCEPT
                            !.mem = [a \in Object(s, p.extents[name]) |-> (17 * i + 5 * a[2]) % 251] @@ @],
             [mem |-> <<>>, env |-> <<>>, objects |-> 0, ok |-> TRUE],
             [i \in DOMAIN p.args |-> i])

\* What the caller sees: the contents of its buffers, and whether every access
\* was inside a live object.
Meaning(p, buffers) ==
    LET end == Exec(p, p.body, Start(p))
        Contents(b) == [k \in 0 .. p.extents[b] - 1 |-> end.mem[Shift(end.env[b], k)]]
    IN  [buffers |-> [b \in buffers |-> Contents(b)], ok |-> end.ok]

\* Objects that are left at the end, other than the arguments.
Left(p) ==
    LET end == Exec(p, p.body, Start(p))
    IN  {a[1] : a \in DOMAIN end.mem} \ {end.env[b][1] : b \in DOMAIN p.extents}


=============================================================================
