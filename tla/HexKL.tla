------------------------------- MODULE HexKL --------------------------------
(***************************************************************************)
(* Matrix multiplications on the HMX unit: a function whose linalg.matmul     *)
(* ops the HexKL passes have lowered, and its execution.  In macro mode one   *)
(* library call reads activations and weights from memory, past the CPU's     *)
(* data cache; in micro mode (and in the runtime's hexkl_matmul_f16f16_f32)   *)
(* 32x32 tiles are moved through numbered 4096-byte tiles of VTCM.            *)
(*                                                                            *)
(* A tensor's value is symbolic: the layout its bytes are in and what they    *)
(* are.  A cache line may be written back or dropped between any two steps.   *)
(***************************************************************************)
EXTENDS Integers, Sequences, FiniteSets, SequencesExt

CONSTANTS Functions,   \* functions: mode, operands by name, body
          ConfigTiles  \* tiles the HMX configuration block takes

ASSUME HexKLAssumption == ConfigTiles \in 1..3

VARIABLES fun, code, pc, mem, cache, vtcm, acc, hmx
vars == <<fun, code, pc, mem, cache, vtcm, acc, hmx>>

Block == 32
CeilTiles(n) == (n + Block - 1) \div Block
Garbage == [layout |-> "garbage"]
Name(x) == [name |-> x]
RowMajor(of) == [layout |-> "rm", of |-> of]
NoLine == [dirty |-> FALSE, value |-> Garbage, present |-> FALSE]

-----------------------------------------------------------------------------
\* The passes on tensors.  A matmul names its operands a, b, c, its result o and a
\* buffer of its own, temp; fun.operands[x] has type, shape, kind ("arg", "resource", "dense", "cast")
\* and, for a cast from f16, its source.

\* FoldCastsIntoMatmul: an f32 operand that is an f16 value extended element by
\* element is replaced by that value, each side on its own.
FoldCastsIntoMatmul(ops, op) ==
    LET source(x) == IF ops[x].kind = "cast" THEN ops[x].source ELSE x
        foldable == ops[op.o].type = "f32" /\ ops[op.a].type = "f32" /\ ops[op.b].type = "f32"
    IN IF foldable THEN [op EXCEPT !.a = source(op.a), !.b = source(op.b)] ELSE op

MaxRow == 1600
MaxCol == 5120
MaxInner == 76030

\* MatmulToHexKL: which matmuls the HMX takes.  The new op starts from an empty
\* tensor whatever c held; macro mode computes f16 and extends afterwards.
IsHexKL(ops, mode, op) ==
    LET m == ops[op.a].shape[1]  k == ops[op.a].shape[2]  n == ops[op.b].shape[2]
    IN /\ ops[op.a].type = "f16" /\ ops[op.b].type = "f16"
       /\ mode = "macro" =>
            /\ ops[op.b].kind \in {"resource", "dense"}
            /\ m <= MaxRow /\ n <= MaxCol /\ k <= MaxInner
            /\ m % Block = 0 /\ n % Block = 0 /\ k % Block = 0

MatmulToHexKL(ops, mode, op) ==
    IF IsHexKL(ops, mode, op) THEN [op EXCEPT !.kind = "hexkl"] ELSE op

\* The place matrix_block_linearize_f16 moves element i to.
BlockLinearize(rows, cols, brows, bcols, i) ==
    LET blocks == cols \div bcols
        r == i \div cols
        j == (i % cols) \div bcols
        k == (i % cols) % bcols
    IN IF cols % bcols # 0 \/ rows % brows # 0 THEN i
       ELSE ((r \div brows) * (blocks * brows * bcols)) + (j * (brows * bcols))
                + ((r % brows) * bcols) + k

transform_rm_to_wh_f16(rows, cols, i) ==
    LET first == BlockLinearize(rows, cols, 2, 1, i)
    IN IF cols >= 64 /\ rows >= 2 /\ cols * 2 >= 64
       THEN BlockLinearize(rows \div 2, cols * 2, rows \div 2, 64, first)
       ELSE first

\* Where HMX looks for element i of a weight: blocks of 32 columns, pairs of rows
\* interleaved.
WHIndex(rows, cols, i) ==
    LET r == i \div cols  c == i % cols
    IN ((c \div 32) * (rows * 32)) + ((r \div 2) * 64) + ((c % 32) * 2) + (r % 2)

RECURSIVE Matmuls(_)
Matmuls(body) ==
    UNION {CASE body[i].kind \in {"matmul", "hexkl"} -> {body[i]}
             [] body[i].kind \in {"for", "if"} -> Matmuls(body[i].body)
             [] OTHER -> {} : i \in DOMAIN body}

\* PreprocessWeightsForHMX: a resource that is the weight of a hexkl.matmul is
\* rewritten for all its users.
PreprocessWeightsForHMX(ops, body, x) ==
    LET isMatmulWeight == \E op \in Matmuls(body) : op.kind = "hexkl" /\ op.b = x
        rows == ops[x].shape[1]  cols == ops[x].shape[2]
        inWH == \A i \in 0..(rows * cols - 1) :
                    transform_rm_to_wh_f16(rows, cols, i) = WHIndex(rows, cols, i)
    IN IF ops[x].kind = "resource" /\ ops[x].type = "f16" /\ isMatmulWeight
            /\ rows % 2 = 0 /\ cols % 2 = 0
       THEN IF inWH THEN [layout |-> "wh", of |-> Name(x)] ELSE Garbage
       ELSE RowMajor(Name(x))

-----------------------------------------------------------------------------
\* The passes on buffers: instructions.

\* LowerHexKLMatmulToMacro: one matmul.  The activations are laid out in a copy,
\* which leaves the cache before the HMX reads it.
\* A faulty variant: the copy stays in the cache.
ActivationUnflushed(op) ==
    << [i |-> "copy", from |-> op.a, to |-> op.temp],
       [i |-> "rm_to_ah_inplace", b |-> op.temp] >>

ActivationReady(op) ==
    << [i |-> "copy", from |-> op.a, to |-> op.temp],
       [i |-> "rm_to_ah_inplace", b |-> op.temp],
       [i |-> "clean", b |-> op.temp, invalidate |-> FALSE] >>

LowerHexKLMatmulToMacro(op) ==
    ActivationReady(op)
    \o << [i |-> "clean", b |-> op.b, invalidate |-> FALSE],
          [i |-> "clean", b |-> op.o, invalidate |-> TRUE],
          [i |-> "macro_mm", out |-> op.o, act |-> op.temp, wgt |-> op.b],
          [i |-> "ah_to_rm_inplace", b |-> op.o] >>

InitializeLock == << [i |-> "initialize"], [i |-> "lock"] >>
UnlockFinalize == << [i |-> "unlock"], [i |-> "finalize"] >>

\* A loop unrolled.
Loop(n, f(_)) == FlattenSeq([i \in 1..n |-> f(i - 1)])

\* DecomposeHexKLMatmul: the tile loops; weights, flat result and the first
\* scratch tile share tile kTiles, the accumulator and the next scratch tile
\* share kTiles + 1.
DecomposeHexKLMatmul(ops, op, tiles, configAt) ==
    LET m == CeilTiles(ops[op.a].shape[1])
        kTiles == CeilTiles(ops[op.a].shape[2])
        n == CeilTiles(ops[op.b].shape[2])
        wOff == kTiles
        flatOff == wOff
        accOff == kTiles + 1
        activation(row, kt) ==
            << [i |-> "copy_submatrix", to |-> kTiles + kt, from |-> op.a, at |-> <<row, kt>>],
               [i |-> "rm_to_ah", to |-> kt, from |-> kTiles + kt] >>
        multiply(kt, col) ==
            << [i |-> "rm_to_wh", to |-> wOff, from |-> op.b, at |-> <<kt, col>>],
               [i |-> "mm", act |-> kt, wgt |-> wOff] >>
        column(row, col) ==
            << [i |-> "acc_clear"] >>
            \o Loop(kTiles, LAMBDA kt : multiply(kt, col))
            \o << [i |-> "acc_read", to |-> accOff, config |-> configAt],
                  [i |-> "ah_to_rm", to |-> flatOff, from |-> accOff],
                  [i |-> "copy_out_f32", from |-> flatOff, to |-> op.o, at |-> <<row, col>>] >>
    IN << [i |-> "vtcm_alloc", tiles |-> tiles],
          [i |-> "setup_acc_read", config |-> configAt] >>
       \o Loop(m, LAMBDA row :
              Loop(kTiles, LAMBDA kt : activation(row, kt))
              \o Loop(n, LAMBDA col : column(row, col)))
       \o << [i |-> "vtcm_free"] >>

\* Micro mode: 2 kTiles + 5 tiles, the configuration at the end of the block.
MicroMatmul(ops, op) ==
    LET tiles == (2 * CeilTiles(ops[op.a].shape[2])) + 5
    IN DecomposeHexKLMatmul(ops, op, tiles, tiles - ConfigTiles)

\* The runtime's own loop: 2 kTiles + 2 data tiles, the configuration after them.
hexkl_matmul_f16f16_f32(ops, op) ==
    LET data == (2 * CeilTiles(ops[op.a].shape[2])) + 2
    IN DecomposeHexKLMatmul(ops, op, data + ConfigTiles, data)

LinalgMatmul(op) == << [i |-> "linalg", op |-> op] >>

Lowered(ops, mode, op) ==
    CASE op.kind # "hexkl" -> LinalgMatmul(op)
      [] mode = "macro" -> LowerHexKLMatmulToMacro(op)
      [] mode = "micro" -> MicroMatmul(ops, op)
      [] OTHER -> hexkl_matmul_f16f16_f32(ops, op)

\* A body with no lock of its own: loops run trips times, an if when taken.
RECURSIVE Unlocked(_, _, _)
Unlocked(ops, mode, body) ==
    FlattenSeq([j \in 1..Len(body) |->
        CASE body[j].kind \in {"matmul", "hexkl"} -> Lowered(ops, mode, body[j])
          [] body[j].kind = "for" ->
                Loop(body[j].trips, LAMBDA i : Unlocked(ops, mode, body[j].body))
          [] body[j].kind = "if" ->
                IF body[j].taken THEN Unlocked(ops, mode, body[j].body) ELSE <<>>
          [] OTHER -> <<>>])

\* A run of adjacent matmuls starts, or ends, at node j.
IsHexKLAt(body, j) == j \in DOMAIN body /\ body[j].kind = "hexkl"
\* A faulty variant: every matmul of a group sets the HMX up again.
GroupStartsAlways(body, j) == IsHexKLAt(body, j)
GroupStarts(body, j) == IsHexKLAt(body, j) /\ ~IsHexKLAt(body, j - 1)

GroupEnds(body, j) == IsHexKLAt(body, j) /\ ~IsHexKLAt(body, j + 1)

HasMatmul(node) == \E op \in Matmuls(<<node>>) : op.kind = "hexkl"

\* LowerHexKLMatmulToMacroPass: the HMX is set up and locked around the outermost
\* loop of a matmul, and around each run of matmuls in no loop.
RECURSIVE WithLocks(_, _)
WithLocks(ops, body) ==
    FlattenSeq([j \in 1..Len(body) |->
        CASE body[j].kind = "for" /\ HasMatmul(body[j]) ->
                InitializeLock \o Unlocked(ops, "macro", <<body[j]>>) \o UnlockFinalize
          [] body[j].kind = "if" ->
                IF body[j].taken THEN WithLocks(ops, body[j].body) ELSE <<>>
          [] OTHER ->
                (IF GroupStarts(body, j) THEN InitializeLock ELSE <<>>)
                \o Unlocked(ops, "macro", <<body[j]>>)
                \o (IF GroupEnds(body, j) THEN UnlockFinalize ELSE <<>>)])

RECURSIVE OnHMX(_, _)
OnHMX(g, body) ==
    [j \in 1..Len(body) |->
        IF body[j].kind = "matmul"
        THEN MatmulToHexKL(g.operands, g.mode, FoldCastsIntoMatmul(g.operands, body[j]))
        ELSE IF body[j].kind \in {"for", "if"}
             THEN [body[j] EXCEPT !.body = OnHMX(g, body[j].body)]
             ELSE body[j]]

Compiled(g) ==
    IF g.mode = "macro" THEN WithLocks(g.operands, OnHMX(g, g.body))
    ELSE Unlocked(g.operands, g.mode, OnHMX(g, g.body))

Buffers(g) == DOMAIN g.operands \cup {op.temp : op \in Matmuls(g.body)}

\* What a buffer holds before the function runs.
Start(g, x) ==
    CASE x \notin DOMAIN g.operands -> Garbage
      [] \E op \in Matmuls(g.body) : op.o = x -> Garbage
      [] g.mode = "macro" -> PreprocessWeightsForHMX(g.operands, OnHMX(g, g.body), x)
      [] OTHER -> RowMajor(Name(IF g.operands[x].kind = "cast" THEN g.operands[x].source ELSE x))

-----------------------------------------------------------------------------
\* The machine.
Current == code[pc]
At(i) == pc <= Len(code) /\ Current.i = i /\ pc' = pc + 1

Read(b) == IF cache[b].present THEN cache[b].value ELSE mem[b]
Line(v, dirty) == [present |-> TRUE, value |-> v, dirty |-> dirty]
Write(b, v) == cache' = [cache EXCEPT ![b] = Line(v, TRUE)]

\* A dirty line goes to memory, a clean one disappears, when the cache likes.
Evict(b) ==
    /\ pc <= Len(code)
    /\ cache[b].present
    /\ mem' = IF cache[b].dirty THEN [mem EXCEPT ![b] = cache[b].value] ELSE mem
    /\ cache' = [cache EXCEPT ![b] = NoLine]
    /\ UNCHANGED <<fun, code, pc, vtcm, acc, hmx>>

qurt_mem_cache_clean ==
    /\ At("clean")
    /\ LET b == Current.b
       IN /\ mem' = IF cache[b].dirty THEN [mem EXCEPT ![b] = cache[b].value] ELSE mem
          /\ cache' = [cache EXCEPT ![b] =
                IF Current.invalidate \/ ~cache[b].present THEN NoLine
                ELSE Line(cache[b].value, FALSE)]
    /\ UNCHANGED <<fun, code, vtcm, acc, hmx>>

CopyActivation ==
    /\ At("copy")
    /\ Write(Current.to, Read(Current.from))
    /\ UNCHANGED <<fun, code, mem, vtcm, acc, hmx>>

Relaid(v, from, to) == IF v.layout = from THEN [v EXCEPT !.layout = to] ELSE Garbage

hexkl_macro_rm_to_ah_f16_inplace ==
    /\ At("rm_to_ah_inplace")
    /\ Write(Current.b, Relaid(Read(Current.b), "rm", "ah"))
    /\ UNCHANGED <<fun, code, mem, vtcm, acc, hmx>>

hexkl_macro_ah_to_rm_f16_inplace ==
    /\ At("ah_to_rm_inplace")
    /\ Write(Current.b, Relaid(Read(Current.b), "ah", "rm"))
    /\ UNCHANGED <<fun, code, mem, vtcm, acc, hmx>>

Product(a, b) == [product |-> <<a, b>>]

hexkl_macro_mm_f16 ==
    /\ At("macro_mm")
    /\ LET a == mem[Current.act]  w == mem[Current.wgt]
       IN mem' = [mem EXCEPT ![Current.out] =
                IF a.layout = "ah" /\ w.layout = "wh" /\ hmx = "locked"
                THEN [layout |-> "ah", of |-> Product(a.of, w.of)] ELSE Garbage]
    /\ UNCHANGED <<fun, code, cache, vtcm, acc, hmx>>

\* A matmul left to the CPU adds to what c holds.
Onto(c, p) == IF c = "zero" THEN p ELSE [plus |-> <<c, p>>]
LinalgOnCPU ==
    /\ At("linalg")
    /\ LET op == Current.op  a == Read(op.a)  b == Read(op.b)
       IN Write(op.o, IF a.layout = "rm" /\ b.layout = "rm"
                      THEN RowMajor(Onto(op.c, Product(a.of, b.of))) ELSE Garbage)
    /\ UNCHANGED <<fun, code, mem, vtcm, acc, hmx>>

\* The lock protocol: initialize, lock, unlock, finalize; anything else is an error.
Locking ==
    /\ \/ At("initialize") /\ hmx' = IF hmx = "off" THEN "on" ELSE "error"
       \/ At("lock") /\ hmx' = IF hmx = "on" THEN "locked" ELSE "error"
       \/ At("unlock") /\ hmx' = IF hmx = "locked" THEN "on" ELSE "error"
       \/ At("finalize") /\ hmx' = IF hmx = "on" THEN "off" ELSE "error"
    /\ UNCHANGED <<fun, code, mem, cache, vtcm, acc>>

\* Micro calls: tiles of VTCM, which the cache does not cover.
vtcm_alloc ==
    /\ \/ At("vtcm_alloc") /\ vtcm' = [t \in 0..(Current.tiles - 1) |-> Garbage]
       \/ At("vtcm_free") /\ vtcm' = <<>>
    /\ UNCHANGED <<fun, code, mem, cache, acc, hmx>>

SetTile(t, v) == vtcm' = [vtcm EXCEPT ![t] = v]
TileOf(v, at) == IF v.layout = "rm" THEN RowMajor([tile |-> at, of |-> v.of]) ELSE Garbage
ConfigBlock == [layout |-> "config"]

hexkl_micro_hmx_setup_acc_read_f16 ==
    /\ At("setup_acc_read")
    /\ vtcm' = [t \in DOMAIN vtcm |->
            IF t \in Current.config..(Current.config + ConfigTiles - 1)
            THEN ConfigBlock ELSE vtcm[t]]
    /\ UNCHANGED <<fun, code, mem, cache, acc, hmx>>

MicroLayout ==
    /\ \/ /\ At("copy_submatrix")
          /\ SetTile(Current.to, TileOf(Read(Current.from), Current.at))
       \/ /\ At("rm_to_ah")
          /\ SetTile(Current.to, Relaid(vtcm[Current.from], "rm", "ah"))
       \/ /\ At("rm_to_wh")
          /\ SetTile(Current.to, Relaid(TileOf(Read(Current.from), Current.at), "rm", "wh"))
       \/ /\ At("ah_to_rm")
          /\ SetTile(Current.to, Relaid(vtcm[Current.from], "ah", "rm"))
    /\ UNCHANGED <<fun, code, mem, cache, acc, hmx>>

hexkl_micro_hmx_mm_f16 ==
    /\ \/ At("acc_clear") /\ acc' = <<>>
       \/ /\ At("mm")
          /\ LET a == vtcm[Current.act]  w == vtcm[Current.wgt]
             IN acc' = Append(acc, IF a.layout = "ah" /\ w.layout = "wh"
                                   THEN Product(a.of, w.of) ELSE Garbage)
    /\ UNCHANGED <<fun, code, mem, cache, vtcm, hmx>>

hexkl_micro_hmx_acc_read_f16 ==
    /\ At("acc_read")
    /\ SetTile(Current.to, IF vtcm[Current.config] = ConfigBlock
                           THEN [layout |-> "ah", of |-> acc] ELSE Garbage)
    /\ UNCHANGED <<fun, code, mem, cache, acc, hmx>>

\* The copy writes f32 elements at row-major places of the output; an f16 buffer
\* is overrun.
hexkl_micro_hmx_copy_f16_to_f32_submatrix ==
    /\ At("copy_out_f32")
    /\ LET out == Current.to
           old == IF Read(out).layout = "tiles" THEN Read(out).of ELSE [t \in {} |-> Garbage]
           new == [t \in DOMAIN old \cup {Current.at} |->
                     IF t = Current.at THEN vtcm[Current.from] ELSE old[t]]
       IN Write(out, IF fun.operands[out].type = "f32"
                     THEN [layout |-> "tiles", of |-> new] ELSE Garbage)
    /\ UNCHANGED <<fun, code, mem, vtcm, acc, hmx>>

Init ==
    /\ fun \in Functions
    /\ code = Compiled(fun)
    /\ pc = 1
    /\ mem = [b \in Buffers(fun) |-> Start(fun, b)]
    /\ cache \in [Buffers(fun) -> {NoLine}]
    /\ vtcm = <<>>
    /\ acc = <<>>
    /\ hmx = "off"

Return == pc > Len(code) /\ UNCHANGED vars

Next ==
    \/ \E b \in DOMAIN cache : Evict(b)
    \/ qurt_mem_cache_clean
    \/ CopyActivation
    \/ hexkl_macro_rm_to_ah_f16_inplace
    \/ hexkl_macro_ah_to_rm_f16_inplace
    \/ hexkl_macro_mm_f16
    \/ LinalgOnCPU
    \/ Locking
    \/ vtcm_alloc
    \/ hexkl_micro_hmx_setup_acc_read_f16
    \/ MicroLayout
    \/ hexkl_micro_hmx_mm_f16
    \/ hexkl_micro_hmx_acc_read_f16
    \/ hexkl_micro_hmx_copy_f16_to_f32_submatrix
    \/ Return

Spec == Init /\ [][Next]_vars

-----------------------------------------------------------------------------
\* What a tensor stands for: a name, or the product it was computed as.
RECURSIVE Meaning(_, _)
Meaning(g, x) ==
    IF \E op \in Matmuls(g.body) : op.o = x
    THEN LET op == CHOOSE op \in Matmuls(g.body) : op.o = x
         IN Onto(op.c, Product(Meaning(g, op.a), Meaning(g, op.b)))
    ELSE Name(IF g.operands[x].kind = "cast" THEN g.operands[x].source ELSE x)

\* The result tile by tile: every inner tile once, in order.
TiledMeaning(g, op) ==
    LET tiles(x, d) == CeilTiles(g.operands[x].shape[d])
    IN [t \in (0..(tiles(op.a, 1) - 1)) \X (0..(tiles(op.b, 2) - 1)) |->
          RowMajor([k \in 1..tiles(op.a, 2) |->
              Product([tile |-> <<t[1], k - 1>>, of |-> Meaning(g, op.a)],
                      [tile |-> <<k - 1, t[2]>>, of |-> Meaning(g, op.b)])])]

RECURSIVE Executed(_)
Executed(body) ==
    UNION {CASE body[i].kind = "matmul" -> {body[i]}
             [] body[i].kind = "for" /\ body[i].trips > 0 -> Executed(body[i].body)
             [] body[i].kind = "if" /\ body[i].taken -> Executed(body[i].body)
             [] OTHER -> {} : i \in DOMAIN body}

TypeOK ==
    /\ pc \in 1..(Len(code) + 1)
    /\ DOMAIN mem = Buffers(fun) /\ DOMAIN cache = Buffers(fun)
    /\ \A b \in Buffers(fun) : cache[b].dirty => cache[b].present
    /\ hmx \in {"off", "on", "locked", "error"}

\* LowerHexKLMatmulToMacroPass, DecomposeHexKLMatmulPass, HexKLAPI.cpp: when the
\* function ends every matmul it ran left its product, read through the cache,
\* whatever was written back or dropped meanwhile: no operand is in the wrong
\* layout or stale when the HMX reads it, no line hides the result, no tile of
\* VTCM is overwritten while it is needed.
ResultsAreProducts ==
    pc > Len(code) =>
        \A op \in Executed(fun.body) :
            LET v == Read(op.o)
            IN IF v.layout = "tiles" THEN v.of = TiledMeaning(fun, op)
               ELSE v = RowMajor(Meaning(fun, op.o))

\* LowerHexKLMatmulToMacroPass: on every path through the function the HMX is
\* initialised and locked once around its multiplications and released at the end.
LockBalanced == hmx # "error" /\ (pc > Len(code) => hmx = "off")

\* The invariant of the code that runs: it stays in its memory, and with the HMX.
MachineInv == TypeOK /\ LockBalanced

=============================================================================
