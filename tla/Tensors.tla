------------------------------ MODULE Tensors ------------------------------
(***************************************************************************)
(* What the tensor and linalg operations of MLIR compute, on tensors of      *)
(* integers.  A tensor has a shape and its elements in row-major order; an   *)
(* element is a pair of a value and whether it is data: the lanes a pack     *)
(* adds are not.                                                             *)
(***************************************************************************)
EXTENDS Integers, Sequences, FiniteSets, SequencesExt

Product(s) == FoldLeft(LAMBDA a, b : a * b, 1, s)
SumOf(s) == FoldLeft(LAMBDA a, b : a + b, 0, s)
CeilDiv(a, b) == (a + b - 1) \div b

Ravel(shape, x) == FoldLeft(LAMBDA a, i : a * shape[i] + x[i], 0, [i \in 1 .. Len(shape) |-> i])
Unravel(shape, k) ==
    [i \in 1 .. Len(shape) |->
        (k \div Product(SubSeq(shape, i + 1, Len(shape)))) % shape[i]]
Inside(shape, x) == \A i \in DOMAIN shape : 0 <= x[i] /\ x[i] < shape[i]

\* TLC evaluates a function again at every use, and a sequence that was
\* concatenated only once.
Evaluated(s) == s \o <<>>
Build(shape, At(_)) ==
    [shape |-> shape,
     at |-> Evaluated([k \in 1 .. Product(shape) |-> At(Unravel(shape, k - 1))])]
Load(t, x) == t.at[Ravel(t.shape, x) + 1]
Input(shape, offset) == [shape |-> shape, at |-> [k \in 1 .. Product(shape) |-> <<k + offset, TRUE>>]]

Identity(n) == [i \in 1 .. n |-> i]
PermOf(p, n) == IF p.perm = <<>> THEN Identity(n) ELSE p.perm
PositionIn(s, e) == CHOOSE i \in DOMAIN s : s[i] = e
TileOf(p, d) == IF d \in ToSet(p.pos) THEN p.tiles[PositionIn(p.pos, d)] ELSE 1

-----------------------------------------------------------------------------
\* linalg.pack and linalg.unpack: dimensions pos are tiled by tiles, the
\* outer dimensions follow perm.  pad is <<>> or a value.

PackedShape(shape, p) ==
    [i \in 1 .. Len(shape) |->
        LET d == PermOf(p, Len(shape))[i] IN CeilDiv(shape[d], TileOf(p, d))] \o p.tiles

Perfect(shape, p) == \A i \in DOMAIN p.pos : shape[p.pos[i]] % p.tiles[i] = 0

Pack(t, p) ==
    LET n == Len(t.shape)
        perm == PermOf(p, n)
        Source(y) == [d \in 1 .. n |->
                        y[PositionIn(perm, d)] * TileOf(p, d)
                          + (IF d \in ToSet(p.pos) THEN y[n + PositionIn(p.pos, d)] ELSE 0)]
        Lane(y) == IF Inside(t.shape, Source(y)) THEN Load(t, Source(y))
                   ELSE <<IF p.pad = <<>> THEN -7 ELSE p.pad[1], FALSE>>
    IN  Build(PackedShape(t.shape, p), Lane)

Unpack(t, p) ==
    LET n == Len(p.shape)
        Packed(x) == [i \in 1 .. n |-> LET d == PermOf(p, n)[i] IN x[d] \div TileOf(p, d)]
                        \o [j \in 1 .. Len(p.pos) |-> x[p.pos[j]] % p.tiles[j]]
    IN  Build(p.shape, LAMBDA x : Load(t, Packed(x)))

\* tensor.pad with a constant.
Padded(t, p) ==
    LET shape == [i \in DOMAIN t.shape |-> p.low[i] + t.shape[i] + p.high[i]]
        Inner(x) == [i \in DOMAIN x |-> x[i] - p.low[i]]
    IN  Build(shape, LAMBDA x : IF Inside(t.shape, Inner(x)) THEN Load(t, Inner(x)) ELSE <<p.value, TRUE>>)

\* linalg.transpose: dimension i of the result is dimension perm[i] of t.
Transposed(t, o) ==
    Build([i \in DOMAIN o.perm |-> t.shape[o.perm[i]]],
          LAMBDA y : Load(t, [d \in DOMAIN t.shape |-> y[PositionIn(o.perm, d)]]))

-----------------------------------------------------------------------------
\* linalg.generic: loops are the ranges, red the reduction loops; a map is a
\* sequence of loop numbers, 0 for the constant 0.

Through(map, q) == [i \in DOMAIN map |-> IF map[i] = 0 THEN 0 ELSE q[map[i]]]

Body(g, v, s, q) ==
    CASE g.body = "double" -> 2 * v
      [] g.body = "inc" -> v + 1
      [] g.body = "add" -> v + s
      [] g.body = "mul" -> v * s
      [] g.body = "div" -> IF v = 0 THEN 0 ELSE 60 \div v
      [] g.body = "index" -> v + q[1]

\* The operations that move elements.
Moved(t, o) ==
    CASE o.op = "pack" -> Pack(t, o)
      [] o.op = "unpack" -> Unpack(t, o)
      [] o.op = "pad" -> Padded(t, o)
      [] o.op \in {"expand", "collapse"} -> [t EXCEPT !.shape = o.shape]
      [] o.op = "transpose" -> Transposed(t, o)

\* Only such operations lead to a side operand.
Generic(t, g) ==
    LET sides == [i \in DOMAIN g.side |-> FoldLeft(Moved, Input(g.side[i].shape, 11), g.side[i].ops)]
        Side(q) == IF g.side = <<>> THEN <<0, TRUE>> ELSE Load(sides[1], Through(g.side[1].map, q))
        Point(q) == LET a == Load(t, Through(g.inMap, q))
                        b == Side(q)
                    IN  <<Body(g, a[1], b[1], q), a[2] /\ b[2]>>
        points == Evaluated([k \in 1 .. Product(g.loops) |-> Unravel(g.loops, k - 1)])
        value == Evaluated([k \in DOMAIN points |-> Point(points[k])])
        target == Evaluated([k \in DOMAIN points |-> Ravel(g.shape, Through(g.outMap, points[k]))])
        Element(c) ==
            LET from == {k \in DOMAIN points : target[k] = c}
            IN  <<FoldSet(LAMBDA k, sum : sum + value[k][1], 0, from),
                  \A k \in from : value[k][2]>>
    IN  [shape |-> g.shape, at |-> Evaluated([c \in 1 .. Product(g.shape) |-> Element(c - 1)])]

Apply(t, o) == IF o.op = "generic" THEN Generic(t, o) ELSE Moved(t, o)

\* The tensor a chain of operations computes from an input.
Meaning(shape, ops) ==
    FoldLeft(Apply, Input(shape, 0), ops)

ShapeAfter(shape, o) ==
    CASE o.op = "pack" -> PackedShape(shape, o)
      [] o.op = "pad" -> [i \in DOMAIN shape |-> o.low[i] + shape[i] + o.high[i]]
      [] o.op = "transpose" -> [i \in DOMAIN o.perm |-> shape[o.perm[i]]]
      [] OTHER -> o.shape

ShapeBefore(shape, ops, i) == FoldLeft(ShapeAfter, shape, SubSeq(ops, 1, i - 1))

=============================================================================
