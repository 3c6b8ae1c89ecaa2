---------------------------- MODULE ConstantFolds ----------------------------
(***************************************************************************)
(* Folding of operations on constants (FoldPackUnpackConstantsPass.cpp) and  *)
(* of an unpack that a pack undoes (EliminateRedundantUnpackPackPass.cpp).   *)
(* The elements of a constant are found through linear indices computed      *)
(* digit by digit.  A pattern gives a set: the folded constant, or nothing   *)
(* when it does not match.                                                   *)
(*                                                                           *)
(* An operation has a field static: its shapes, tiles and padding are known. *)
(***************************************************************************)
EXTENDS Tensors, FiniteSetsExt

-----------------------------------------------------------------------------
\* From the innermost dimension out.
Outward(shape) == [i \in DOMAIN shape |-> Len(shape) + 1 - i]

computeLinearIndex(indices, shape) ==
    FoldLeft(LAMBDA s, i : [index |-> s.index + indices[i] * s.stride, stride |-> s.stride * shape[i]],
             [index |-> 0, stride |-> 1], Outward(shape)).index

computeMultiDimIndices(linearIdx, shape) ==
    FoldLeft(LAMBDA s, i : [rest |-> s.rest \div shape[i], indices |-> <<s.rest % shape[i]>> \o s.indices],
             [rest |-> linearIdx, indices |-> <<>>], Outward(shape)).indices

InRange(k, t) == 0 <= k /\ k < Len(t.at)

\* A constant of a shape, element by element.
Constant(shape, Element(_)) ==
    [shape |-> shape,
     at |-> Evaluated([k \in 1 .. Product(shape) |-> Element(computeMultiDimIndices(k - 1, shape))])]

\* Every element of the new constant is an element of the old one.
Gathered(t, shape, Source(_)) ==
    LET index == Evaluated([k \in 1 .. Product(shape) |->
                     computeLinearIndex(Source(computeMultiDimIndices(k - 1, shape)), t.shape)])
    IN  IF \A k \in DOMAIN index : InRange(index[k], t)
        THEN {[shape |-> shape, at |-> Evaluated([k \in DOMAIN index |-> t.at[index[k] + 1]])]}
        ELSE {}

-----------------------------------------------------------------------------
\* The faulty variant permutes by the inverse.
computePackedIndicesInverse(x, p) ==
    LET outer == [d \in DOMAIN x |-> x[d] \div TileOf(p, d)]
    IN  [i \in DOMAIN x |-> outer[PositionIn(PermOf(p, Len(x)), i)]]
          \o [j \in DOMAIN p.pos |-> x[p.pos[j]] % p.tiles[j]]

computePackedIndices(x, p) ==
    LET outer == [d \in DOMAIN x |-> x[d] \div TileOf(p, d)]
    IN  [i \in DOMAIN x |-> outer[PermOf(p, Len(x))[i]]]
          \o [j \in DOMAIN p.pos |-> x[p.pos[j]] % p.tiles[j]]

\* Matched by FoldPackConstant and FoldUnpackConstant.
KnownTiles(p, rank) == p.static /\ (\A j \in DOMAIN p.tiles : p.tiles[j] > 0) /\ Len(p.perm) \in {0, rank}

\* A padded element needs a padding value.
FoldPackConstant(t, p) ==
    LET rank == Len(t.shape)
        shape == PackedShape(t.shape, p)
        invPerm == [d \in 1 .. rank |-> PositionIn(PermOf(p, rank), d)]
        tileIdx(d) == SelectInSeq(p.pos, LAMBDA e : e = d)
        Unpacked(y) == [d \in 1 .. rank |->
                          IF tileIdx(d) = 0 THEN y[invPerm[d]]
                          ELSE y[invPerm[d]] * p.tiles[tileIdx(d)] + y[rank + tileIdx(d)]]
        isPadded(x) == \E d \in 1 .. rank : x[d] >= t.shape[d]
        Element(y) == IF isPadded(Unpacked(y)) THEN <<p.pad[1], FALSE>>
                      ELSE t.at[computeLinearIndex(Unpacked(y), t.shape) + 1]
        anyPadded == \E k \in 1 .. Product(shape) : isPadded(Unpacked(computeMultiDimIndices(k - 1, shape)))
    IN  IF ~KnownTiles(p, rank) \/ (anyPadded /\ p.pad = <<>>) THEN {}
        ELSE {Constant(shape, Element)}

FoldUnpackConstant(t, p) ==
    IF ~KnownTiles(p, Len(p.shape)) THEN {}
    ELSE Gathered(t, p.shape, LAMBDA x : computePackedIndices(x, p))

FoldTransposeConstant(t, o) ==
    IF ~o.static \/ Len(o.perm) # Len(t.shape) \/ ToSet(o.perm) # DOMAIN t.shape THEN {}
    ELSE Gathered(t, [j \in DOMAIN o.perm |-> t.shape[o.perm[j]]],
                  LAMBDA y : [d \in DOMAIN t.shape |-> y[PositionIn(o.perm, d)]])

\* expand_shape, collapse_shape and reshape keep the elements in order.
FoldReshapeConstant(t, o) ==
    IF ~o.static \/ Product(o.shape) # Product(t.shape) THEN {} ELSE {[t EXCEPT !.shape = o.shape]}

FoldPadConstant(t, o) ==
    LET shape == [i \in DOMAIN t.shape |-> o.low[i] + t.shape[i] + o.high[i]]
        source(y) == [i \in DOMAIN y |-> y[i] - o.low[i]]
        isPadded(y) == \E i \in DOMAIN y : source(y)[i] < 0 \/ source(y)[i] >= t.shape[i]
        Element(y) == IF isPadded(y) THEN <<o.value, TRUE>>
                      ELSE t.at[computeLinearIndex(source(y), t.shape) + 1]
    IN  IF o.static THEN {Constant(shape, Element)} ELSE {}

FoldConstant(t, o) ==
    CASE o.op = "pack" -> FoldPackConstant(t, o)
      [] o.op = "unpack" -> FoldUnpackConstant(t, o)
      [] o.op = "transpose" -> FoldTransposeConstant(t, o)
      [] o.op \in {"expand", "collapse"} -> FoldReshapeConstant(t, o)
      [] o.op = "pad" -> FoldPadConstant(t, o)

\* Patterns are applied until none matches: what is left is the constant
\* reached and the operations from the first that does not fold on.
FoldPackUnpackConstants(t, ops) ==
    FoldLeft(LAMBDA s, o : LET folded == IF s.rest = <<>> THEN FoldConstant(s.constant, o) ELSE {}
                           IN  IF folded = {} THEN [s EXCEPT !.rest = Append(@, o)]
                               ELSE [s EXCEPT !.constant = CHOOSE c \in folded : TRUE],
             [constant |-> t, rest |-> <<>>], ops)

-----------------------------------------------------------------------------
\* An unpack and a pack of the same layout and the same packed shape.
Redundant(shape, ops, i) ==
    /\ i < Len(ops) /\ ops[i].op = "unpack" /\ ops[i + 1].op = "pack"
    /\ ops[i].pos = ops[i + 1].pos /\ ops[i].tiles = ops[i + 1].tiles /\ ops[i].perm = ops[i + 1].perm
    /\ ShapeBefore(shape, ops, i) = ShapeBefore(shape, ops, i + 2)

EliminateRedundantUnpackPack(shape, ops) ==
    LET Drop(s, k) ==
            LET pairs == {i \in DOMAIN s : Redundant(shape, s, i)}
            IN  IF pairs = {} THEN s ELSE RemoveAt(RemoveAt(s, Min(pairs)), Min(pairs))
    IN  FoldLeft(Drop, ops, ops)

-----------------------------------------------------------------------------
\* Folding leaves every element as it was, the padding included.
FoldsExactly(t, ops) ==
    \E folded \in {FoldPackUnpackConstants(t, ops)} :
        FoldLeft(Apply, folded.constant, folded.rest) = FoldLeft(Apply, t, ops)

\* Dropping a pair leaves every element of data as it was.
EliminatesExactly(t, ops) ==
    \E before \in {FoldLeft(Apply, t, ops)},
       after \in {FoldLeft(Apply, t, EliminateRedundantUnpackPack(t.shape, ops))} :
        /\ before.shape = after.shape
        /\ \A k \in DOMAIN before.at : before.at[k][2] => after.at[k][1] = before.at[k][1]

=============================================================================
