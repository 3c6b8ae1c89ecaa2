------------------------- MODULE LayoutPropagation -------------------------
(***************************************************************************)
(* The propagation of packs up and of unpacks down a chain of operations     *)
(* (LinalgToLLVM/ExtendPackUnpackFrontier.cpp).                              *)
(*                                                                         *)
(* The program is a sequence of operations, each the only user of the one    *)
(* before it; a generic may have a side operand with a chain of its own.     *)
(* Its init is a tensor.empty, or zeros when it reduces.  An action is one   *)
(* pattern at one place, and the greedy driver applies them in any order.    *)
(* Loops and dimensions are numbered from 1; the reassociation of a reshape  *)
(* is the sequence of the sizes of its groups.                               *)
(***************************************************************************)
EXTENDS Tensors

CONSTANTS Programs,         \* pairs of the shape of the input and a chain
          UpperFrontier, LowerFrontier, ParallelsOnly   \* options of the pass

VARIABLES program, ops
vars == <<program, ops>>

Fails == [ok |-> FALSE]
Ends(chain, kind) == chain # <<>> /\ Last(chain).op = kind

hasGatherSemantics(g) == g.body = "index"
containsDivision(g) == g.body = "div"

\* The control functions of the pass.
upperFrontierFn(o) == UpperFrontier /\ (o.op = "generic" /\ ParallelsOnly => o.red = {})
lowerFrontierFn(o) == LowerFrontier /\ (o.op = "generic" /\ ParallelsOnly => o.red = {})

-----------------------------------------------------------------------------
\* Packing on the iteration domain.

UsedDims(map) == {map[i] : i \in DOMAIN map} \ {0}
UnusedDims(map, loops) == SetToSortSeq((1 .. Len(loops)) \ UsedDims(map), <)
ConstantsBefore(map, i) == Cardinality({j \in 1 .. i - 1 : map[j] = 0})

\* getPackingInfoFromOperand: which loops are tiled, and how the permutation
\* of the outer dimensions permutes the loops.
PackInfo(g, map, p) ==
    LET unused == UnusedDims(map, g.loops)
        dims == [j \in 1 .. Len(p.pos) |->
                    IF map[p.pos[j]] # 0 THEN map[p.pos[j]]
                    ELSE unused[ConstantsBefore(map, p.pos[j]) + 1]]
        permuted == SelectSeq([j \in 1 .. Len(p.perm) |-> map[p.perm[j]]], LAMBDA d : d # 0)
        Rank(d) == Cardinality({e \in ToSet(permuted) : e <= d})
    IN  [ok |-> /\ \A j \in DOMAIN p.pos :
                     map[p.pos[j]] # 0 \/ ConstantsBefore(map, p.pos[j]) < Len(unused)
                /\ \A j \in DOMAIN p.perm : map[p.perm[j]] = 0 => p.perm[j] = j,
         dims |-> dims, tiles |-> p.tiles,
         reduced |-> {j \in DOMAIN p.pos : dims[j] \in g.red},
         pad |-> IF p.op = "pack" THEN p.pad ELSE <<>>,
         perm |-> IF permuted = <<>> THEN <<>>
                  ELSE [d \in 1 .. Len(g.loops) |->
                          IF d \in ToSet(permuted) THEN permuted[Rank(d)] ELSE d]]

\* computeOuterDims; exprs includes the tile loops already.
OuterDims(perm, exprs) ==
    LET Key(i) == IF exprs[i] # 0 THEN exprs[i] ELSE i
        Position(d) == Max({i \in DOMAIN exprs : Key(i) = d})
    IN  IF Len(exprs) = 1 THEN <<>>
        ELSE LET dims == SelectSeq(perm, LAMBDA d : \E i \in DOMAIN exprs : Key(i) = d)
             IN  [j \in 1 .. Len(dims) |-> Position(dims[j])]

\* createPackedOperand: a padding value only where tiles are partial.
CreatePack(shape, pos, tiles, perm, pad) ==
    LET p == [op |-> "pack", pos |-> pos, tiles |-> tiles, perm |-> perm, pad |-> <<>>]
    IN  IF Perfect(shape, p) THEN p ELSE [p EXCEPT !.pad = IF pad = <<>> THEN <<0>> ELSE pad]

\* getOrCreatePackedViewOfOperand: the packs of an operand (none or one) and its
\* map on the packed domain.
PackedView(g, info, map, shape) ==
    LET unused == UnusedDims(map, g.loops)
        loopOf == [i \in DOMAIN map |->
                      IF map[i] # 0 THEN map[i] ELSE unused[ConstantsBefore(map, i) + 1]]
        mine == SelectSeq(Identity(Len(info.dims)), LAMBDA j : info.dims[j] \in ToSet(loopOf))
        pos == [k \in 1 .. Len(mine) |-> PositionIn(loopOf, info.dims[mine[k]])]
        tiles == [k \in 1 .. Len(mine) |-> info.tiles[mine[k]]]
        exprs == map \o [k \in 1 .. Len(mine) |-> Len(g.loops) + mine[k]]
        outer == IF info.perm = <<>> THEN <<>> ELSE OuterDims(info.perm, exprs)
        moved == [i \in DOMAIN exprs |->
                    IF info.perm # <<>> /\ i <= Len(map) /\ exprs[i] # 0
                    THEN PositionIn(info.perm, exprs[i]) ELSE exprs[i]]
    IN  CASE map = <<>> -> [ok |-> TRUE, packs |-> <<>>, map |-> <<>>]
          [] map # <<>> /\ Cardinality({i \in DOMAIN map : map[i] = 0}) > Len(unused) -> Fails
          [] OTHER ->
               [ok |-> TRUE,
                packs |-> IF pos = <<>> /\ outer = <<>> THEN <<>>
                          ELSE <<CreatePack(shape, pos, tiles, outer, info.pad)>>,
                map |-> [i \in DOMAIN moved |-> IF i \in DOMAIN outer THEN moved[outer[i]] ELSE moved[i]]]

U(shape, p) == [op |-> "unpack", pos |-> p.pos, tiles |-> p.tiles, perm |-> p.perm, shape |-> shape]

\* hasEquivalentTiles
SameTiles(p, u) == p.perm = u.perm /\ p.pos = u.pos /\ p.tiles = u.tiles

\* The chain of an operand with its pack; pushing down, a pack of the same
\* unpack is replaced by what was unpacked.
WithPacks(chain, packs, foldable) ==
    IF /\ foldable /\ packs # <<>> /\ chain # <<>>
       /\ Last(chain).op = "unpack" /\ SameTiles(packs[1], Last(chain))
    THEN Front(chain) ELSE chain \o packs

\* Mutant: the outer loops keep their order.
PackedLoopsUnpermuted(g, info) ==
    [d \in 1 .. Len(g.loops) |->
        CeilDiv(g.loops[d], IF d \in ToSet(info.dims) THEN info.tiles[PositionIn(info.dims, d)] ELSE 1)]
      \o info.tiles

\* packGenericOp.  The kinds of the old loops stay in their order.
PackedLoops(g, info) ==
    [d \in 1 .. Len(g.loops) |->
        LET old == IF info.perm = <<>> THEN d ELSE info.perm[d]
        IN  CeilDiv(g.loops[old], IF old \in ToSet(info.dims)
                                  THEN info.tiles[PositionIn(info.dims, old)] ELSE 1)] \o info.tiles

\* The chain ending in the packed generic: before leads to the generic g.
packGenericOp(shape, before, g, info, foldable) ==
    LET view == PackedView(g, info, g.inMap, ShapeBefore(shape, before, Len(before) + 1))
        out == PackedView(g, info, g.outMap, g.shape)
        SideView(s) == PackedView(g, info, s.map, ShapeBefore(s.shape, s.ops, Len(s.ops) + 1))
        PackedSide(s) == [s EXCEPT !.ops = WithPacks(@, SideView(s).packs, foldable), !.map = SideView(s).map]
    IN  IF ~info.ok \/ ~view.ok \/ ~out.ok \/ \E i \in DOMAIN g.side : ~SideView(g.side[i]).ok THEN Fails
        ELSE [ok |-> TRUE, destPacks |-> out.packs,
              chain |-> WithPacks(before, view.packs, foldable) \o
                  <<[g EXCEPT
                       !.loops = PackedLoops(g, info),
                       !.red = @ \cup {Len(g.loops) + j : j \in info.reduced},
                       !.inMap = view.map, !.outMap = out.map,
                       !.shape = FoldLeft(ShapeAfter, @, out.packs),
                       !.side = [i \in DOMAIN @ |-> PackedSide(@[i])]]>>]

-----------------------------------------------------------------------------
\* Reshapes on the iteration domain.

GroupStart(groups, i) == 1 + SumOf(SubSeq(groups, 1, i - 1))
GroupOf(groups, d) == Max({i \in DOMAIN groups : GroupStart(groups, i) <= d})
GroupDims(groups, i) == [k \in 1 .. groups[i] |-> GroupStart(groups, i) + k - 1]

\* getExpandShapeInfoFromOperand: the factors of every loop.
ExpandInfo(g, map, groups, expanded) ==
    LET factors == [d \in 1 .. Len(g.loops) |->
                      IF d \in UsedDims(map)
                      THEN LET dims == GroupDims(groups, PositionIn(map, d))
                           IN  [k \in DOMAIN dims |-> expanded[dims[k]]]
                      ELSE <<g.loops[d]>>]
        counts == [d \in DOMAIN factors |-> Len(factors[d])]
    IN  [ok |-> /\ \A i, j \in DOMAIN map : i # j /\ map[i] # 0 => map[i] # map[j]
                /\ SumOf(counts) = Len(expanded),
         factors |-> factors, counts |-> counts]

\* getOrCreateExpandedViewOfOperand
ExpandedView(info, map, shape) ==
    LET Factors(i) == IF map[i] # 0 /\ info.counts[map[i]] > 1 THEN info.factors[map[i]] ELSE <<shape[i]>>
        Exprs(i) == IF map[i] = 0 THEN <<0>> ELSE GroupDims(info.counts, map[i])
    IN  [map |-> FlattenSeq([i \in DOMAIN map |-> Exprs(i)]),
         op |-> [op |-> "expand", groups |-> [i \in DOMAIN map |-> Len(Factors(i))],
                 shape |-> FlattenSeq([i \in DOMAIN map |-> Factors(i)])]]

\* isInverse looks at the groups only: an expand of a collapse is replaced by
\* what was collapsed.
NoReshape(o) == \A i \in DOMAIN o.groups : o.groups[i] = 1
WithExpand(chain, o) ==
    CASE NoReshape(o) -> chain
      [] ~NoReshape(o) /\ Ends(chain, "collapse") /\ Last(chain).groups = o.groups -> Front(chain)
      [] OTHER -> Append(chain, o)

\* The folders of the reshapes: nothing reshaped, or reshaped there and back.
Folded(shape, chain, o) ==
    LET Undone  == /\ chain # <<>>
                   /\ {Last(chain).op, o.op} = {"expand", "collapse"}
                   /\ Last(chain).groups = o.groups
                   /\ ShapeBefore(shape, chain, Len(chain)) = o.shape
    IN  CASE o.op \in {"expand", "collapse"} /\ NoReshape(o) -> chain
          [] o.op \in {"expand", "collapse"} /\ ~NoReshape(o) /\ Undone -> Front(chain)
          [] OTHER -> Append(chain, o)

\* expandGenericOp
expandGenericOp(shape, before, g, info) ==
    LET view == ExpandedView(info, g.inMap, ShapeBefore(shape, before, Len(before) + 1))
        out == ExpandedView(info, g.outMap, g.shape)
        SideView(s) == ExpandedView(info, s.map, ShapeBefore(s.shape, s.ops, Len(s.ops) + 1))
        ExpandedSide(s) == [s EXCEPT !.ops = WithExpand(@, SideView(s).op), !.map = SideView(s).map]
    IN  WithExpand(before, view.op) \o
          <<[g EXCEPT !.loops = FlattenSeq(info.factors),
                      !.red = UNION {ToSet(GroupDims(info.counts, d)) : d \in @},
                      !.inMap = view.map, !.outMap = out.map, !.shape = out.op.shape,
                      !.side = [i \in DOMAIN @ |-> ExpandedSide(@[i])]]>>

-----------------------------------------------------------------------------
\* The patterns.  Each is a set of rewritten chains for place i.

Prefix(i) == SubSeq(ops, 1, i)
Suffix(i) == SubSeq(ops, i, Len(ops))
Pair(i, a, b) == i + 1 \in DOMAIN ops /\ ops[i].op = a /\ ops[i + 1].op = b
InShape(i) == ShapeBefore(program[1], ops, i)

Rewrite(chain, rest) ==
    ops' = FoldLeft(LAMBDA c, o : Folded(program[1], c, o), chain, rest)

BubbleUpPackOpThroughGenericOp(i) ==
    /\ Pair(i, "generic", "pack")
    /\ upperFrontierFn(ops[i])
    /\ ~hasGatherSemantics(ops[i])
    /\ ~(ops[i + 1].pad # <<>> /\ containsDivision(ops[i]))
    /\ \E info \in {PackInfo(ops[i], ops[i].outMap, ops[i + 1])} :
       \E new \in {packGenericOp(program[1], Prefix(i - 1), ops[i], info, FALSE)} :
           new.ok /\ Rewrite(new.chain, Suffix(i + 2))

\* The operands in their order, with the operations that define them.
Operands(i) ==
    <<[ops |-> Prefix(i - 1), map |-> ops[i].inMap, shape |-> InShape(i)]>>
       \o [k \in DOMAIN ops[i].side |->
             LET s == ops[i].side[k]
             IN  [ops |-> s.ops, map |-> s.map, shape |-> ShapeBefore(s.shape, s.ops, Len(s.ops) + 1)]]

getUnPackedOperands(i) == SelectSeq(Operands(i), LAMBDA o : Ends(o.ops, "unpack"))

PushDownUnPackOpThroughGenericOp(i) ==
    /\ ops[i].op = "generic"
    /\ lowerFrontierFn(ops[i])
    /\ ~hasGatherSemantics(ops[i])
    /\ getUnPackedOperands(i) # <<>>
    /\ \A o \in ToSet(getUnPackedOperands(i)) :
          LET ref == getUnPackedOperands(i)[1]
          IN  SameTiles(Last(o.ops), Last(ref.ops)) /\ o.shape = ref.shape /\ o.map = ref.map
    /\ \E ref \in {getUnPackedOperands(i)[1]} :
       \E info \in {PackInfo(ops[i], ref.map, Last(ref.ops))} :
       \E new \in {packGenericOp(program[1], Prefix(i - 1), ops[i], info, TRUE)} :
           /\ new.ok
           /\ Rewrite(new.chain \o
                        [k \in DOMAIN new.destPacks |->
                           U(ops[i].shape, new.destPacks[k])], Suffix(i + 1))

\* Padding of a dimension that is not tiled moves to the packed tensor.
Permuted(s, perm) == IF perm = <<>> THEN s ELSE [i \in DOMAIN s |-> s[perm[i]]]
PadOnPacked(pad, p) ==
    LET zeros == [j \in DOMAIN p.pos |-> 0]
    IN  [pad EXCEPT !.low = Permuted(@, p.perm) \o zeros, !.high = Permuted(@, p.perm) \o zeros]
PadsTiled(pad, p) == \E d \in ToSet(p.pos) : pad.low[d] # 0 \/ pad.high[d] # 0

BubbleUpPackThroughPadOp(i) ==
    /\ Pair(i, "pad", "pack")
    /\ upperFrontierFn(ops[i])
    /\ ops[i + 1].pad = <<>>
    /\ ~PadsTiled(ops[i], ops[i + 1])
    /\ Rewrite(Prefix(i - 1) \o <<ops[i + 1], PadOnPacked(ops[i], ops[i + 1])>>, Suffix(i + 2))

PushDownUnPackThroughPadOp(i) ==
    /\ Pair(i, "unpack", "pad")
    /\ lowerFrontierFn(ops[i + 1])
    /\ ~PadsTiled(ops[i + 1], ops[i])
    /\ Rewrite(Prefix(i - 1) \o
                 <<PadOnPacked(ops[i + 1], ops[i]),
                   [ops[i] EXCEPT !.shape = ShapeAfter(InShape(i + 1), ops[i + 1])]>>, Suffix(i + 2))

\* projectToInnerMostNonUnitDimsPos
InnerMostNonUnit(pos, groups, shape) ==
    [j \in DOMAIN pos |->
        LET dims == ToSet(GroupDims(groups, pos[j]))
            large == {d \in dims : shape[d] > 1}
        IN  IF large = {} THEN Max(dims) ELSE Max(large)]

\* Mutant: the projected dimension need not be a multiple of the tile.
isDimsDivisibleByTileSizesAny(pos, shape, tiles) == TRUE

isDimsDivisibleByTileSizes(pos, shape, tiles) ==
    \A j \in DOMAIN pos : shape[pos[j]] % tiles[j] = 0

\* applyPermutationAndReindexReassoc, and one group for every tile dimension.
PackedGroups(groups, p) == Permuted(groups, p.perm) \o [j \in DOMAIN p.pos |-> 1]
ExpandedPerm(groups, perm) == FlattenSeq([j \in DOMAIN perm |-> GroupDims(groups, perm[j])])

bubbleUpPackOpThroughCollapseShape(i) ==
    /\ Pair(i, "collapse", "pack")
    /\ upperFrontierFn(ops[i])
    /\ LET c == ops[i]
           p == ops[i + 1]
           pos == InnerMostNonUnit(p.pos, c.groups, InShape(i))
           new == [p EXCEPT !.pos = pos, !.perm = ExpandedPerm(c.groups, @)]
       IN  /\ isDimsDivisibleByTileSizes(pos, InShape(i), p.tiles)
           /\ Rewrite(Prefix(i - 1) \o
                        <<new, [c EXCEPT !.groups = PackedGroups(@, p), !.shape = PackedShape(c.shape, p)]>>,
                      Suffix(i + 2))

\* getReassociationIndicesForReshape, to a higher rank.
Reassociations(from, to) ==
    {groups \in [1 .. Len(from) -> 1 .. Len(to)] :
        /\ SumOf(groups) = Len(to)
        /\ \A i \in DOMAIN from :
              Product([k \in 1 .. groups[i] |-> to[GroupStart(groups, i) + k - 1]]) = from[i]}

bubbleUpPackOpThroughExpandShape(i) ==
    /\ Pair(i, "expand", "pack")
    /\ upperFrontierFn(ops[i])
    /\ LET e == ops[i]
           p == ops[i + 1]
           Packed(k) == ToSet(p.pos) \cap ToSet(GroupDims(e.groups, k))
           new == [p EXCEPT !.pos = [j \in DOMAIN @ |-> GroupOf(e.groups, @[j])], !.perm = <<>>]
           packed == PackedShape(InShape(i), new)
           wanted == PackedShape(e.shape, p)
       IN  /\ p.perm = <<>> \/ p.perm = Identity(Len(p.perm))
           /\ \A k \in DOMAIN e.groups :
                 Packed(k) = {} \/ Packed(k) = {Max(ToSet(GroupDims(e.groups, k)))}
           /\ Len(packed) < Len(wanted)
           /\ Reassociations(packed, wanted) # {}
           /\ Rewrite(Prefix(i - 1) \o
                        <<new, [op |-> "expand", shape |-> wanted,
                                groups |-> CHOOSE gs \in Reassociations(packed, wanted) : TRUE]>>,
                      Suffix(i + 2))

pushDownUnPackOpThroughExpandShape(i) ==
    /\ Pair(i, "unpack", "expand")
    /\ lowerFrontierFn(ops[i + 1])
    /\ LET u == ops[i]
           e == ops[i + 1]
           pos == InnerMostNonUnit(u.pos, e.groups, e.shape)
           new == [u EXCEPT !.pos = pos, !.perm = ExpandedPerm(e.groups, @), !.shape = e.shape]
       IN  /\ isDimsDivisibleByTileSizes(pos, e.shape, u.tiles)
           /\ Rewrite(Prefix(i - 1) \o
                        <<[e EXCEPT !.groups = PackedGroups(@, u), !.shape = PackedShape(e.shape, new)], new>>,
                      Suffix(i + 2))

\* getShapeCollapsedOperand: the first operand that a collapse defines.
getShapeCollapsedOperands(i) == SelectSeq(Operands(i), LAMBDA o : Ends(o.ops, "collapse"))
CollapsedFrom(i, o) ==
    IF o.ops = Prefix(i - 1) THEN InShape(i - 1)
    ELSE ShapeBefore(ops[i].side[1].shape, o.ops, Len(o.ops))

PushDownCollapseShapeOpThroughGenericOp(i) ==
    /\ ops[i].op = "generic" /\ ops[i].outMap # <<>>
    /\ lowerFrontierFn(ops[i])
    /\ ~hasGatherSemantics(ops[i])
    /\ getShapeCollapsedOperands(i) # <<>>
    /\ \E o \in {getShapeCollapsedOperands(i)[1]} :
       \E info \in {ExpandInfo(ops[i], o.map, Last(o.ops).groups, CollapsedFrom(i, o))} :
           /\ info.ok
           /\ \E out \in {ExpandedView(info, ops[i].outMap, ops[i].shape).op} :
                 Rewrite(expandGenericOp(program[1], Prefix(i - 1), ops[i], info),
                         <<[op |-> "collapse", groups |-> out.groups, shape |-> ops[i].shape]>> \o Suffix(i + 1))

BubbleUpExpandShapeOpThroughGenericOp(i) ==
    /\ Pair(i, "generic", "expand")
    /\ upperFrontierFn(ops[i])
    /\ ~hasGatherSemantics(ops[i])
    /\ \E info \in {ExpandInfo(ops[i], ops[i].outMap, ops[i + 1].groups, ops[i + 1].shape)} :
           info.ok /\ Rewrite(expandGenericOp(program[1], Prefix(i - 1), ops[i], info), Suffix(i + 2))

-----------------------------------------------------------------------------
Init ==
    /\ program \in Programs
    /\ ops = program[2]

Pattern(i) ==
    \/ BubbleUpPackOpThroughGenericOp(i)
    \/ PushDownUnPackOpThroughGenericOp(i)
    \/ BubbleUpPackThroughPadOp(i)
    \/ PushDownUnPackThroughPadOp(i)
    \/ bubbleUpPackOpThroughCollapseShape(i)
    \/ bubbleUpPackOpThroughExpandShape(i)
    \/ pushDownUnPackOpThroughExpandShape(i)
    \/ PushDownCollapseShapeOpThroughGenericOp(i)
    \/ BubbleUpExpandShapeOpThroughGenericOp(i)

Next == \E i \in DOMAIN ops : Pattern(i) /\ UNCHANGED program

Spec == Init /\ [][Next]_vars

-----------------------------------------------------------------------------
\* Every lane that holds data in the program as written holds the same value
\* after any number of patterns; only the lanes of the padding may change.
MeaningPreserved ==
    LET before == Meaning(program[1], program[2])
        after == Meaning(program[1], ops)
    IN  /\ after.shape = before.shape
        /\ \A k \in DOMAIN before.at : before.at[k][2] => after.at[k][1] = before.at[k][1]

\* The operands of every generic have the extents of its loops, and a reshape
\* keeps the number of elements.
ShapesAgree ==
    LET Agrees(shape, map, loops) ==
            /\ Len(shape) = Len(map)
            /\ \A d \in DOMAIN map : map[d] # 0 => shape[d] = loops[map[d]]
        OperandsAgree(i) ==
            /\ Agrees(ops[i].shape, ops[i].outMap, ops[i].loops)
            /\ \A k \in DOMAIN Operands(i) : Agrees(Operands(i)[k].shape, Operands(i)[k].map, ops[i].loops)
    IN  \A i \in DOMAIN ops :
            /\ ops[i].op = "generic" => OperandsAgree(i)
            /\ ops[i].op \in {"expand", "collapse"} => Product(ops[i].shape) = Product(InShape(i))

=============================================================================
