------------------------ MODULE MCLayoutPropagation ------------------------
(***************************************************************************)
(* Small chains for the propagation of layouts: packed rank 2 and 3 tensors, *)
(* partial and full tiles, permuted outer dimensions, transposed, broadcast   *)
(* and reducing generics.                                                    *)
(***************************************************************************)
EXTENDS LayoutPropagation

CONSTANT Suite      \* "sound", "partial_tile" or "broadcast"

P(pos, tiles, perm, pad) == [op |-> "pack", pos |-> pos, tiles |-> tiles, perm |-> perm, pad |-> pad]
Expand(groups, shape) == [op |-> "expand", groups |-> groups, shape |-> shape]
Collapse(groups, shape) == [op |-> "collapse", groups |-> groups, shape |-> shape]
Pad(low, high) == [op |-> "pad", low |-> low, high |-> high, value |-> 9]
G(loops, red, inMap, outMap, shape, body, side) ==
    [op |-> "generic", loops |-> loops, red |-> red, inMap |-> inMap, outMap |-> outMap,
     shape |-> shape, body |-> body, side |-> side]
Side2(shape, chain, map) == <<[shape |-> shape, ops |-> chain, map |-> map]>>

\* Elementwise generics of rank 2 on <<4, 3>>, straight and transposed.
Unary(body) == G(<<4, 3>>, {}, <<1, 2>>, <<1, 2>>, <<4, 3>>, body, <<>>)
Transpose(body) == G(<<4, 3>>, {}, <<2, 1>>, <<1, 2>>, <<4, 3>>, body, <<>>)
RowSide(body) == G(<<4, 3>>, {}, <<1, 2>>, <<1, 2>>, <<4, 3>>, body, Side2(<<3>>, <<>>, <<2>>))
UnitSide(body) == G(<<4, 3>>, {}, <<1, 2>>, <<1, 2>>, <<4, 3>>, body, Side2(<<1, 3>>, <<>>, <<0, 2>>))
RowSum == G(<<4, 3>>, {2}, <<1, 2>>, <<1>>, <<4>>, "double", <<>>)

Packs2 == {P(<<1>>, <<2>>, <<>>, <<>>), P(<<2>>, <<2>>, <<>>, <<5>>), P(<<1, 2>>, <<2, 3>>, <<2, 1>>, <<>>),
           P(<<2, 1>>, <<2, 2>>, <<2, 1>>, <<0>>), P(<<2>>, <<4>>, <<1, 2>>, <<0>>)}
Elementwise == {Unary("inc"), Transpose("double"), RowSide("add"), UnitSide("mul"), Unary("div"), Unary("index")}
InputOf(g) == IF g.inMap = <<2, 1>> THEN <<3, 4>> ELSE <<4, 3>>

\* generic, pack
AllBubbling == {<<InputOf(g), <<g, p>>>> : g \in Elementwise, p \in Packs2}

\* pack, unpack, generic, generic, pack: from packed to packed.
AllThrough2 ==
    {<<<<4, 3>>, <<p, U(<<4, 3>>, p), g, h, q>>>> :
        p \in Packs2, q \in Packs2, g \in {Unary("inc"), RowSide("add")}, h \in {UnitSide("mul")}}

\* Packing a loop that a constant index of the side operand stands for fills
\* lanes the generic reads with padding.
TilesBroadcast(o) == o.op = "pack" /\ 1 \in ToSet(o.pos)
Broadcasts(p) ==
    /\ \E i \in DOMAIN p[2] : p[2][i] = UnitSide("mul")
    /\ \E i \in DOMAIN p[2] : TilesBroadcast(p[2][i])
Bubbling == {p \in AllBubbling : ~Broadcasts(p)}
Through2 == {p \in AllThrough2 : ~Broadcasts(p)}
Broadcast == {p \in AllBubbling : Broadcasts(p)}

\* Both operands unpacked, alike or not.
BothUnpacked ==
    {<<<<4, 3>>, <<p, U(<<4, 3>>, p),
         G(<<4, 3>>, {}, <<1, 2>>, <<1, 2>>, <<4, 3>>, "add", Side2(<<4, 3>>, <<q, U(<<4, 3>>, q)>>, <<1, 2>>))>>>> :
        p \in Packs2, q \in Packs2}

\* A reduction stops both frontiers.
Reducing == {<<<<4, 3>>, <<p, U(<<4, 3>>, p), RowSum, P(<<1>>, <<4>>, <<>>, <<>>)>>>> : p \in Packs2}

\* Reshapes and padding around packed tensors.
Packs3 == {P(<<2>>, <<2>>, <<>>, <<>>), P(<<2, 3>>, <<2, 2>>, <<3, 1, 2>>, <<>>), P(<<1>>, <<2>>, <<2, 1, 3>>, <<>>),
           P(<<3>>, <<3>>, <<>>, <<4>>), P(<<3>>, <<2>>, <<1, 2, 3>>, <<>>)}
Swap3(shape) == G(<<shape[2], shape[1], shape[3]>>, {}, <<2, 1, 3>>, <<1, 2, 3>>,
                  <<shape[2], shape[1], shape[3]>>, "inc", <<>>)
Reshaped ==
    {<<<<2, 2, 4>>, <<Collapse(<<1, 2>>, <<2, 8>>), p>>>> :
        p \in {P(<<2>>, <<2>>, <<2, 1>>, <<>>), P(<<2>>, <<8>>, <<>>, <<>>), P(<<1, 2>>, <<2, 4>>, <<>>, <<>>)}}
    \cup {<<<<2, 8>>, <<Expand(<<1, 2>>, <<2, 2, 4>>), p>>>> :
        p \in Packs3 \ {P(<<3>>, <<3>>, <<>>, <<4>>)}}
    \cup {<<<<2, 8>>, <<P(<<2>>, <<2>>, <<2, 1>>, <<>>), U(<<2, 8>>, P(<<2>>, <<2>>, <<2, 1>>, <<>>)),
                         Expand(<<1, 2>>, <<2, 2, 4>>), Swap3(<<2, 2, 4>>), p>>>> : p \in Packs3}
    \cup {<<<<2, 3, 2>>, <<Collapse(<<2, 1>>, <<6, 2>>), G(<<6, 2>>, {}, <<1, 2>>, <<2, 1>>, <<2, 6>>, "inc", <<>>),
                           Expand(<<1, 2>>, <<2, 2, 3>>)>>>>}
    \cup {<<<<2, 3, 2>>, <<Collapse(<<2, 1>>, <<6, 2>>),
                           G(<<6, 2>>, {}, <<1, 2>>, <<1, 2>>, <<6, 2>>, "add",
                             Side2(<<1, 2>>, <<>>, <<0, 2>>)),
                           Expand(<<2, 1>>, <<2, 3, 2>>)>>>>}
Padding ==
    {<<<<4, 3>>, <<Pad(<<0, 1>>, <<0, 2>>), p>>>> : p \in Packs2}
    \cup {<<<<4, 3>>, <<p, U(<<4, 3>>, p), Pad(<<1, 0>>, <<1, 0>>)>>>> : p \in Packs2}

\* A dimension collapsed from 2 x 3 and expanded to 3 x 2.
UnequalFactors ==
    {<<<<2, 3, 2>>, <<Collapse(<<2, 1>>, <<6, 2>>), G(<<6, 2>>, {}, <<1, 2>>, <<1, 2>>, <<6, 2>>, "inc", <<>>),
                       Expand(<<2, 1>>, <<3, 2, 2>>)>>>>}

\* A tile that is padded in the last dimension of an expanded group.
PartialTile == {<<<<6>>, <<Expand(<<2>>, <<2, 3>>), P(<<2>>, <<4>>, <<>>, <<0>>)>>>>}

MCPrograms ==
    CASE Suite = "sound" -> Bubbling \cup Through2 \cup BothUnpacked \cup Reducing \cup Reshaped \cup Padding
      [] Suite = "partial_tile" -> PartialTile
      [] Suite = "unequal_factors" -> UnequalFactors
      [] Suite = "broadcast" -> Broadcast

=============================================================================
