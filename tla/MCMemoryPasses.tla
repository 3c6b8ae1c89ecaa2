--------------------------- MODULE MCMemoryPasses ---------------------------
(***************************************************************************)
(* Small bufferized functions for the memory passes.                         *)
(***************************************************************************)
EXTENDS MemoryPasses, TLC

\* Buffers of two by three elements, tiles of matrices and of stacks of them.
Tile(bits, space) == Flat(<<2, 3>>, bits, space)
OfMatrix(bits) == [shape |-> <<2, 3>>, strides |-> <<5, 1>>, off |-> 6, bits |-> bits, space |-> DDR]
Stack(bits, space) == Flat(<<2, 2, 3>>, bits, space)
OfStacks(bits) == [shape |-> <<2, 2, 3>>, strides |-> <<16, 4, 1>>, off |-> 1, bits |-> bits, space |-> DDR]

Info == <<"i1", "i2", "i3", "i4", "i5", "i6">>
Alloc(r) == [op |-> "alloc", lib |-> "memref", r |-> r]
Copy(src, dst) == [op |-> "copy", lib |-> "memref", src |-> src, dst |-> dst]
Generic(ins, out) == [op |-> "generic", ins |-> ins, out |-> out]
For(init, body, yield) ==
    [op |-> "for", n |-> 2, inits |-> <<init>>, iters |-> <<"iter">>, yields |-> <<yield>>, results |-> <<"result">>,
     body |-> body]

\* in is a slice of an argument of 70 bytes, out one of the same shape or flat.
Function(in, out, vtcm, info, body) ==
    [args |-> <<"in", "out">> \o info, extents |-> [b \in {"in", "out"} |-> 70], scratch |-> "none",
     types |-> "in" :> in @@ "out" :> out @@ "iter" :> vtcm @@ "result" :> vtcm @@ "ddr" :> [vtcm EXCEPT !.space = DDR]
               @@ [b \in {"a", "b", "c"} |-> vtcm],
     body |-> body]

\* One tile: in by VTCM, computed, out.
OneTile == <<Alloc("a"), Copy("in", "a"), Alloc("b"), Generic(<<"a">>, "b"), Copy("b", "out")>>
\* A copy through a buffer in DDR, read twice.
Chain == <<Alloc("ddr"), Alloc("a"), Alloc("b"), Copy("in", "ddr"), Copy("ddr", "a"), Copy("ddr", "b"),
           Generic(<<"a">>, "b"), Copy("b", "out")>>
\* A loop that carries a buffer, made anew in each iteration.
Loop == <<Alloc("a"), Copy("in", "a"),
          For("a", <<Alloc("b"), Alloc("c"), Generic(<<"iter">>, "c"), Generic(<<"iter", "c">>, "b")>>, "b"),
          Copy("result", "out")>>

\* A buffer in DDR that stays.
Staged == <<Alloc("ddr"), Generic(<<"in">>, "ddr"), Alloc("a"), Copy("ddr", "a"), Alloc("b"),
            Generic(<<"a">>, "b"), Copy("b", "out")>>

Matrices == UNION {{<<OfMatrix(bits), Tile(bits, DDR), Tile(bits, VTCM)>>,
                    <<Tile(bits, DDR), OfMatrix(bits), Tile(bits, VTCM)>>} : bits \in {8, 16}}
Stacks == {<<OfStacks(8), Stack(8, DDR), Stack(8, VTCM)>>, <<Stack(8, DDR), OfStacks(8), Stack(8, VTCM)>>,
           <<OfStacks(16), OfStacks(16), Stack(16, VTCM)>>}
Rows_ == {<<Flat(<<7>>, 8, DDR), Flat(<<7>>, 8, DDR), Flat(<<7>>, 8, VTCM)>>}

MCPrograms ==
    {Function(t[1], t[2], t[3], info, body) :
        t \in Matrices \cup Stacks \cup Rows_, info \in {<<>>, Info}, body \in {OneTile, Staged}}
    \cup {Function(t[1], t[2], t[3], info, body) :
            t \in {<<OfMatrix(16), OfMatrix(16), Tile(16, VTCM)>>} \cup Rows_, info \in {<<>>, Info}, body \in {Chain, Loop}}

\* A mask: elements of one bit.
MCMasks == {Function(Flat(<<10>>, 1, DDR), Flat(<<10>>, 1, DDR), Flat(<<10>>, 1, VTCM), <<>>, OneTile)}
\* The source is written again before its copy is read.
MCOverwritten ==
    {Function(Tile(8, DDR), Tile(8, DDR), Tile(8, VTCM), <<>>,
              <<Alloc("ddr"), Copy("in", "ddr"), Generic(<<"in">>, "in"), Copy("ddr", "out")>>)}

=============================================================================
