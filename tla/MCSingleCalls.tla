---------------------------- MODULE MCSingleCalls ----------------------------
(***************************************************************************)
(* Small inputs for the passes.                                              *)
(***************************************************************************)
EXTENDS SingleCalls, TLC

\* Rows with every kind of dependence: zero, equal, multiples, sums.
Matrix == (0 :> (0 :> 1 @@ 1 :> 2 @@ 2 :> 0)) @@ (1 :> (0 :> 2 @@ 1 :> 4 @@ 2 :> 0))
          @@ (2 :> (0 :> 0 @@ 1 :> 1 @@ 2 :> 1)) @@ (3 :> (0 :> 1 @@ 1 :> 3 @@ 2 :> 1))
          @@ (4 :> (0 :> 0 @@ 1 :> 0 @@ 2 :> 0)) @@ (5 :> (0 :> 0 @@ 1 :> 0 @@ 2 :> -3))
Increasing(s) == \A i, j \in DOMAIN s : i < j => s[i] < s[j]
MCCircuits ==
    {<<Matrix, I>> : I \in {I \in UNION {[1 .. k -> 0 .. 5] : k \in 0 .. 3} : Increasing(I)}}

\* Four rows of two columns in groups of two.
Row(a, b) == 0 :> a @@ 1 :> b
MCSelections ==
    {<<0 :> r[1] @@ 1 :> r[2] @@ 2 :> r[3] @@ 3 :> r[4], 0 :> 0 @@ 1 :> 0 @@ 2 :> 1 @@ 3 :> g, p>> :
        r \in [1 .. 4 -> {Row(1, 0), Row(0, 1), Row(1, 1)}], g \in {1, 2}, p \in BOOLEAN}

Eq(row) == [eq |-> TRUE, row |-> row]
Ge(row) == [eq |-> FALSE, row |-> row]

Same == [dst |-> <<1, 1>>, src |-> <<1, 1>>, size |-> <<3, 3, 3, 3>>, perfect |-> 2,
         cons |-> {Eq(<<1, 0, -1, 0, 0>>), Eq(<<0, 1, 0, -1, 0>>)}]
Reversed == [Same EXCEPT !.cons = {Eq(<<1, 0, 1, 0, -2>>), Eq(<<0, 1, 0, -1, 0>>)}]
Transposed == [Same EXCEPT !.cons = {Eq(<<1, 0, 0, -1, 0>>), Eq(<<0, 1, -1, 0, 0>>)}]
OneRow == [dst |-> <<1>>, src |-> <<1, 1>>, size |-> <<3, 3, 3>>, perfect |-> 1, cons |-> {Eq(<<1, -1, 0, 0>>)}]
\* A convolution window of 2 over a row of the producer.
Window == [dst |-> <<1, 1, 1>>, src |-> <<1, 1>>, size |-> <<3, 3, 2, 4, 4>>, perfect |-> 2,
           cons |-> {Eq(<<1, 0, 1, -1, 0, 0>>), Eq(<<0, 1, 0, 0, -1, 0>>),
                     Ge(<<0, 0, 1, 0, 0, 0>>), Ge(<<0, 0, -1, 0, 0, 1>>)}]
Diagonal == [dst |-> <<1, 1>>, src |-> <<1, 1>>, size |-> <<4, 2, 3, 3>>, perfect |-> 2,
             cons |-> {Eq(<<1, -1, -1, 0, 0>>), Eq(<<0, 1, 0, -1, 0>>)}]
\* Row i of the producer is read from its i-th element on.
Shifted == [dst |-> <<1, 1>>, src |-> <<1, 1>>, size |-> <<3, 3, 3, 5>>, perfect |-> 2,
            cons |-> {Eq(<<1, 0, -1, 0, 0>>), Eq(<<1, 1, 0, -1, 0>>)}]
\* Both nests tiled by 2, a window of 2 across tiles.
Tiled == [dst |-> <<2, 1, 1>>, src |-> <<2, 1>>, size |-> <<4, 4, 2, 6, 6>>, perfect |-> 2,
          cons |-> {Eq(<<0, 1, 1, 0, -1, 0>>), Ge(<<0, 0, 1, 0, 0, 0>>), Ge(<<0, 0, -1, 0, 0, 1>>),
                    Ge(<<-1, 1, 0, 0, 0, 0>>), Ge(<<1, -1, 0, 0, 0, 1>>),
                    Ge(<<0, 0, 0, -1, 1, 0>>), Ge(<<0, 0, 0, 1, -1, 1>>)}]
MCFusions == {<<pb, r>> : pb \in {Same, Reversed, Transposed, OneRow, Window, Diagonal, Shifted, Tiled}, r \in BOOLEAN}

\* A reader that slides against the first loop of the consumer: the producer's
\* free loop is not kept inside its bounds.
MCSkewed == {<<[dst |-> <<1, 1, 1>>, src |-> <<1, 1>>, size |-> <<3, 3, 3, 4, 4>>, perfect |-> 1,
                cons |-> {Eq(<<1, 0, 1, -1, 0, 0>>), Eq(<<0, 1, 0, 0, -1, 0>>),
                          Ge(<<0, 0, 1, 0, 0, 0>>), Ge(<<0, 1, -1, 0, 0, -1>>)}], TRUE>>}

MCBands == {<<<<a, b>>, cache, inner, total>> :
              a \in {0, 6, 15}, b \in {3, 12}, cache \in {0, 8, 32, 40}, inner \in {0, 1, 2}, total \in {0, 64}}

Memref == [accesses : {<<<<>>>>, <<<<2>>, <<>>>>, <<<<0>>>>}, dim : {1, 3}, full : {2, 4}, shift : {0, 2},
           elt : {1, 2}, escapes : {FALSE}, object : {1}]
MCCacheSets ==
    {<<<<a, [b EXCEPT !.object = o], [a EXCEPT !.object = 3, !.elt = 1]>>, cache>> :
        a \in Memref, b \in {m \in Memref : m.elt = 2 /\ m.shift = 0},
        o \in {1, 2}, cache \in {2, 6, 10}}

MCTiledAccesses ==
    {[n |-> <<n>>, dim |-> <<dim>>, lbs |-> <<<<1, k>>>>, div |-> <<1>>, steps |-> <<2>>, trips |-> <<6>>,
      write |-> w] : n \in {4, 6}, dim \in {2, 3}, k \in {0, 1, 4}, w \in BOOLEAN}
    \cup {[n |-> <<4, 4>>, dim |-> <<2, d>>, lbs |-> <<<<1, 0, 0>>, <<0, 1, k>>>>, div |-> <<1, 1>>,
           steps |-> <<2, 2>>, trips |-> <<4, 4>>, write |-> w] : d \in {2, 3}, k \in {0, 1}, w \in BOOLEAN}
    \* A vector that a nest of two loops indexes by the outer one, and a matrix
    \* that one loop indexes by rows.
    \cup {[n |-> <<5>>, dim |-> <<d>>, lbs |-> <<<<1, 0, k>>>>, div |-> <<1>>, steps |-> <<2, 2>>,
           trips |-> <<4, 4>>, write |-> w] : d \in {2, 3}, k \in {0, 1}, w \in BOOLEAN}
    \cup {[n |-> <<4, 3>>, dim |-> <<d, 3>>, lbs |-> <<<<1, 0>>, <<0, 0>>>>, div |-> <<1, 1>>, steps |-> <<2>>,
           trips |-> <<6>>, write |-> w] : d \in {2, 3}, w \in BOOLEAN}

\* The remap drops the coefficients of loops beyond the rank of the memref: a
\* vector that the inner of two loops indexes, and rows by the inner of three.
MCInnerLoop == {[n |-> <<4>>, dim |-> <<2>>, lbs |-> <<<<0, 1, 0>>>>, div |-> <<1>>, steps |-> <<2, 2>>,
                 trips |-> <<4, 4>>, write |-> FALSE]}
MCMatmulOperand == {[n |-> <<4, 4>>, dim |-> <<2, 2>>, lbs |-> <<<<1, 0, 0, 0>>, <<0, 0, 1, 0>>>>, div |-> <<1, 1>>,
                     steps |-> <<2, 2, 2>>, trips |-> <<2, 2, 4>>, write |-> FALSE]}
\* A rank above the number of loops: the constant is taken for a coefficient of
\* the first index.
MCRowsFromOne == {[n |-> <<5, 3>>, dim |-> <<2, 3>>, lbs |-> <<<<1, 1>>, <<0, 0>>>>, div |-> <<1, 1>>, steps |-> <<2>>,
                   trips |-> <<4>>, write |-> FALSE]}
\* Tiles that begin at half the loop: the copies start at the undivided bound.
MCDivided == {[n |-> <<4>>, dim |-> <<2>>, lbs |-> <<<<1, 0>>>>, div |-> <<2>>, steps |-> <<2>>, trips |-> <<6>>,
               write |-> FALSE]}
\* A halo: the first tile starts one element before the memref.
MCHalo == {[n |-> <<6>>, dim |-> <<3>>, lbs |-> <<<<1, -1>>>>, div |-> <<1>>, steps |-> <<2>>, trips |-> <<6>>,
            write |-> FALSE]}
MCNone == {}

\* Operations with two operands in vectors of 8 bytes.
Op(ranges, red, maps, elems, combiner) ==
    [ranges |-> ranges, red |-> red, maps |-> maps, elems |-> elems, bodyElems |-> {},
     body |-> {combiner, "yield"}, combiner |-> combiner, init |-> "identity"]
Elementwise(ranges, e) == Op(ranges, {}, <<<<<<1>>, <<2>>>>, <<<<1>>, <<2>>>>>>, <<e, e>>, "mulf")
RowSum(ranges, e, c) == Op(ranges, {2}, <<<<<<1>>, <<2>>>>, <<<<1>>>>>>, <<e, "f32">>, c)
ColumnMax(ranges) == Op(ranges, {1}, <<<<<<1>>, <<2>>>>, <<<<2>>>>>>, <<"f16", "f16">>, "maxnumf")
Matmul(ranges) ==
    [Op(ranges, {3}, <<<<<<1>>, <<3>>>>, <<<<3>>, <<2>>>>, <<<<1>>, <<2>>>>>>, <<"f16", "f16", "f32">>, "addf")
        EXCEPT !.body = {"mulf", "addf", "yield"}]
\* A window that slides over a row, and a row that is the same for all.
Sliding(ranges) == Op(ranges, {2}, <<<<<<1, 2>>>>, <<<<2>>>>, <<<<1>>>>>>, <<"f16", "f16", "f32">>, "addf")
Broadcast(ranges) == Op(ranges, {}, <<<<<<>>, <<2>>>>, <<<<1>>, <<2>>>>>>, <<"i8", "i8">>, "mulf")
Tensor(ranges) == Op(ranges, {}, <<<<<<1>>, <<2>>, <<3>>>>, <<<<1>>, <<2>>, <<3>>>>>>, <<"f16", "f16">>, "mulf")

MCCroutonShape == [f16 |-> [loops |-> 3, tile |-> <<2, 2>>]]
Ops == {Elementwise(<<a, b>>, e) : a \in 1 .. 5, b \in 1 .. 9, e \in {"f16", "f32"}}
       \cup {RowSum(<<a, b>>, e, c) : a \in {1, 3}, b \in 1 .. 9, e \in {"f16", "f32"}, c \in {"addf", "maxnumf"}}
       \cup {ColumnMax(<<a, b>>) : a \in {2, 5}, b \in {3, 4, 7}}
       \cup {Matmul(<<2, b, c>>) : b \in {2, 4}, c \in {3, 4, 6}}
       \cup {Sliding(<<a, b>>) : a \in {4, 6}, b \in {2, 3}}
       \cup {Broadcast(<<a, b>>) : a \in {2, 4}, b \in {6, 9}}
       \cup {Tensor(<<a, b, 2>>) : a \in {4, 6}, b \in {2, 3}}
Sums == {op \in Ops : op.red = {} \/ op.combiner = "addf" \/ Len(op.ranges) \notin op.red}
MCTilings == (Ops \X BOOLEAN \X {TRUE}) \cup (Sums \X BOOLEAN \X {FALSE})
Scalar(n, init, c) == [Op(<<n>>, {1}, <<<<<<1>>>>, <<<<>>>>>>, <<"f32", "f32">>, c) EXCEPT !.init = init]
MCReductions == {Scalar(n, i, c) : n \in {1, 2, 3, 6, 8}, i \in {"identity", "value"}, c \in {"addf", "maxnumf"}}
                \cup {Scalar(n, "constant", "maxnumf") : n \in {1, 4}}
MCSlicings == {<<op, k>> : op \in {Elementwise(<<a, 2>>, "f32") : a \in 1 .. 24} \cup {RowSum(<<5, 2>>, "f32", "addf")}
                                   \cup {ColumnMax(<<4, 3>>)},
                           k \in 1 .. 6}
MCVTCMTilings == (Ops \X {<<>>} \X {8, 20, 40, 64, 400}) \cup (Ops \X {<<3, 0, 2, 3>>} \X {40})

Conv(rows, chans, window, tiles, budget) ==
    [rows |-> rows, chans |-> chans, window |-> window, depth |-> 2, tiles |-> tiles, budget |-> budget]
\* Those of which no result is dropped; the pass leaves alone what is no crouton.
Covered(conv) ==
    LET tiles == CT!TileSizes(conv)
    IN  tiles # <<>> => CT!CutsCroutons(conv, tiles) /\ CT!KeepsEveryPiece(conv, tiles)
MCConvolutions ==
    {conv \in {Conv(r, c, w, <<tr, tc>>, 0) : r \in {4, 7, 8, 9}, c \in {4, 5, 7, 8}, w \in 1 .. 3,
                                              tr \in {0, 2, 3, 4, 16}, tc \in {2, 4, 8}} : Covered(conv)}
    \cup {Conv(r, 3, w, <<tr, 0>>, 0) : r \in {8, 9}, w \in 1 .. 3, tr \in {2, 4}}
    \cup {Conv(8, 8, 1, <<0, 0>>, b) : b \in {150, 300, 1000}}

\* A loop of reductions is not asked to be threads.
MCThreadings ==
    {<<op, b, t, m>> : op \in Ops, b \in {0}, t \in {2, 3, 4}, m \in {1, 40}}
    \cup {<<op, b, 4, 1>> : op \in {o \in Ops : 1 \notin o.red}, b \in {1, 2}}

\* Constants of rank 3 whose outer dimensions are rotated, with and without a
\* padding value; a tile that is not known stops the fold.
Packing(pos, tiles, perm, pad, static) ==
    [op |-> "pack", pos |-> pos, tiles |-> tiles, perm |-> perm, pad |-> pad, static |-> static]
Unpacking(p, shape) == [p EXCEPT !.op = "unpack"] @@ [shape |-> shape]
Transposing(perm) == [op |-> "transpose", perm |-> perm, static |-> TRUE]
PaddingBy(low, high) == [op |-> "pad", low |-> low, high |-> high, value |-> 9, static |-> TRUE]
Reshaping(op, shape) == [op |-> op, shape |-> shape, static |-> TRUE]
Packings == {Packing(pos, [j \in DOMAIN pos |-> tile], perm, pad, s) :
                pos \in {<<1>>, <<3>>, <<3, 1>>, <<1, 2, 3>>}, tile \in {2, 3}, perm \in {<<>>, <<2, 3, 1>>, <<1, 3, 2>>},
                pad \in {<<>>, <<5>>}, s \in BOOLEAN}
Cube == [shape |-> <<4, 3, 2>>, at |-> [k \in 1 .. 24 |-> <<k, TRUE>>]]
MCFoldings ==
    {<<Cube, <<p, Unpacking(p, <<4, 3, 2>>)>> >> : p \in Packings}
    \cup {<<Cube, <<PaddingBy(<<0, 1, 0>>, <<2, 0, 1>>), p>> >> : p \in Packings}
    \cup {<<Cube, <<Transposing(<<3, 1, 2>>), Reshaping("collapse", <<8, 3>>), Transposing(<<2, 1>>),
                     Reshaping("expand", <<3, 4, 2>>), p>> >> : p \in Packings}
\* Two packs of the same dimensions.
MCPairings ==
    {<<Cube, <<pq[1], Unpacking(pq[1], <<4, 3, 2>>), pq[2], Unpacking(pq[2], <<4, 3, 2>>), Transposing(<<2, 1, 3>>)>> >> :
        pq \in {pq \in Packings \X Packings :
                    /\ pq[1].static /\ pq[2].static /\ pq[1].pos = pq[2].pos
                    /\ pq[1].pad = <<>> /\ pq[2].pad = <<5>>}}
MCScanInputs == (1 .. 5) \X BOOLEAN
MCSumInputs == {<<shape, axis>> : shape \in {<<1>>, <<4>>}, axis \in {1}}
            \cup {<<shape, axis>> : shape \in {<<2, 3>>, <<3, 3>>, <<2, 1>>}, axis \in 1 .. 2}
            \cup {<<<<2, 3, 2>>, axis>> : axis \in 1 .. 3}

\* Shapes of one and of three rows, with and without padding between them, in
\* either order in memory.
MCMemory == 0 .. 32
ShapesAt(base) ==
    {b \in [base : {base}, stride : 1 .. 3, numRegions : {1, 3}, regionSizeBytes : 1 .. 3] :
        b.regionSizeBytes <= b.stride}
MCCopies == [dest : ShapesAt(11), src : ShapesAt(0) \cup ShapesAt(22), n : {0, 2, 3, 5, 9}]

\* Croutons of 2 x 4 x 4 and 2 x 3 x 4.
MCF16Crouton == <<2, 2, 4, 2>>
MCInt8Crouton == <<2, 3, 4>>

\* Convolutions of every type on images that do and do not fill their croutons;
\* strides and dilations, and results with other users, stop the pass.
Numbered(shape) == CR!Input(shape, 0)
ZeroTensor(shape) == [CR!Input(shape, 0) EXCEPT !.at = [k \in DOMAIN @ |-> <<0, TRUE>>]]
SeededConv(type, image, f, window, strides, dilations, users) ==
    LET Extent(i) == (image[i] - 1 - (window[i] - 1) * dilations[i]) \div strides[i] + 1
    IN  [type |-> type, image |-> Numbered(<<1>> \o image),
         filter |-> Numbered(IF type = "f16" THEN <<f>> \o window \o <<image[3]>> ELSE window \o <<image[3], f>>),
         init |-> ZeroTensor(<<1, Extent(1), Extent(2), f>>),
         strides |-> strides, dilations |-> dilations, users |-> users]
MCSeededConvs ==
    {SeededConv(t, image, f, window, <<1, 1>>, <<1, 1>>, u) :
        t \in {"f16", "i8"}, image \in {<<2, 4, 4>>, <<3, 5, 5>>, <<3, 3, 2>>}, f \in {4, 5},
        window \in {<<1, 1>>, <<2, 2>>, <<1, 3>>}, u \in {<<1, 1, 1>>, <<2, 1, 1>>, <<1, 2, 1>>}}
    \cup {SeededConv(t, <<3, 5, 3>>, 2, <<2, 2>>, s, d, <<1, 1, 1>>) :
            t \in {"f16", "i8"}, s \in {<<1, 1>>, <<1, 2>>}, d \in {<<1, 1>>, <<1, 2>>}}
\* A convolution that adds to an initial value.
MCBias == {[SeededConv("f16", <<2, 4, 4>>, 4, <<1, 1>>, <<1, 1>>, <<1, 1>>, <<1, 1, 1>>)
              EXCEPT !.init = Numbered(@.shape)]}

MatmulOf(batch, M, K, N, elems, from) ==
    [a |-> Numbered(batch \o <<M, K>>), b |-> Numbered(batch \o <<K, N>>),
     c |-> IF from = "zero" THEN ZeroTensor(batch \o <<M, N>>) ELSE Numbered(batch \o <<M, N>>),
     elemA |-> elems[1], elemB |-> elems[2]]
MCMatmuls ==
    {MatmulOf(batch, M, K, N, elems, c) :
        batch \in {<<>>, <<1>>, <<2>>}, M \in {1, 3, 4, 6}, K \in {1, 5}, N \in {2, 5},
        elems \in {<<"f16", "f16">>, <<"i8", "i8">>, <<"f16", "i8">>}, c \in {"zero", "value"}}

MCCroutonInputs ==
    [shape : {<<1, 2, 4, 4>>, <<2, 3, 5, 5>>, <<1, 1, 9, 1>>, <<3, 4>>}, type : {"f16", "f32"},
     static : BOOLEAN, fromBuffer : BOOLEAN]
MCLayoutChanges == {<<Cube, p>> : p \in {p \in Packings : p.static}}
MCResources == {<<Numbered(shape), perm, type>> : shape \in {<<2, 3>>, <<3, 1>>, <<4, 4>>},
                                                  perm \in {<<1, 2>>, <<2, 1>>}, type \in {"f16", "f32"}}

\* A scalar and a tensor; constants, operations of scalars that need several
\* rounds, and operations that read the output.
BodyOp(name, operands) == [name |-> name, operands |-> operands, scalar |-> name # "yield"]
Inputs == <<[scalar |-> TRUE, term |-> <<"s">>], [scalar |-> FALSE, term |-> <<"t">>]>>
FirstOps == {BodyOp("constant", <<>>), BodyOp("rsqrt", <<<<"arg", 1>>>>), BodyOp("rsqrt", <<<<"arg", 2>>>>)}
Operands == {<<"arg", 1>>, <<"arg", 2>>, <<"arg", 3>>, <<"op", 1>>, <<"outer", 1>>}
MCGenerics ==
    {[ins |-> Inputs,
      body |-> <<o, BodyOp("mulf", <<a, b>>), BodyOp("addf", <<<<"op", 2>>, c>>), BodyOp("yield", <<y>>)>>] :
        o \in FirstOps, a \in Operands, b \in Operands, c \in Operands, y \in {<<"op", 1>>, <<"op", 3>>}}

MCUnrollings ==
    [lb : {0, 2}, ub : 0 .. 8, step : 0 .. 3, innermost : BOOLEAN, iterArgs : BOOLEAN] \X {0, 1, 2, 3, 4, 17}
MCPowers == {-2, 1, 3} \X (-6 .. 6) \X {2, 5} \X BOOLEAN

\* One whole tile of rows and a rest; the sizes the pass computes itself.
MCOneWholeTile == {Conv(6, 2, 1, <<4, 0>>, 0)}
MCBothRests == {Conv(4, 5, 1, <<2, 2>>, 0)}
MCComputedSizes == {Conv(12, 2, 1, <<0, 0>>, 40)}

=============================================================================
