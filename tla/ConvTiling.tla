----------------------------- MODULE ConvTiling -----------------------------
(***************************************************************************)
(* Convolutions on croutons (SeedLayoutConversions.cpp, ConvTilingPass.cpp,  *)
(* PreprocessTiledConv2D.cpp): image, filter and result are packed in tiles   *)
(* of CroutonHeight rows and CroutonDepth channels, conv-tiling cuts the      *)
(* convolution in pieces of rows and output channels, and                   *)
(* preprocess-tiled-conv2d makes the pieces work on packed slices.           *)
(*                                                                         *)
(* A convolution has its output rows and channels, the rows of its window,   *)
(* the input channels (depth), the tile sizes of the user (0: none) and the   *)
(* VTCM budget.  Batch and width are never cut and are left out.  An element   *)
(* of the result is the image rows and the filter it was computed from.      *)
(***************************************************************************)
EXTENDS Integers, Sequences, SequencesExt

CONSTANTS CroutonHeight, CroutonDepth, VectorBytes, CroutonShape

LT == INSTANCE LinalgTiling

Outputs(conv) == (0 .. conv.rows - 1) \X (0 .. conv.chans - 1)
Conv2D(conv) == [rc \in Outputs(conv) |-> <<[w \in 0 .. conv.window - 1 |-> rc[1] + w], rc[2]>>]
\* Neither a zero nor the padding of a tile is the result of anything.
Nothing == <<>>
Zeros(conv) == [rc \in Outputs(conv) |-> Nothing]

\* The loops of linalg.conv_2d_nhwc_fhwc: batch, rows, channels, window, depth.
ConvOp(conv) ==
    [ranges |-> <<1, conv.rows, conv.chans, conv.window, conv.depth>>, red |-> {4, 5},
     maps |-> <<<<<<1>>, <<2, 4>>, <<5>>>>, <<<<3>>, <<4>>, <<5>>>>, <<<<1>>, <<2>>, <<3>>>>>>,
     elems |-> <<"f16", "f16", "f16">>, bodyElems |-> {}, body |-> {"mulf", "addf", "yield"},
     combiner |-> "addf", init |-> "identity"]

-----------------------------------------------------------------------------
\* conv-tiling.

\* The sizes of the pieces, or <<>> for an operation the pattern leaves alone:
\* the user's must be multiples of the crouton.
TileSizes(conv) ==
    LET RowsAndChannels(computed) == IF computed = <<>> THEN <<>> ELSE <<computed[2], computed[3]>>
    IN  IF conv.tiles = <<0, 0>> THEN RowsAndChannels(LT!determineTileSizes(ConvOp(conv), conv.budget, <<2, 3>>))
        ELSE IF conv.tiles[1] % CroutonHeight # 0 \/ conv.tiles[2] % CroutonDepth # 0 THEN <<>>
        ELSE <<IF conv.tiles[1] = 0 THEN conv.rows ELSE conv.tiles[1],
               IF conv.tiles[2] = 0 THEN conv.chans ELSE conv.tiles[2]>>

Segment(first, count, size) == [first |-> first, count |-> count, size |-> size, static |-> TRUE]
\* A peeled loop: the whole tiles, then the rest.  One whole tile is no loop.
Peeled(range, tile) ==
    IF range <= tile THEN <<Segment(0, 1, range)>>
    ELSE <<Segment(0, range \div tile, tile)>>
         \o (IF range % tile = 0 THEN <<>> ELSE <<Segment((range \div tile) * tile, 1, range % tile)>>)

\* A loop in the last iteration of a peeled one is not peeled: its last
\* iteration has a size known only at run time.
Channels(conv, tiles, rows) ==
    LET InRest(whole) ==
            IF Len(whole) = 2 THEN <<[Segment(0, whole[1].count + 1, tiles[2]) EXCEPT !.static = FALSE]>>
            ELSE whole
    IN  IF rows.first > 0 THEN InRest(Peeled(conv.chans, tiles[2])) ELSE Peeled(conv.chans, tiles[2])

\* What stands at the top level of the function, in order: a nest over rows
\* with the channels as its body, or one part of the channels at a time.
Items(conv, tiles) ==
    LET ItemsOf(rows, chans) ==
            IF rows.count > 1 THEN <<[rows |-> rows, body |-> chans]>>
            ELSE [i \in DOMAIN chans |-> [rows |-> rows, body |-> <<chans[i]>>]]
        segments == Peeled(conv.rows, tiles[1])
        Of(segment) == ItemsOf(segment, Channels(conv, tiles, segment))
    IN  IF Len(segments) = 1 THEN Of(segments[1]) ELSE Of(segments[1]) \o Of(segments[2])

IsLoop(item) == item.rows.count > 1 \/ item.body[1].count > 1

\* Item i is followed by a pair of casts.  The faulty variant casts after nothing.
genPackUnpackOpPairNever(items, i) == FALSE
genPackUnpackOpPair(items, i) == IsLoop(items[i])

-----------------------------------------------------------------------------
\* preprocess-tiled-conv2d.

\* Element k of an unpacked slice that starts at offset: the packed slice
\* starts at the tile that holds the offset.  The faulty variant takes the next.
ElementUp(offset, k, tile) == LT!CeilDivide(offset, tile) * tile + k
Element(offset, k, tile) == (offset \div tile) * tile + k

Rounded(size, tile) == LT!CeilDivide(size, tile) * tile

getPackedImageSlice(conv, offset, k) ==
    LET row == Element(offset, k, CroutonHeight)
    IN  IF row < conv.rows + conv.window - 1 THEN row ELSE -1
getPackedFilterSlice(conv, offset, k) ==
    LET chan == Element(offset, k, CroutonDepth)
    IN  IF chan < conv.chans THEN chan ELSE -1

\* The pieces of a nest over rows and channels, in the order they run.
Pieces(rows, chans) ==
    [k \in 1 .. rows.count * chans.count |->
        [row |-> rows.first + ((k - 1) \div chans.count) * rows.size,
         chan |-> chans.first + ((k - 1) % chans.count) * chans.size]]

\* The elements a piece of height rows and depth channels has from row and chan.
Region(conv, row, height, chan, depth) ==
    {rc \in Outputs(conv) : rc[1] - row \in 0 .. height - 1 /\ rc[2] - chan \in 0 .. depth - 1}

\* One piece on packed slices: the croutons it writes are written as a whole.
insertOutputSlice(conv, piece, height, depth) ==
    LET Top == Element(piece.row, 0, CroutonHeight)
        Left == Element(piece.chan, 0, CroutonDepth)
        Value(i, j) ==
            IF i < height /\ j < depth
            THEN <<[w \in 0 .. conv.window - 1 |-> getPackedImageSlice(conv, piece.row, i + w)],
                   getPackedFilterSlice(conv, piece.chan, j)>>
            ELSE Nothing
    IN  [rc \in Region(conv, Top, Rounded(height, CroutonHeight), Left, Rounded(depth, CroutonDepth)) |->
            Value(rc[1] - Top, rc[2] - Left)]

\* The item is transformed: a loop on static slices of the packed tensors, or
\* the last piece of a tiled convolution, whose result only the cast uses.
isWrappedConv2DOp(items, i) ==
    /\ Last(items[i].body).static
    /\ IsLoop(items[i]) \/ (Len(items) > 1 /\ i = Len(items))

\* A tensor of zeros for one piece, in whole croutons.
SliceZeros(conv, item) ==
    [rc \in Region(conv, 0, Rounded(item.rows.size, CroutonHeight),
                   0, Rounded(Last(item.body).size, CroutonDepth)) |-> Nothing]

\* What a transformed item starts from: the packed tensor of the cast before
\* it; else zeros, of the size of the result for a loop, and of its own size for
\* a last piece.
initPackedOut(conv, items, i, out) ==
    IF i > 1 /\ genPackUnpackOpPair(items, i - 1) THEN out
    ELSE IF IsLoop(items[i]) THEN Zeros(conv)
    ELSE SliceZeros(conv, items[i])

\* A loop whose body is more than a loop is taken for the innermost: the
\* convolution its yield comes from is the only one that is kept.  The last
\* piece to write an element decides.
transformTiledConv2DLoop(conv, items, i, out) ==
    LET rows == items[i].rows
        chans == Last(items[i].body)
        pieces == Pieces(rows, chans)
        Slice(k) == insertOutputSlice(conv, pieces[k], rows.size, chans.size)
        Writers(rc) == {k \in DOMAIN pieces : rc \in DOMAIN Slice(k)}
        packedOut == initPackedOut(conv, items, i, out)
    IN  [rc \in DOMAIN packedOut |->
            IF Writers(rc) = {} THEN packedOut[rc] ELSE Slice(Max(Writers(rc)))[rc]]

\* Pieces that have not been transformed write the convolution of their slices,
\* whatever their order.
Untransformed(conv, item, out) ==
    LET Written ==
            UNION {LET pieces == Pieces(item.rows, item.body[b])
                   IN  UNION {Region(conv, pieces[k].row, item.rows.size, pieces[k].chan, item.body[b].size) :
                                k \in DOMAIN pieces} : b \in DOMAIN item.body}
    IN  [rc \in Outputs(conv) |-> IF rc \in Written THEN Conv2D(conv)[rc] ELSE out[rc]]

\* One item after the other, from zeros.
Rewritten(conv, items, i, out) ==
    IF isWrappedConv2DOp(items, i) THEN transformTiledConv2DLoop(conv, items, i, out)
    ELSE Untransformed(conv, items[i], out)
Preprocessed(conv, items) ==
    FoldLeft(LAMBDA out, i : Rewritten(conv, items, i, out), Zeros(conv), [i \in DOMAIN items |-> i])

\* The convolution after both passes.
PreprocessTiledConv2D(conv) ==
    LET tiles == TileSizes(conv)
    IN  IF tiles = <<>> THEN Conv2D(conv) ELSE Preprocessed(conv, Items(conv, tiles))

-----------------------------------------------------------------------------
\* Where a loop is cut, its tiles are whole croutons.
CutsCroutons(conv, tiles) ==
    /\ conv.rows <= tiles[1] \/ tiles[1] % CroutonHeight = 0
    /\ conv.chans <= tiles[2] \/ tiles[2] % CroutonDepth = 0

\* No result is dropped: channels leave a rest only when every nest is of
\* channels alone, and the whole tiles before the last rest are a loop.
KeepsEveryPiece(conv, tiles) ==
    LET LeavesRest(range, tile) == range > tile /\ range % tile # 0
        Whole(range, tile) == range \div tile
    IN  /\ LeavesRest(conv.rows, tiles[1]) =>
              Whole(conv.rows, tiles[1]) > 1 \/ conv.chans > tiles[2]
        /\ LeavesRest(conv.chans, tiles[2]) =>
              \/ conv.rows <= tiles[1] /\ Whole(conv.chans, tiles[2]) > 1
              \/ LeavesRest(conv.rows, tiles[1]) /\ Whole(conv.rows, tiles[1]) = 1

=============================================================================
