------------------------------ MODULE Croutons ------------------------------
(***************************************************************************)
(* Conversions to the layouts of the matrix unit and of vectors: croutons    *)
(* around convolutions and generics (PackUnpackUtils.cpp,                    *)
(* SeedLayoutConversions.cpp, ForceHVXCrouton.cpp), matmuls that become      *)
(* convolutions (MatmulToConvPass.cpp), layouts of memrefs                   *)
(* (ConvertLayoutPass.cpp) and transposed resources                          *)
(* (FoldResourceTransposePass.cpp).                                          *)
(*                                                                           *)
(* An image is n, h, w, c; the filter of an f16 convolution f, h, w, c, of   *)
(* a quantized one h, w, c, f.  32 is the channels of a crouton.             *)
(***************************************************************************)
EXTENDS Tensors, FiniteSetsExt

CONSTANTS F16_CROUTON_SHAPE,    \* rows, pairs of columns, channels, 2
          INT8_CROUTON_SHAPE    \* rows, columns, channels

Channels == F16_CROUTON_SHAPE[3]
F16Tiles == <<F16_CROUTON_SHAPE[1], F16_CROUTON_SHAPE[2] * F16_CROUTON_SHAPE[4], Channels>>

Blocks(shape, tiles) == <<shape[1]>> \o [i \in 1 .. 3 |-> CeilDiv(shape[i + 1], tiles[i])]
getTempPacked16BitElementType(shape) == Blocks(shape, F16Tiles) \o F16Tiles
getPacked16BitElementType(shape) == Blocks(shape, F16Tiles) \o F16_CROUTON_SHAPE
getPacked8BitElementType(shape) == Blocks(shape, INT8_CROUTON_SHAPE) \o INT8_CROUTON_SHAPE
getPackedFilter16BitElementType(shape) ==
    <<CeilDiv(shape[1], Channels), CeilDiv(shape[4], Channels), shape[2], shape[3],
      Channels \div 2, Channels, 2>>

\* A pack into, and an unpack from, a type that was computed apart.
createPackOp(pos, tiles, pad, type) ==
    [op |-> "pack", pos |-> pos, tiles |-> tiles, perm |-> <<>>, pad |-> pad, type |-> type]
createUnpackOp(pos, tiles, shape) ==
    [op |-> "unpack", pos |-> pos, tiles |-> tiles, perm |-> <<>>, shape |-> shape]
Reshape(shape) == [op |-> "expand", shape |-> shape]
Transpose(perm, type) == [op |-> "transpose", perm |-> perm, type |-> type]

HWC == <<2, 3, 4>>
buildI8PackOps(shape) == <<createPackOp(HWC, INT8_CROUTON_SHAPE, <<0>>, getPacked8BitElementType(shape))>>
unpackI8Output(shape) == <<createUnpackOp(HWC, INT8_CROUTON_SHAPE, shape)>>
buildF16PackOps(shape) ==
    <<createPackOp(HWC, F16Tiles, <<0>>, getTempPacked16BitElementType(shape)),
      createPackOp(<<6>>, <<2>>, <<>>, getPacked16BitElementType(shape))>>

unpackF16Output(shape) ==
    <<createUnpackOp(<<6>>, <<2>>, getTempPacked16BitElementType(shape)), createUnpackOp(HWC, F16Tiles, shape)>>

\* Pad, reshape and transpose.
packF16Conv2DFilter(shape) ==
    LET toFull(d) == (Channels - (shape[d] % Channels)) % Channels
        padded == <<shape[1] + toFull(1), shape[2], shape[3], shape[4] + toFull(4)>>
    IN  <<[op |-> "pad", low |-> <<0, 0, 0, 0>>, high |-> <<toFull(1), 0, 0, toFull(4)>>, value |-> 0],
          Reshape(<<padded[1] \div Channels, Channels, padded[2], padded[3],
                    padded[4] \div Channels, Channels \div 2, 2>>),
          Transpose(<<1, 5, 3, 4, 6, 2, 7>>, getPackedFilter16BitElementType(shape))>>

\* None of them is a generic.
Compute(t, ops) == FoldLeft(Moved, t, ops)

\* Every operation makes the type it was given.
WellTyped(shape, ops) ==
    LET Typed(op, before) ==
            CASE op.op = "unpack" -> PackedShape(op.shape, op) = before
              [] op.op = "expand" -> Product(op.shape) = Product(before)
              [] op.op = "pad" -> TRUE
              [] OTHER -> ShapeAfter(before, op) = op.type
    IN  \A i \in DOMAIN ops : Typed(ops[i], ShapeBefore(shape, ops, i))

-----------------------------------------------------------------------------
\* Convolutions: image, filter and initial value as tensors, the element type,
\* strides and dilations, and the users of the result, of its scast and of its
\* dcast.

FilterAt(conv, f, i, j, c) == IF conv.type = "f16" THEN <<f, i, j, c>> ELSE <<i, j, c, f>>
Window(conv) == IF conv.type = "f16" THEN <<conv.filter.shape[2], conv.filter.shape[3]>>
                ELSE <<conv.filter.shape[1], conv.filter.shape[2]>>

\* Filter positions and channels.
Taps(conv, channels) == (0 .. Window(conv)[1] - 1) \X (0 .. Window(conv)[2] - 1) \X (0 .. channels - 1)
ImageAt(conv, x, t) ==
    <<x[1], x[2] * conv.strides[1] + t[1] * conv.dilations[1], x[3] * conv.strides[2] + t[2] * conv.dilations[2], t[3]>>

\* linalg.conv_2d.
Conv2D(conv) ==
    LET Element(x) ==
            <<FoldSet(LAMBDA t, sum : sum + Load(conv.image, ImageAt(conv, x, t))[1]
                                            * Load(conv.filter, FilterAt(conv, x[4], t[1], t[2], t[3]))[1],
                      Load(conv.init, x)[1], Taps(conv, conv.image.shape[4])), TRUE>>
    IN  Build(conv.init.shape, Element)

\* Where the unit looks for an element of an image and of a filter.
F16Place(x) ==
    [i \in 1 .. 4 |-> IF i = 1 THEN x[1] ELSE x[i] \div F16Tiles[i - 1]]
        \o <<x[2] % F16Tiles[1], (x[3] % F16Tiles[2]) \div 2, x[4] % Channels, x[3] % 2>>
FilterPlace(f, i, j, c) == <<f \div Channels, c \div Channels, i, j, (c % Channels) \div 2, f % Channels, c % 2>>
I8Place(x) ==
    [i \in 1 .. 4 |-> IF i = 1 THEN x[1] ELSE x[i] \div INT8_CROUTON_SHAPE[i - 1]]
        \o [i \in 1 .. 3 |-> x[i + 1] % INT8_CROUTON_SHAPE[i]]

PackedOut(conv) == IF conv.type = "f16" THEN getPacked16BitElementType(conv.init.shape)
                   ELSE getPacked8BitElementType(conv.init.shape)

\* The convolution of the unit, whole croutons of channels at a time, from zero.
\* Lanes no output element has are left as they were.
PackedConv(conv, image, filter) ==
    LET f16 == conv.type = "f16"
        channels == IF f16 THEN CeilDiv(conv.image.shape[4], Channels) * Channels ELSE conv.image.shape[4]
        Place(x) == IF f16 THEN F16Place(x) ELSE I8Place(x)
        FilterLane(f, t) == IF f16 THEN Load(filter, FilterPlace(f, t[1], t[2], t[3]))
                            ELSE Load(filter, FilterAt(conv, f, t[1], t[2], t[3]))
        Element(x) ==
            FoldSet(LAMBDA t, sum : sum + Load(image, Place(ImageAt(conv, x, t)))[1] * FilterLane(x[4], t)[1],
                    0, Taps(conv, channels))
        Blank(packed) == [shape |-> packed, at |-> [l \in 1 .. Product(packed) |-> <<-5, FALSE>>]]
        Store(t, x) == [t EXCEPT !.at[Ravel(t.shape, Place(x)) + 1] = <<Element(x), TRUE>>]
        Elements(out) == [k \in 1 .. Product(out) |-> Unravel(out, k - 1)]
    IN  FoldLeft(Store, Blank(PackedOut(conv)), Elements(conv.init.shape))

\* scast, dcast and qcast, element by element.
Requantized(t) == [t EXCEPT !.at = Evaluated([k \in DOMAIN t.at |-> <<t.at[k][1] + 3, t.at[k][2]>>])]

-----------------------------------------------------------------------------
\* SeedLayoutConversions.cpp.

hasUnitStrideAndDilation(conv) == conv.strides = <<1, 1>> /\ conv.dilations = <<1, 1>>
isCandidate16BitElements(conv) == conv.type = "f16" /\ hasUnitStrideAndDilation(conv)
hasQuantChain(conv) == conv.users = <<1, 1, 1>>
isCandidate8BitElements(conv) == conv.type = "i8" /\ hasUnitStrideAndDilation(conv) /\ hasQuantChain(conv)

insertLayoutTransformsF16(conv) ==
    [image |-> buildF16PackOps(conv.image.shape), filter |-> packF16Conv2DFilter(conv.filter.shape),
     out |-> unpackF16Output(conv.init.shape)]
insertLayoutTransformsI8Q(conv) ==
    [image |-> buildI8PackOps(conv.image.shape), filter |-> <<>>, out |-> unpackI8Output(conv.init.shape)]

Around(conv) ==
    IF isCandidate16BitElements(conv) THEN {insertLayoutTransformsF16(conv)}
    ELSE IF isCandidate8BitElements(conv) THEN {insertLayoutTransformsI8Q(conv)} ELSE {}

\* What the end of the chain leaves, and what other users along it see: the
\* uses of an f16 convolution are all replaced.
Results(conv, out) ==
    [result |-> IF conv.type = "f16" THEN out ELSE Requantized(out),
     other |-> IF conv.type = "f16" \/ hasQuantChain(conv) THEN <<>> ELSE out]

Packed(conv, ops) ==
    LET out == PackedConv(conv, Compute(conv.image, ops.image), Compute(conv.filter, ops.filter))
    IN  [Results(conv, out) EXCEPT !.result = Compute(@, ops.out)]

SeedLayoutConversions(conv) ==
    IF Around(conv) = {} THEN Results(conv, Conv2D(conv)) ELSE Packed(conv, CHOOSE o \in Around(conv) : TRUE)

PackedConvIsSame(conv) ==
    /\ SeedLayoutConversions(conv) = Results(conv, Conv2D(conv))
    /\ \A ops \in Around(conv) :
          /\ WellTyped(conv.image.shape, ops.image)
          /\ WellTyped(conv.filter.shape, ops.filter)
          /\ WellTyped(PackedOut(conv), ops.out)

-----------------------------------------------------------------------------
\* MatmulToConvPass.cpp: matrices a, b and c, or batches of them.

factorize(value) ==
    LET factor == CHOOSE f \in {1, 2, 4} : value % f = 0 /\ \A g \in {1, 2, 4} : value % g = 0 => g <= f
    IN  <<factor, value \div factor>>

validateElementTypes(m) == m.elemA = m.elemB /\ m.elemA \in {"i8", "f16"}
\* M, K and N; nothing when the pass does not take the matmul.
computeConversionParams(m) ==
    LET a == m.a.shape
        b == m.b.shape
        d == Len(a) - 2
    IN  IF ~validateElementTypes(m) \/ a[d + 2] # b[d + 1] \/ (d = 1 /\ (a[1] # b[1] \/ a[1] # 1)) THEN {}
        ELSE {[M |-> a[d + 1], K |-> a[d + 2], N |-> b[d + 2]]}

\* The faulty variant reshapes b as it is.
convertMatmulToConv2DUntransposed(m, p) ==
    LET Rows(width) == <<1>> \o factorize(p.M) \o <<width>>
        As(t, shape) == [t EXCEPT !.shape = shape]
    IN  [type |-> "f16", strides |-> <<1, 1>>, dilations |-> <<1, 1>>, users |-> <<1, 0, 0>>,
         image |-> As(m.a, Rows(p.K)), filter |-> As(m.b, <<p.N, 1, 1, p.K>>), init |-> As(m.c, Rows(p.N))]

\* A convolution with its filter as f, h, w, c, whatever the element type.
convertMatmulToConv2D(m, p) ==
    LET Rows(width) == <<1>> \o factorize(p.M) \o <<width>>
        Matrix(t, rows, columns) == [t EXCEPT !.shape = <<rows, columns>>]
    IN  [type |-> "f16", strides |-> <<1, 1>>, dilations |-> <<1, 1>>, users |-> <<1, 0, 0>>,
         image |-> Compute(Matrix(m.a, p.M, p.K), <<Reshape(Rows(p.K))>>),
         filter |-> Compute(Matrix(m.b, p.K, p.N),
                            <<Transpose(<<2, 1>>, <<p.N, p.K>>), Reshape(<<p.N, 1, 1, p.K>>)>>),
         init |-> Compute(Matrix(m.c, p.M, p.N), <<Reshape(Rows(p.N))>>)]

\* linalg.matmul and linalg.batch_matmul.
Matmul(m) ==
    LET d == Len(m.a.shape) - 2
        Element(x) == <<FoldSet(LAMBDA k, sum : sum + Load(m.a, SubSeq(x, 1, d + 1) \o <<k>>)[1]
                                                      * Load(m.b, SubSeq(x, 1, d) \o <<k, x[d + 2]>>)[1],
                                Load(m.c, x)[1], 0 .. m.a.shape[d + 2] - 1), TRUE>>
    IN  Build(m.c.shape, Element)

\* The convolution, and the same with the layouts seeded around it: those take
\* f16 and begin from zero.
MatmulToConvIsSame(m) ==
    \A p \in computeConversionParams(m) :
        \E conv \in {convertMatmulToConv2D(m, p)} :
            /\ Conv2D(conv).at = Matmul(m).at
            /\ (m.elemA = "f16" /\ \A k \in DOMAIN m.c.at : m.c.at[k][1] = 0) =>
                  SeedLayoutConversions(conv).result.at = Matmul(m).at

-----------------------------------------------------------------------------
\* ForceHVXCrouton.cpp: inputs of generics, packed and unpacked at once.
createCroutonPackUnpack(in) ==
    IF Len(in.shape) # 4 \/ in.type # "f16" \/ ~in.static \/ ~in.fromBuffer THEN <<>>
    ELSE buildF16PackOps(in.shape) \o unpackF16Output(in.shape)

RoundTripIsSame(in) ==
    LET ops == createCroutonPackUnpack(in)
    IN  WellTyped(in.shape, ops) /\ Compute(Input(in.shape, 0), ops) = Input(in.shape, 0)

\* ConvertLayoutPass.cpp: a memref is copied element by element to where the
\* layout puts it, into a target that is filled only if it is larger.
ConvertLayout(t, p, target) ==
    LET filled == IF Product(t.shape) # Product(target.shape)
                  THEN [k \in DOMAIN target.at |-> <<IF p.pad = <<>> THEN 0 ELSE p.pad[1], FALSE>>]
                  ELSE target.at
        n == Len(t.shape)
        Placed(x) == [i \in 1 .. n |-> x[PermOf(p, n)[i]] \div TileOf(p, PermOf(p, n)[i])]
                        \o [j \in DOMAIN p.pos |-> x[p.pos[j]] % p.tiles[j]]
        Copy(at, k) == [at EXCEPT ![Ravel(target.shape, Placed(Unravel(t.shape, k - 1))) + 1] = t.at[k]]
    IN  [target EXCEPT !.at = FoldLeft(Copy, filled, Identity(Len(t.at)))]

\* The target holds the packed source.
LayoutIsConverted(t, p) ==
    LET target == Input(PackedShape(t.shape, p), 100)
    IN  ConvertLayout(t, p, target) = Pack(t, [p EXCEPT !.pad = IF @ = <<>> THEN <<0>> ELSE @])

\* FoldResourceTransposePass.cpp: only f16 matrices, and the driver has folded
\* a transpose that moves nothing.
FoldResourceTranspose(t, type) ==
    IF Len(t.shape) # 2 \/ type # "f16" THEN {}
    ELSE LET rows == t.shape[1]
             cols == t.shape[2]
         IN  {[shape |-> <<cols, rows>>,
               at |-> Evaluated([k \in 1 .. rows * cols |->
                          t.at[((k - 1) % rows) * cols + (k - 1) \div rows + 1]])]}

TransposeIsFolded(t, perm, type) ==
    perm # Identity(Len(perm)) =>
        \A folded \in FoldResourceTranspose(t, type) : folded = Compute(t, <<Transpose(perm, <<>>)>>)

=============================================================================
