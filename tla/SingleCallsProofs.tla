-------------------------- MODULE SingleCallsProofs --------------------------
(***************************************************************************)
(* Proofs about the calls, for all inputs that they are given.               *)
(***************************************************************************)
EXTENDS SingleCalls, CallLemmas

(***************************************************************************)
(* Convolutions that are tiled, peeled and packed (ConvTilingPass.cpp,       *)
(* PreprocessTiledConv2D.cpp).                                               *)
(***************************************************************************)
\* A convolution has rows, channels and a window; a segment of a loop iterations.
IsConv(conv) == {conv.rows, conv.chans, conv.window} \subseteq Nat \ {0}
IsSegment(s) == s.first \in Nat /\ s.count \in Nat \ {0} /\ s.size \in Nat \ {0}
InSegment(s, x) == x - s.first \in 0 .. s.count * s.size - 1

\* Every tile of a segment starts on a crouton, and ends on one or with the loop.
OnGrid(s, range, tile) ==
    /\ s.first % tile = 0
    /\ s.size % tile = 0 \/ (s.count = 1 /\ range <= s.first + s.size)

\* The tile at an offset of the grid is at the offset.
LEMMA ElementOnGrid ==
    ASSUME NEW tile \in Nat \ {0}, NEW offset \in Nat, NEW k \in Nat, offset % tile = 0
    PROVE  CT!Element(offset, k, tile) = offset + k
<1>1. offset = tile * (offset \div tile) + 0 /\ offset \div tile \in Nat
  BY DivMod
<1> PICK q \in Nat : q = offset \div tile
  BY <1>1
<1>2. q * tile = tile * q
  OBVIOUS
<1>3. q * tile + k = offset + k
  BY <1>1, <1>2
<1> QED BY <1>3 DEF CT!Element

\* Rounding up to whole tiles adds less than a tile, and nothing to a multiple.
LEMMA RoundedBounds ==
    ASSUME NEW size \in Nat \ {0}, NEW tile \in Nat \ {0}
    PROVE  /\ CT!Rounded(size, tile) \in Nat /\ size <= CT!Rounded(size, tile)
           /\ size % tile = 0 => CT!Rounded(size, tile) = size
<1> PICK a \in Nat : a = size + tile - 1
  OBVIOUS
<1>1. a \div tile \in Nat /\ (a \div tile) * tile <= a /\ a < (a \div tile) * tile + tile
  BY DivBounds
<1> PICK n \in Nat : n = a \div tile
  BY <1>1
<1> PICK r \in Nat : r = n * tile
  OBVIOUS
<1>2. CT!Rounded(size, tile) = r
  BY DEF CT!Rounded, CT!LT!CeilDivide
<1>3. r <= a /\ a < r + tile
  BY <1>1
<1>4. size <= r
  BY <1>3
<1>5. ASSUME size % tile = 0 PROVE r = size
  <2>1. r % tile = 0
    BY MultipleMod
  <2>2. (r - size) % tile = 0
    BY <1>5, <2>1, SumMod
  <2>3. r - size \in 0 .. tile - 1
    BY <1>3, <1>4
  <2>4. (r - size) % tile = r - size
    BY <2>3, ModSmall
  <2> QED BY <2>2, <2>4
<1> QED BY <1>2, <1>4, <1>5

\* One piece on packed slices is the convolution of its region.
LEMMA PieceIsExact ==
    ASSUME NEW conv, IsConv(conv), NEW piece, NEW height \in Nat \ {0}, NEW depth \in Nat \ {0},
           piece.row \in Nat, piece.chan \in Nat,
           piece.row % CroutonHeight = 0, piece.chan % CroutonDepth = 0,
           height % CroutonHeight = 0 \/ conv.rows <= piece.row + height,
           depth % CroutonDepth = 0 \/ conv.chans <= piece.chan + depth
    PROVE  CT!insertOutputSlice(conv, piece, height, depth)
             = [rc \in CT!Region(conv, piece.row, height, piece.chan, depth) |-> CT!Conv2D(conv)[rc]]
<1> PICK H \in Nat \ {0}, D \in Nat \ {0} : H = CroutonHeight /\ D = CroutonDepth
  BY CallsAssumption
<1> PICK rows \in Nat \ {0}, chans \in Nat \ {0}, window \in Nat \ {0} :
        rows = conv.rows /\ chans = conv.chans /\ window = conv.window
  BY DEF IsConv
<1> PICK r \in Nat, c \in Nat : r = piece.row /\ c = piece.chan
  OBVIOUS
<1> PICK h \in Nat, d \in Nat : h = CT!Rounded(height, H) /\ d = CT!Rounded(depth, D)
  BY RoundedBounds
<1>1. /\ CT!Element(r, 0, H) = r /\ CT!Element(c, 0, D) = c
      /\ \A k \in Nat : CT!Element(r, k, H) = r + k /\ CT!Element(c, k, D) = c + k
  <2>1. r % H = 0 /\ c % D = 0 /\ r \in Nat /\ c \in Nat /\ H \in Nat \ {0} /\ D \in Nat \ {0}
    BY Zenon
  <2>2. \A k \in Nat : CT!Element(r, k, H) = r + k
    BY ONLY <2>1, ElementOnGrid
  <2>3. \A k \in Nat : CT!Element(c, k, D) = c + k
    BY ONLY <2>1, ElementOnGrid
  <2>4. 0 \in Nat /\ r + 0 = r /\ c + 0 = c
    BY ONLY r \in Nat, c \in Nat
  <2> QED BY ONLY <2>2, <2>3, <2>4
<1>2. /\ height <= h /\ (h = height \/ rows <= r + height)
      /\ depth <= d /\ (d = depth \/ chans <= c + depth)
  BY RoundedBounds
<1>3. \A x \in 0 .. rows - 1 : x - r \in 0 .. h - 1 <=> x - r \in 0 .. height - 1
  BY <1>2
<1>4. \A x \in 0 .. chans - 1 : x - c \in 0 .. d - 1 <=> x - c \in 0 .. depth - 1
  BY <1>2
<1>5. CT!Region(conv, r, h, c, d) = CT!Region(conv, r, height, c, depth)
  BY <1>3, <1>4 DEF CT!Region, CT!Outputs
<1> DEFINE Value(i, j) ==
             IF i < height /\ j < depth
             THEN <<[w \in 0 .. window - 1 |-> CT!getPackedImageSlice(conv, r, i + w)],
                    CT!getPackedFilterSlice(conv, c, j)>>
             ELSE CT!Nothing
<1>6. CT!insertOutputSlice(conv, piece, height, depth)
        = [rc \in CT!Region(conv, r, h, c, d) |-> Value(rc[1] - r, rc[2] - c)]
  BY <1>1 DEF CT!insertOutputSlice
<1>7. ASSUME NEW rc \in CT!Region(conv, r, height, c, depth)
      PROVE  Value(rc[1] - r, rc[2] - c) = CT!Conv2D(conv)[rc]
  <2> PICK x \in 0 .. rows - 1, y \in 0 .. chans - 1 :
          rc = <<x, y>> /\ x - r \in 0 .. height - 1 /\ y - c \in 0 .. depth - 1
    BY <1>7 DEF CT!Region, CT!Outputs
  <2>1. \A w \in 0 .. window - 1 : CT!getPackedImageSlice(conv, r, (x - r) + w) = x + w
    <3> TAKE w \in 0 .. window - 1
    <3>1. (x - r) + w \in Nat /\ r + ((x - r) + w) = x + w /\ x + w < rows + window - 1
      OBVIOUS
    <3>2. CT!Element(r, (x - r) + w, H) = x + w
      BY <1>1, <3>1
    <3> QED BY <3>1, <3>2 DEF CT!getPackedImageSlice
  <2>2. CT!getPackedFilterSlice(conv, c, y - c) = y
    <3>1. y - c \in Nat /\ c + (y - c) = y /\ y < chans
      OBVIOUS
    <3>2. CT!Element(c, y - c, D) = y
      BY <1>1, <3>1
    <3> QED BY <3>1, <3>2 DEF CT!getPackedFilterSlice
  <2>3. CT!Conv2D(conv)[rc] = <<[w \in 0 .. window - 1 |-> x + w], y>>
    BY DEF CT!Conv2D, CT!Outputs
  <2>4. x - r < height /\ y - c < depth
    OBVIOUS
  <2>5. [w \in 0 .. window - 1 |-> CT!getPackedImageSlice(conv, r, (x - r) + w)] = [w \in 0 .. window - 1 |-> x + w]
    BY ONLY <2>1
  <2>6. Value(x - r, y - c) = <<[w \in 0 .. window - 1 |-> x + w], y>>
    BY ONLY <2>2, <2>4, <2>5
  <2> HIDE DEF Value
  <2> QED BY <2>3, <2>6
<1> HIDE DEF Value
<1> QED BY <1>5, <1>6, <1>7

\* A run of blocks is one block.
LEMMA BlocksTile ==
    ASSUME NEW n \in Nat \ {0}, NEW s \in Nat \ {0}, NEW x \in Int
    PROVE  x \in 0 .. n * s - 1 <=> \E a \in 0 .. n - 1 : x - a * s \in 0 .. s - 1
<1>1. ASSUME x \in 0 .. n * s - 1 PROVE \E a \in 0 .. n - 1 : x - a * s \in 0 .. s - 1
  <2> x \in Nat
    BY <1>1
  <2> PICK q \in Nat, r \in 0 .. s - 1 : r = x % s /\ x = s * q + r
    BY DivModNames
  <2>1. q * s = s * q /\ x - q * s = r
    OBVIOUS
  <2>2. q < n
    <3>1. CASE q >= n
      <4>1. q * s >= n * s
        BY <3>1
      <4> PICK u \in Nat, v \in Nat : u = q * s /\ v = n * s
        OBVIOUS
      <4>2. x < v /\ x - u \in 0 .. s - 1 /\ u >= v
        BY <1>1, <2>1, <4>1
      <4> QED BY ONLY <4>2, x \in Nat, u \in Nat, v \in Nat, s \in Nat
    <3> QED BY <3>1
  <2>3. q \in 0 .. n - 1 /\ x - q * s \in 0 .. s - 1
    BY <2>1, <2>2
  <2> QED BY <2>3
<1>2. ASSUME NEW a \in 0 .. n - 1, x - a * s \in 0 .. s - 1 PROVE x \in 0 .. n * s - 1
  <2> PICK u \in Nat, v \in Nat, w \in Nat : u = a * s /\ v = (a + 1) * s /\ w = n * s
    OBVIOUS
  <2>1. v = u + s
    OBVIOUS
  <2>2. v <= w
    <3>1. a + 1 <= n
      OBVIOUS
    <3>2. (a + 1) * s <= n * s
      BY <3>1
    <3> QED BY <3>2
  <2>3. x - u \in 0 .. s - 1
    BY <1>2
  <2>4. x \in 0 .. w - 1
    BY ONLY <2>1, <2>2, <2>3, x \in Int, u \in Nat, v \in Nat, w \in Nat, s \in Nat
  <2> QED BY <2>4
<1> QED BY <1>1, <1>2

\* A pair of iterations has a place in the order of the nest.
LEMMA IndexOfPair ==
    ASSUME NEW m \in Nat \ {0}, NEW n \in Nat \ {0}, NEW a \in 0 .. m - 1, NEW b \in 0 .. n - 1
    PROVE  \E x \in Nat : x < m * n /\ x \div n = a /\ x % n = b
<1> PICK u \in Nat, v \in Nat, w \in Nat : u = n * a /\ v = n * (a + 1) /\ w = m * n
  OBVIOUS
<1>1. v = u + n /\ v <= w
  <2>1. n * (a + 1) = n * a + n /\ m * n = n * m
    OBVIOUS
  <2>2. n * (a + 1) <= n * m
    OBVIOUS
  <2> QED BY <2>1, <2>2
<1> PICK x \in Nat : x = u + b
  OBVIOUS
<1>2. x < w
  BY ONLY <1>1, x = u + b, b \in 0 .. n - 1, u \in Nat, v \in Nat, w \in Nat, n \in Nat
<1>3. x % n = b
  <2>1. x = n * a + b /\ a \in Int /\ b \in Nat /\ b < n /\ n \in Nat \ {0}
    OBVIOUS
  <2> QED BY ONLY <2>1, ModUnique
<1>4. x \div n = a
  <2>0. x \div n \in Nat /\ x = n * (x \div n) + (x % n)
    BY ONLY x \in Nat, n \in Nat \ {0}, DivMod
  <2> PICK q \in Nat : q = x \div n /\ x = n * q + b
    BY <1>3, <2>0
  <2>1. n * q = n * a
    <3> PICK y \in Nat : y = n * q
      OBVIOUS
    <3>1. x = y + b /\ x = u + b
      OBVIOUS
    <3>2. y = u
      BY ONLY <3>1, y \in Nat, u \in Nat, b \in 0 .. n - 1, n \in Nat
    <3> QED BY <3>2
  <2>2. q = a
    BY ONLY <2>1, q \in Nat, a \in 0 .. m - 1, m \in Nat, n \in Nat \ {0}
  <2> QED BY <2>2
<1> QED BY <1>2, <1>3, <1>4

\* The piece of iteration a of the rows and b of the channels.
PieceAt(rows, chans, a, b) == [row |-> rows.first + a * rows.size, chan |-> chans.first + b * chans.size]

\* The pieces of a nest are all pairs of its iterations.
LEMMA PiecesArePairs ==
    ASSUME NEW rows, IsSegment(rows), NEW chans, IsSegment(chans)
    PROVE  /\ \A k \in DOMAIN CT!Pieces(rows, chans) :
                \E a \in 0 .. rows.count - 1, b \in 0 .. chans.count - 1 :
                    CT!Pieces(rows, chans)[k] = PieceAt(rows, chans, a, b)
           /\ \A a \in 0 .. rows.count - 1, b \in 0 .. chans.count - 1 :
                \E k \in DOMAIN CT!Pieces(rows, chans) :
                    CT!Pieces(rows, chans)[k] = PieceAt(rows, chans, a, b)
<1> PICK m \in Nat \ {0}, n \in Nat \ {0} : m = rows.count /\ n = chans.count
  BY DEF IsSegment
<1> PICK total \in Nat : total = m * n
  OBVIOUS
<1> DEFINE At(a, b) == PieceAt(rows, chans, a, b)
<1>1. CT!Pieces(rows, chans) = [k \in 1 .. total |-> At((k - 1) \div n, (k - 1) % n)]
  BY DEF CT!Pieces, PieceAt
<1> HIDE DEF At
<1>2. ASSUME NEW k \in 1 .. total
      PROVE  (k - 1) \div n \in 0 .. m - 1 /\ (k - 1) % n \in 0 .. n - 1
  <2> PICK x \in Nat : x = k - 1 /\ x < total
    OBVIOUS
  <2>1. x \div n \in Nat /\ x % n \in 0 .. n - 1 /\ (x \div n) * n <= x
    BY DivMod, DivBounds
  <2> PICK q \in Nat : q = x \div n
    BY <2>1
  <2>2. q < m
    <3>1. CASE q >= m
      <4>1. q * n >= m * n
        BY <3>1
      <4> QED BY <2>1, <4>1
    <3> QED BY <3>1
  <2> QED BY <2>1, <2>2
<1>3. ASSUME NEW a \in 0 .. m - 1, NEW b \in 0 .. n - 1
      PROVE  \E k \in 1 .. total : (k - 1) \div n = a /\ (k - 1) % n = b
  <2>1. m \in Nat \ {0} /\ n \in Nat \ {0} /\ a \in 0 .. m - 1 /\ b \in 0 .. n - 1
    OBVIOUS
  <2> PICK x \in Nat : x < m * n /\ x \div n = a /\ x % n = b
    BY ONLY <2>1, IndexOfPair
  <2>3. x + 1 \in 1 .. total /\ (x + 1) - 1 = x
    BY ONLY x \in Nat, total \in Nat, x < total
  <2> QED BY <2>3
<1>4. \A k \in 1 .. total : \E a \in 0 .. m - 1, b \in 0 .. n - 1 : CT!Pieces(rows, chans)[k] = At(a, b)
  BY <1>1, <1>2
<1>5. \A a \in 0 .. m - 1, b \in 0 .. n - 1 : \E k \in 1 .. total : CT!Pieces(rows, chans)[k] = At(a, b)
  BY <1>1, <1>3
<1>6. DOMAIN CT!Pieces(rows, chans) = 1 .. total
  BY <1>1
<1>7. DOMAIN CT!Pieces(rows, chans) = 1 .. total /\ 0 .. rows.count - 1 = 0 .. m - 1 /\ 0 .. chans.count - 1 = 0 .. n - 1
  BY <1>6
<1>8. \A k \in DOMAIN CT!Pieces(rows, chans) :
         \E a \in 0 .. rows.count - 1, b \in 0 .. chans.count - 1 :
             CT!Pieces(rows, chans)[k] = PieceAt(rows, chans, a, b)
  BY <1>4, <1>7 DEF At
<1>9. \A a \in 0 .. rows.count - 1, b \in 0 .. chans.count - 1 :
         \E k \in DOMAIN CT!Pieces(rows, chans) :
             CT!Pieces(rows, chans)[k] = PieceAt(rows, chans, a, b)
  BY <1>5, <1>7 DEF At
<1> QED BY ONLY <1>8, <1>9

\* The tiles of a segment on the grid start on it, and end on it or with the loop.
LEMMA BlocksOnGrid ==
    ASSUME NEW s, IsSegment(s), NEW range, NEW tile \in Nat \ {0}, OnGrid(s, range, tile),
           NEW a \in 0 .. s.count - 1, NEW x, x = s.first + a * s.size
    PROVE  /\ x \in Nat /\ x % tile = 0
           /\ s.size % tile = 0 \/ range <= x + s.size
<1> PICK first \in Nat, count \in Nat \ {0}, size \in Nat \ {0} : first = s.first /\ count = s.count /\ size = s.size
  BY DEF IsSegment
<1>1. CASE size % tile = 0
  <2> PICK q \in Nat, r \in 0 .. tile - 1 : r = size % tile /\ size = tile * q + r
    BY DivModNames
  <2> PICK y \in Nat : y = a * size
    OBVIOUS
  <2>1. y % tile = 0
    <3>1. r = 0
      BY <1>1
    <3>2. y = (a * q) * tile
      BY <3>1
    <3>3. a * q \in Int
      OBVIOUS
    <3> QED BY ONLY <3>2, <3>3, tile \in Nat \ {0}, MultipleMod
  <2>2. first % tile = 0
    BY DEF OnGrid
  <2>3. (first + y) % tile = 0
    BY ONLY <2>1, <2>2, first \in Nat, y \in Nat, tile \in Nat \ {0}, SumMod
  <2>4. x = first + y
    OBVIOUS
  <2>5. first + y \in Nat
    OBVIOUS
  <2> QED BY ONLY <1>1, <2>3, <2>4, <2>5, size = s.size
<1>2. CASE size % tile # 0
  <2>1. count = 1 /\ range <= first + size /\ first % tile = 0
    BY <1>2 DEF OnGrid
  <2>2. a = 0
    BY <2>1
  <2>3. x = first
    BY <2>2
  <2> QED BY <2>1, <2>3
<1> QED BY <1>1, <1>2

\* The elements of a nest.
Held(conv, rows, chans) == {rc \in CT!Outputs(conv) : InSegment(rows, rc[1]) /\ InSegment(chans, rc[2])}

\* A nest writes its elements, each in one of its pieces.
LEMMA PiecesHold ==
    ASSUME NEW conv, NEW rows, IsSegment(rows), NEW chans, IsSegment(chans)
    PROVE  \A rc \in CT!Outputs(conv) :
              rc \in Held(conv, rows, chans) <=>
                 \E k \in DOMAIN CT!Pieces(rows, chans) :
                     rc \in CT!Region(conv, CT!Pieces(rows, chans)[k].row, rows.size,
                                      CT!Pieces(rows, chans)[k].chan, chans.size)
<1> SUFFICES ASSUME NEW rc \in CT!Outputs(conv)
             PROVE  rc \in Held(conv, rows, chans) <=>
                       \E k \in DOMAIN CT!Pieces(rows, chans) :
                           rc \in CT!Region(conv, CT!Pieces(rows, chans)[k].row, rows.size,
                                            CT!Pieces(rows, chans)[k].chan, chans.size)
  OBVIOUS
<1> PICK x \in Int, y \in Int : x = rc[1] /\ y = rc[2]
  BY DEF CT!Outputs
<1> PICK fr \in Nat, m \in Nat \ {0}, s \in Nat \ {0} : fr = rows.first /\ m = rows.count /\ s = rows.size
  BY DEF IsSegment
<1> PICK fc \in Nat, n \in Nat \ {0}, t \in Nat \ {0} : fc = chans.first /\ n = chans.count /\ t = chans.size
  BY DEF IsSegment
<1>1. x - fr \in 0 .. m * s - 1 <=> \E a \in 0 .. m - 1 : (x - fr) - a * s \in 0 .. s - 1
  <2>1. x - fr \in Int
    OBVIOUS
  <2> QED BY <2>1, BlocksTile
<1>2. y - fc \in 0 .. n * t - 1 <=> \E b \in 0 .. n - 1 : (y - fc) - b * t \in 0 .. t - 1
  <2>1. y - fc \in Int
    OBVIOUS
  <2> QED BY <2>1, BlocksTile
<1> DEFINE In(a, b) == rc \in CT!Region(conv, PieceAt(rows, chans, a, b).row, s, PieceAt(rows, chans, a, b).chan, t)
<1>3. \A a \in 0 .. m - 1, b \in 0 .. n - 1 :
         In(a, b) <=> (x - fr) - a * s \in 0 .. s - 1 /\ (y - fc) - b * t \in 0 .. t - 1
  <2> SUFFICES ASSUME NEW a \in 0 .. m - 1, NEW b \in 0 .. n - 1
               PROVE  In(a, b) <=> (x - fr) - a * s \in 0 .. s - 1 /\ (y - fc) - b * t \in 0 .. t - 1
    OBVIOUS
  <2> PICK u \in Nat, v \in Nat : u = a * s /\ v = b * t
    OBVIOUS
  <2>1. x - (fr + u) = (x - fr) - u /\ y - (fc + v) = (y - fc) - v
    OBVIOUS
  <2>2. PieceAt(rows, chans, a, b).row = fr + u /\ PieceAt(rows, chans, a, b).chan = fc + v
    BY DEF PieceAt
  <2>3. In(a, b) <=> x - (fr + u) \in 0 .. s - 1 /\ y - (fc + v) \in 0 .. t - 1
    BY <2>2 DEF CT!Region
  <2> QED BY ONLY <2>1, <2>3, u = a * s, v = b * t
<1>4. rc \in Held(conv, rows, chans) <=> x - fr \in 0 .. m * s - 1 /\ y - fc \in 0 .. n * t - 1
  BY DEF Held, InSegment
<1>5. rc \in Held(conv, rows, chans) <=> \E a \in 0 .. m - 1, b \in 0 .. n - 1 : In(a, b)
  <2> HIDE DEF In
  <2> QED BY ONLY <1>1, <1>2, <1>3, <1>4
<1>6. (\E a \in 0 .. m - 1, b \in 0 .. n - 1 : In(a, b)) <=>
      \E k \in DOMAIN CT!Pieces(rows, chans) :
          rc \in CT!Region(conv, CT!Pieces(rows, chans)[k].row, s, CT!Pieces(rows, chans)[k].chan, t)
  <2>1. /\ \A k \in DOMAIN CT!Pieces(rows, chans) :
              \E a \in 0 .. m - 1, b \in 0 .. n - 1 : CT!Pieces(rows, chans)[k] = PieceAt(rows, chans, a, b)
        /\ \A a \in 0 .. m - 1, b \in 0 .. n - 1 :
              \E k \in DOMAIN CT!Pieces(rows, chans) : CT!Pieces(rows, chans)[k] = PieceAt(rows, chans, a, b)
    BY PiecesArePairs
  <2> QED BY ONLY <2>1
<1> QED BY <1>5, <1>6

\* A transformed item writes the convolution of what it holds.
LEMMA TransformedIsExact ==
    ASSUME NEW conv, IsConv(conv), NEW items, NEW i, NEW out,
           NEW rows, rows = items[i].rows, IsSegment(rows), OnGrid(rows, conv.rows, CroutonHeight),
           NEW chans, chans = CT!Last(items[i].body), IsSegment(chans), OnGrid(chans, conv.chans, CroutonDepth),
           DOMAIN CT!initPackedOut(conv, items, i, out) = CT!Outputs(conv)
    PROVE  CT!transformTiledConv2DLoop(conv, items, i, out)
             = [rc \in CT!Outputs(conv) |->
                  IF rc \in Held(conv, rows, chans) THEN CT!Conv2D(conv)[rc]
                  ELSE CT!initPackedOut(conv, items, i, out)[rc]]
<1> DEFINE pieces == CT!Pieces(rows, chans)
           Slice(k) == CT!insertOutputSlice(conv, pieces[k], rows.size, chans.size)
           Place(k) == CT!Region(conv, pieces[k].row, rows.size, pieces[k].chan, chans.size)
           Writers(rc) == {k \in DOMAIN pieces : rc \in DOMAIN Slice(k)}
<1>1. \A k \in DOMAIN pieces : Slice(k) = [rc \in Place(k) |-> CT!Conv2D(conv)[rc]]
  <2> SUFFICES ASSUME NEW k \in DOMAIN pieces PROVE Slice(k) = [rc \in Place(k) |-> CT!Conv2D(conv)[rc]]
    OBVIOUS
  <2> PICK a \in 0 .. rows.count - 1, b \in 0 .. chans.count - 1 : pieces[k] = PieceAt(rows, chans, a, b)
    BY PiecesArePairs
  <2>1. /\ pieces[k].row \in Nat /\ pieces[k].row % CroutonHeight = 0
        /\ rows.size % CroutonHeight = 0 \/ conv.rows <= pieces[k].row + rows.size
    <3>1. pieces[k].row = rows.first + a * rows.size
      BY DEF PieceAt
    <3>2. CroutonHeight \in Nat \ {0}
      BY CallsAssumption
    <3> QED BY ONLY <3>1, <3>2, IsSegment(rows), OnGrid(rows, conv.rows, CroutonHeight), a \in 0 .. rows.count - 1,
                    BlocksOnGrid
  <2>2. /\ pieces[k].chan \in Nat /\ pieces[k].chan % CroutonDepth = 0
        /\ chans.size % CroutonDepth = 0 \/ conv.chans <= pieces[k].chan + chans.size
    <3>1. pieces[k].chan = chans.first + b * chans.size
      BY DEF PieceAt
    <3>2. CroutonDepth \in Nat \ {0}
      BY CallsAssumption
    <3> QED BY ONLY <3>1, <3>2, IsSegment(chans), OnGrid(chans, conv.chans, CroutonDepth), b \in 0 .. chans.count - 1,
                    BlocksOnGrid
  <2>3. rows.size \in Nat \ {0} /\ chans.size \in Nat \ {0}
    BY DEF IsSegment
  <2> HIDE DEF pieces
  <2> QED BY <2>1, <2>2, <2>3, PieceIsExact
<1>2. \A rc \in CT!Outputs(conv) : rc \in Held(conv, rows, chans) <=> \E k \in DOMAIN pieces : rc \in Place(k)
  BY PiecesHold
<1>3. CT!transformTiledConv2DLoop(conv, items, i, out)
        = [rc \in CT!Outputs(conv) |->
             IF Writers(rc) = {} THEN CT!initPackedOut(conv, items, i, out)[rc] ELSE Slice(Max(Writers(rc)))[rc]]
  <2>1. CT!transformTiledConv2DLoop(conv, items, i, out)
          = [rc \in DOMAIN CT!initPackedOut(conv, items, i, out) |->
               IF Writers(rc) = {} THEN CT!initPackedOut(conv, items, i, out)[rc] ELSE Slice(Max(Writers(rc)))[rc]]
    BY DEF CT!transformTiledConv2DLoop, CT!Max, Max
  <2> HIDE DEF Slice, Writers
  <2> QED BY <2>1
<1> HIDE DEF Place, Slice
<1>4. \A rc \in CT!Outputs(conv) : Writers(rc) = {k \in DOMAIN pieces : rc \in Place(k)}
  BY <1>1
<1>5. PICK n \in Nat : DOMAIN pieces = 1 .. n
  BY DEF CT!Pieces, IsSegment
<1> HIDE DEF pieces
<1>6. ASSUME NEW rc \in CT!Outputs(conv), Writers(rc) # {}
      PROVE  Slice(Max(Writers(rc)))[rc] = CT!Conv2D(conv)[rc]
  <2>1. Writers(rc) \in SUBSET (1 .. n)
    BY <1>5
  <2>2. Max(Writers(rc)) \in Writers(rc)
    BY <1>6, <2>1, GreatestExists
  <2> QED BY <1>1, <1>4, <2>2
<1> HIDE DEF Writers
<1>7. \A rc \in CT!Outputs(conv) : Writers(rc) = {} <=> rc \notin Held(conv, rows, chans)
  BY <1>2, <1>4
<1> QED BY <1>3, <1>6, <1>7

\* An untransformed item of one piece of the channels, too.
LEMMA UntransformedIsExact ==
    ASSUME NEW conv, NEW item, NEW out, NEW chans, item.body = <<chans>>, IsSegment(chans), IsSegment(item.rows)
    PROVE  CT!Untransformed(conv, item, out)
             = [rc \in CT!Outputs(conv) |->
                  IF rc \in Held(conv, item.rows, chans) THEN CT!Conv2D(conv)[rc] ELSE out[rc]]
<1> DEFINE pieces(c) == CT!Pieces(item.rows, c)
           Place(c, k) == CT!Region(conv, pieces(c)[k].row, item.rows.size, pieces(c)[k].chan, c.size)
           Written == UNION {UNION {Place(item.body[b], k) : k \in DOMAIN pieces(item.body[b])} : b \in DOMAIN item.body}
<1>1. CT!Untransformed(conv, item, out)
        = [rc \in CT!Outputs(conv) |-> IF rc \in Written THEN CT!Conv2D(conv)[rc] ELSE out[rc]]
  BY DEF CT!Untransformed
<1>2. \A rc \in CT!Outputs(conv) : rc \in Held(conv, item.rows, chans) <=> \E k \in DOMAIN pieces(chans) : rc \in Place(chans, k)
  BY PiecesHold
<1>3. DOMAIN item.body = {1} /\ item.body[1] = chans
  OBVIOUS
<1>4. \A rc \in CT!Outputs(conv) : rc \in Written <=> rc \in Held(conv, item.rows, chans)
  <2> HIDE DEF pieces, Place
  <2> QED BY <1>2, <1>3
<1> HIDE DEF Written
<1> QED BY <1>1, <1>4

\* What item i holds, and items that preprocess-tiled-conv2d rewrites exactly:
\* one piece of the channels each, and the transformed ones on croutons and
\* first or after a loop, whose result they are given.
HeldBy(conv, items, i) == Held(conv, items[i].rows, items[i].body[1])
GoodItem(conv, items, i) ==
    /\ IsSegment(items[i].rows) /\ IsSegment(items[i].body[1])
    /\ items[i].body = <<items[i].body[1]>>
    /\ CT!isWrappedConv2DOp(items, i) =>
          /\ OnGrid(items[i].rows, conv.rows, CroutonHeight)
          /\ OnGrid(items[i].body[1], conv.chans, CroutonDepth)
          /\ i = 1 \/ CT!IsLoop(items[i - 1])
GoodItems(conv, items) == \A i \in DOMAIN items : GoodItem(conv, items, i)

\* An item writes the convolution of what it holds on top of what is there, or
\* the first one on zeros.
LEMMA RewrittenIsExact ==
    ASSUME NEW conv, IsConv(conv), NEW items, NEW i \in Nat \ {0}, GoodItem(conv, items, i),
           NEW out, DOMAIN out = CT!Outputs(conv)
    PROVE  \E before \in {out, CT!Zeros(conv)} :
              /\ i # 1 => before = out
              /\ CT!Rewritten(conv, items, i, out)
                   = [rc \in CT!Outputs(conv) |->
                        IF rc \in HeldBy(conv, items, i) THEN CT!Conv2D(conv)[rc] ELSE before[rc]]
<1> DEFINE rows == items[i].rows
           chans == items[i].body[1]
           Over(before) == [rc \in CT!Outputs(conv) |->
                              IF rc \in HeldBy(conv, items, i) THEN CT!Conv2D(conv)[rc] ELSE before[rc]]
<1>1. IsSegment(rows) /\ IsSegment(chans) /\ items[i].body = <<chans>>
  BY DEF GoodItem
<1>2. chans = CT!Last(items[i].body)
  BY <1>1 DEF CT!Last
<1>3. CASE CT!isWrappedConv2DOp(items, i)
  <2>1. OnGrid(rows, conv.rows, CroutonHeight) /\ OnGrid(chans, conv.chans, CroutonDepth)
    BY <1>3 DEF GoodItem
  <2> PICK before : before = CT!initPackedOut(conv, items, i, out)
    OBVIOUS
  <2>2. before \in {out, CT!Zeros(conv)} /\ (i # 1 => before = out)
    <3>1. CASE i # 1
      <4>1. CT!IsLoop(items[i - 1])
        BY <1>3, <3>1 DEF GoodItem
      <4> QED BY <3>1, <4>1 DEF CT!initPackedOut, CT!genPackUnpackOpPair
    <3>2. CASE i = 1
      <4> PICK len : len = Len(items)
        OBVIOUS
      <4>0. CT!IsLoop(items[i]) \/ (len > 1 /\ len = 1)
        BY <1>3, <3>2, Zenon DEF CT!isWrappedConv2DOp
      <4>1. CT!IsLoop(items[i])
        BY ONLY <4>0
      <4> QED BY <3>2, <4>1 DEF CT!initPackedOut
    <3> QED BY <3>1, <3>2
  <2>7. DOMAIN before = CT!Outputs(conv)
    BY <2>2 DEF CT!Zeros
  <2> HIDE DEF rows, chans
  <2>3. rows = items[i].rows /\ chans = items[i].body[1]
    BY DEF rows, chans
  <2>4. CT!transformTiledConv2DLoop(conv, items, i, out)
          = [rc \in CT!Outputs(conv) |->
               IF rc \in Held(conv, rows, chans) THEN CT!Conv2D(conv)[rc] ELSE before[rc]]
    BY <1>1, <1>2, <2>1, <2>3, <2>7, TransformedIsExact
  <2>5. CT!Rewritten(conv, items, i, out) = Over(before)
    BY <1>3, <2>3, <2>4 DEF CT!Rewritten, HeldBy
  <2> HIDE DEF Over
  <2>6. \E b \in {out, CT!Zeros(conv)} : (i # 1 => b = out) /\ CT!Rewritten(conv, items, i, out) = Over(b)
    BY <2>2, <2>5
  <2> QED BY <2>6 DEF Over
<1>4. CASE ~CT!isWrappedConv2DOp(items, i)
  <2>1. CT!Untransformed(conv, items[i], out)
          = [rc \in CT!Outputs(conv) |->
               IF rc \in Held(conv, rows, chans) THEN CT!Conv2D(conv)[rc] ELSE out[rc]]
    BY <1>1, UntransformedIsExact
  <2>2. CT!Rewritten(conv, items, i, out) = Over(out)
    BY <1>4, <2>1 DEF CT!Rewritten, HeldBy
  <2> HIDE DEF Over
  <2>3. \E b \in {out, CT!Zeros(conv)} : (i # 1 => b = out) /\ CT!Rewritten(conv, items, i, out) = Over(b)
    BY <2>2
  <2> QED BY <2>3 DEF Over
<1> QED BY <1>3, <1>4

\* Items that are rewritten exactly write the convolution of all they hold.
LEMMA ItemsRun ==
    ASSUME NEW conv, IsConv(conv), NEW items, NEW n \in Nat, DOMAIN items = 1 .. n,
           \A i \in 1 .. n : GoodItem(conv, items, i)
    PROVE  CT!Preprocessed(conv, items)
             = [rc \in CT!Outputs(conv) |->
                  IF \E i \in 1 .. n : rc \in HeldBy(conv, items, i) THEN CT!Conv2D(conv)[rc] ELSE CT!Nothing]
<1> DEFINE idx == [i \in DOMAIN items |-> i]
           base == CT!Zeros(conv)
           V == [CT!Outputs(conv) -> {CT!Conv2D(conv)[rc] : rc \in CT!Outputs(conv)} \cup {CT!Nothing}]
           Step(out, i) == CT!Rewritten(conv, items, i, out)
           step == [x \in V \X (1 .. n) |-> Step(x[1], x[2])]
           Over(before, i) == [rc \in CT!Outputs(conv) |->
                                 IF rc \in HeldBy(conv, items, i) THEN CT!Conv2D(conv)[rc] ELSE before[rc]]
<1>1. base \in V
  BY DEF CT!Zeros
<1>2. \A i \in 1 .. n, out \in V : \E before \in {out, base} : (i # 1 => before = out) /\ Step(out, i) = Over(before, i)
  BY RewrittenIsExact
<1>3. step \in [V \X (1 .. n) -> V]
  <2> SUFFICES ASSUME NEW s \in V, NEW i \in 1 .. n PROVE Step(s, i) \in V
    OBVIOUS
  <2> PICK before \in {s, base} : Step(s, i) = Over(before, i)
    BY <1>2
  <2>1. before \in V
    BY <1>1
  <2>2. Over(before, i) \in V
    BY <2>1
  <2> HIDE DEF V, Step, Over
  <2> QED BY <2>2
<1>4. PICK it \in [SUBSET (1 .. n) -> V] :
        \A s \in SUBSET (1 .. n) :
            it[s] = IF s = {} THEN base ELSE step[<<it[s \ {Max(s)}], Max(s)>>]
  <2>1. PICK it : FoldsBy(it, n, V, base, step)
    <3> HIDE DEF base, step, V
    <3> QED BY <1>1, <1>3, FoldExists, Zenon
  <2> HIDE DEF base, step, V
  <2> QED BY <2>1 DEF FoldsBy
<1>5. it = [s \in SUBSET DOMAIN idx |->
              IF s = {} THEN base ELSE Step(it[s \ {Max(s)}], idx[Max(s)])]
  <2> SUFFICES ASSUME NEW s \in SUBSET (1 .. n), s # {}
               PROVE  step[<<it[s \ {Max(s)}], Max(s)>>] = Step(it[s \ {Max(s)}], idx[Max(s)])
    BY <1>4
  <2>1. Max(s) \in 1 .. n
    BY FoldIndices
  <2>2. it[s \ {Max(s)}] \in V
    BY <1>4
  <2> HIDE DEF V, Step
  <2> QED BY <2>1, <2>2
<1>6. PICK jt : /\ jt = [s \in SUBSET DOMAIN idx |->
                           IF s = {} THEN base ELSE Step(jt[s \ {Max(s)}], idx[Max(s)])]
                /\ CT!Preprocessed(conv, items) = jt[DOMAIN idx]
  <2>1. CT!Preprocessed(conv, items) =
          (CHOOSE jt : jt = [s \in SUBSET DOMAIN idx |->
                  IF s = {} THEN base ELSE Step(jt[s \ {Max(s)}], idx[Max(s)])])[DOMAIN idx]
    BY DEF CT!Preprocessed, CT!FoldLeft, CT!MapThenFoldSet, CT!Max, Max
  <2> HIDE DEF base, Step, idx
  <2> QED BY <1>5, <2>1
<1>7. DOMAIN idx = 1 .. n /\ \A i \in 1 .. n : idx[i] = i
  OBVIOUS
<1> HIDE DEF step, idx
<1> DEFINE After(k) == [rc \in CT!Outputs(conv) |->
                          IF \E i \in 1 .. k : rc \in HeldBy(conv, items, i) THEN CT!Conv2D(conv)[rc] ELSE CT!Nothing]
           S == {k \in 0 .. n : jt[1 .. k] = After(k)}
<1>8. \A k \in 0 .. n : After(k) \in V
  OBVIOUS
<1> HIDE DEF V, Step
<1>9. 0 \in S
  <2>1. 1 .. 0 \in SUBSET DOMAIN idx /\ 1 .. 0 = {}
    OBVIOUS
  <2>2. jt[1 .. 0] = base
    <3> HIDE DEF base
    <3> QED BY <1>6, <2>1
  <2>3. base = After(0)
    BY DEF CT!Zeros
  <2> QED BY <2>2, <2>3
<1>10. ASSUME NEW k \in 0 .. n - 1, k \in S PROVE k + 1 \in S
  <2>1. k + 1 \in 1 .. n /\ (k + 1) - 1 = k /\ k + 1 \in 0 .. n
    OBVIOUS
  <2>2. jt[1 .. k + 1] = Step(jt[1 .. k], k + 1)
    <3>1. /\ 1 .. k + 1 \in SUBSET (1 .. n) /\ 1 .. k + 1 # {} /\ Max(1 .. k + 1) = k + 1
          /\ (1 .. k + 1) \ {k + 1} = 1 .. k
      <4>1. 1 .. (k + 1) - 1 = 1 .. k
        BY <2>1
      <4> QED BY <2>1, <4>1, FoldIndices
    <3> PICK x : x = 1 .. k + 1
      OBVIOUS
    <3> PICK y : y = 1 .. k
      OBVIOUS
    <3>2. x \in SUBSET (1 .. n) /\ x # {} /\ Max(x) = k + 1 /\ x \ {k + 1} = y
      BY <3>1
    <3> HIDE DEF base
    <3>3. jt[x] = Step(jt[x \ {Max(x)}], idx[Max(x)])
      BY ONLY <1>6, <1>7, <3>2
    <3>4. idx[k + 1] = k + 1
      BY <1>7, <2>1
    <3> QED BY ONLY <3>2, <3>3, <3>4, x = 1 .. k + 1, y = 1 .. k
  <2>3. jt[1 .. k] = After(k)
    BY <1>10
  <2> PICK before \in {After(k), base} : (k + 1 # 1 => before = After(k)) /\ Step(After(k), k + 1) = Over(before, k + 1)
    <3>1. After(k) \in V
      <4>1. k \in 0 .. n
        OBVIOUS
      <4> HIDE DEF After
      <4> QED BY <1>8, <4>1
    <3> HIDE DEF After, base, Over
    <3> QED BY <1>2, <2>1, <3>1
  <2>4. before = After(k)
    <3>1. CASE k = 0
      <4>1. base = After(0)
        BY DEF CT!Zeros
      <4> HIDE DEF base, After
      <4> QED BY <3>1, <4>1
    <3>2. CASE k # 0
      <4>1. k + 1 # 1
        BY <3>2
      <4> QED BY <4>1
    <3> QED BY <3>1, <3>2
  <2>5. Over(After(k), k + 1) = After(k + 1)
    <3>1. 1 .. k + 1 = (1 .. k) \cup {k + 1}
      OBVIOUS
    <3> QED BY ONLY <3>1
  <2> HIDE DEF After, Over, base
  <2> QED BY <2>1, <2>2, <2>3, <2>4, <2>5
<1>11. n \in S
  <2> HIDE DEF S
  <2>1. \A b \in 0 .. n : b \in S
    BY <1>9, <1>10, Induction
  <2> QED BY <2>1
<1> QED BY <1>6, <1>7, <1>11

\* Sequences of one element and one more, and of two and one more.
LEMMA PairOfOnes ==
    ASSUME NEW a, NEW b
    PROVE  <<a>> \o <<b>> = <<a, b>>
<1>1. \A s \in Seq({a, b}) : \A n \in Nat : Len(s) = n => s \o <<b>> = Longer(s, n, b)
  BY AppendEntries
<1>2. <<a>> \in Seq({a, b}) /\ Len(<<a>>) = 1 /\ 1 \in Nat
  OBVIOUS
<1>3. <<a>> \o <<b>> = Longer(<<a>>, 1, b)
  BY <1>1, <1>2
<1>4. Longer(<<a>>, 1, b) = <<a, b>>
  BY DEF Longer
<1> QED BY <1>3, <1>4

\* A sequence of two elements and one more.
LEMMA TripleOfOnes ==
    ASSUME NEW a, NEW b, NEW c
    PROVE  <<a, b>> \o <<c>> = <<a, b, c>>
<1>1. \A s \in Seq({a, b, c}) : \A n \in Nat : Len(s) = n => s \o <<c>> = Longer(s, n, c)
  BY AppendEntries
<1>2. <<a, b>> \in Seq({a, b, c}) /\ Len(<<a, b>>) = 2 /\ 2 \in Nat
  OBVIOUS
<1>3. <<a, b>> \o <<c>> = Longer(<<a, b>>, 2, c)
  BY <1>1, <1>2
<1>4. Longer(<<a, b>>, 2, c) = <<a, b, c>>
  BY DEF Longer
<1> QED BY <1>3, <1>4

\* The parts of a peeled loop: one that is not cut, one of whole tiles, or the
\* whole tiles and a rest.  All are on the croutons that its tiles are cut on.
LEMMA PeeledParts ==
    ASSUME NEW range \in Nat \ {0}, NEW tile \in Nat \ {0}, NEW crouton \in Nat \ {0},
           range <= tile \/ tile % crouton = 0
    PROVE  LET parts == CT!Peeled(range, tile)
               q == range \div tile
           IN  /\ \A i \in DOMAIN parts : /\ IsSegment(parts[i]) /\ OnGrid(parts[i], range, crouton)
                                          /\ parts[i].static
               /\ \A x \in 0 .. range - 1 : \E i \in DOMAIN parts : InSegment(parts[i], x)
               /\ \/ range <= tile /\ parts = <<parts[1]>> /\ parts[1].count = 1 /\ parts[1].first = 0
                  \/ /\ range > tile /\ range % tile = 0 /\ parts = <<parts[1]>>
                     /\ parts[1].count > 1 /\ parts[1].first = 0
                  \/ /\ range > tile /\ range % tile # 0 /\ parts = <<parts[1], parts[2]>>
                     /\ parts[1].count = q /\ parts[1].first = 0
                     /\ parts[2].count = 1 /\ parts[2].first > 0
<1> DEFINE parts == CT!Peeled(range, tile)
<1> PICK q \in Nat : q = range \div tile
  BY DivMod
<1> PICK r \in 0 .. tile - 1 : r = range % tile
  BY DivMod
<1> PICK p \in Nat : p = q * tile
  OBVIOUS
<1>1. range = p + r
  <2>1. range = tile * (range \div tile) + (range % tile)
    BY DivMod
  <2>2. tile * q = q * tile
    OBVIOUS
  <2> QED BY <2>1, <2>2
<1>2. 0 % crouton = 0 /\ 0 \in Nat
  OBVIOUS
<1>3. CASE range <= tile
  <2> PICK a : a = CT!Segment(0, 1, range)
    OBVIOUS
  <2>1. parts = <<a>>
    BY <1>3 DEF CT!Peeled
  <2>2. a.first = 0 /\ a.count = 1 /\ a.size = range /\ a.static
    BY DEF CT!Segment
  <2>3. IsSegment(a) /\ OnGrid(a, range, crouton)
    BY <1>2, <2>2 DEF IsSegment, OnGrid
  <2>4. \A x \in 0 .. range - 1 : InSegment(a, x)
    BY <2>2 DEF InSegment
  <2> HIDE DEF parts
  <2>5. DOMAIN parts = {1} /\ parts[1] = a
    BY <2>1
  <2>6. /\ \A i \in DOMAIN parts : IsSegment(parts[i]) /\ OnGrid(parts[i], range, crouton) /\ parts[i].static
        /\ \A x \in 0 .. range - 1 : \E i \in DOMAIN parts : InSegment(parts[i], x)
    BY <2>2, <2>3, <2>4, <2>5
  <2>7. range <= tile /\ parts = <<parts[1]>> /\ parts[1].count = 1 /\ parts[1].first = 0
    BY <1>3, <2>1, <2>2, <2>5
  <2> QED BY <2>6, <2>7 DEF parts
<1>4. CASE range > tile
  <2> PICK a : a = CT!Segment(0, q, tile)
    OBVIOUS
  <2>0. parts = <<a>> \o (IF r = 0 THEN <<>> ELSE <<CT!Segment(p, 1, r)>>)
    <3>1. ~(range <= tile)
      BY <1>4
    <3>2. CT!Peeled(range, tile)
            = <<CT!Segment(0, range \div tile, tile)>>
              \o (IF range % tile = 0 THEN <<>> ELSE <<CT!Segment((range \div tile) * tile, 1, range % tile)>>)
      BY ONLY <3>1 DEF CT!Peeled
    <3> QED BY <3>2, Zenon
  <2>1. a.first = 0 /\ a.count = q /\ a.size = tile /\ a.static
    BY DEF CT!Segment
  <2>2. q # 0
    <3>1. CASE q = 0
      <4>1. p = 0
        BY <3>1
      <4> QED BY <1>1, <1>4, <4>1
    <3> QED BY <3>1
  <2>3. tile % crouton = 0
    BY <1>4
  <2>4. IsSegment(a) /\ OnGrid(a, range, crouton)
    BY <1>2, <2>1, <2>2, <2>3 DEF IsSegment, OnGrid
  <2>5. \A x \in 0 .. p - 1 : InSegment(a, x)
    BY <2>1 DEF InSegment
  <2>6. CASE r = 0
    <3>1. parts = <<a>>
      <4>1. parts = <<a>> \o <<>>
        BY <2>0, <2>6
      <4> HIDE DEF parts
      <4> QED BY ONLY <4>1
    <3>2. q # 1
      <4>1. CASE q = 1
        <5>1. p = tile
          BY <4>1
        <5> QED BY <1>1, <1>4, <2>6, <5>1
      <4> QED BY <4>1
    <3> HIDE DEF parts
    <3>3. DOMAIN parts = {1} /\ parts[1] = a
      BY <3>1
    <3>4. p = range
      BY <1>1, <2>6
    <3>5. /\ \A i \in DOMAIN parts : IsSegment(parts[i]) /\ OnGrid(parts[i], range, crouton) /\ parts[i].static
          /\ \A x \in 0 .. range - 1 : \E i \in DOMAIN parts : InSegment(parts[i], x)
      BY <2>1, <2>4, <2>5, <3>3, <3>4
    <3>6. /\ range > tile /\ range % tile = 0 /\ parts = <<parts[1]>>
          /\ parts[1].count > 1 /\ parts[1].first = 0
      BY <1>4, <2>1, <2>2, <2>6, <3>1, <3>2, <3>3
    <3> QED BY <3>5, <3>6 DEF parts
  <2>7. CASE r # 0
    <3> PICK b : b = CT!Segment(p, 1, r)
      OBVIOUS
    <3>1. parts = <<a, b>>
      <4>1. parts = <<a>> \o <<b>>
        BY <2>0, <2>7
      <4> HIDE DEF parts
      <4> QED BY <4>1, PairOfOnes
    <3>2. b.first = p /\ b.count = 1 /\ b.size = r /\ b.static
      BY DEF CT!Segment
    <3>3. p % crouton = 0
      <4> PICK u \in Nat, v \in 0 .. crouton - 1 : v = tile % crouton /\ tile = crouton * u + v
        BY DivModNames
      <4>1. v = 0
        BY <2>3
      <4>2. p = (q * u) * crouton
        BY <4>1
      <4>3. q * u \in Int
        OBVIOUS
      <4> QED BY ONLY <4>2, <4>3, crouton \in Nat \ {0}, MultipleMod
    <3>4. IsSegment(b) /\ OnGrid(b, range, crouton)
      <4>1. range <= p + r /\ r \in Nat \ {0}
        BY <1>1, <2>7
      <4> QED BY ONLY <3>2, <3>3, <4>1, p \in Nat DEF IsSegment, OnGrid
    <3>5. \A x \in 0 .. range - 1 : InSegment(a, x) \/ InSegment(b, x)
      <4> TAKE x \in 0 .. range - 1
      <4>1. CASE x < p
        <5>1. x \in 0 .. p - 1
          BY <4>1
        <5> QED BY <2>5, <5>1
      <4>2. CASE x >= p
        <5>1. x - p \in 0 .. r - 1 /\ 1 * r = r
          BY <1>1, <4>2
        <5> QED BY <3>2, <5>1 DEF InSegment
      <4> QED BY <4>1, <4>2
    <3>6. p > 0
      <4>1. p >= tile
        BY <1>1, <1>4, <2>2
      <4> QED BY <4>1
    <3> HIDE DEF parts
    <3>7. DOMAIN parts = {1, 2} /\ parts[1] = a /\ parts[2] = b
      BY <3>1
    <3>8. \A i \in DOMAIN parts : IsSegment(parts[i]) /\ OnGrid(parts[i], range, crouton) /\ parts[i].static
      BY <2>1, <2>4, <3>2, <3>4, <3>7
    <3>9. \A x \in 0 .. range - 1 : \E i \in DOMAIN parts : InSegment(parts[i], x)
      BY <3>5, <3>7
    <3>10. /\ range > tile /\ range % tile # 0 /\ parts = <<parts[1], parts[2]>>
           /\ parts[1].count = range \div tile /\ parts[1].first = 0
           /\ parts[2].count = 1 /\ parts[2].first > 0
      BY <1>4, <2>1, <2>7, <3>1, <3>2, <3>6, <3>7
    <3> QED BY <3>8, <3>9, <3>10 DEF parts
  <2> QED BY <2>6, <2>7
<1> QED BY <1>3, <1>4

\* An item of one part of the channels.
LEMMA OneItem ==
    ASSUME NEW rows, NEW chans
    PROVE  LET items == IF rows.count > 1 THEN <<[rows |-> rows, body |-> <<chans>>]>>
                        ELSE [i \in DOMAIN <<chans>> |-> [rows |-> rows, body |-> <<<<chans>>[i]>>]]
           IN  items = <<[rows |-> rows, body |-> <<chans>>]>>
<1>1. [i \in DOMAIN <<chans>> |-> [rows |-> rows, body |-> <<<<chans>>[i]>>]] = <<[rows |-> rows, body |-> <<chans>>]>>
  OBVIOUS
<1> QED BY <1>1

\* An item of segments on croutons is rewritten exactly, unless it starts from
\* zeros and is not the first.
LEMMA ItemIsGood ==
    ASSUME NEW conv, NEW items, NEW i, NEW r, NEW c, items[i] = [rows |-> r, body |-> <<c>>],
           IsSegment(r), OnGrid(r, conv.rows, CroutonHeight), IsSegment(c), OnGrid(c, conv.chans, CroutonDepth),
           i = 1 \/ CT!IsLoop(items[i - 1]) \/ ~CT!isWrappedConv2DOp(items, i)
    PROVE  GoodItem(conv, items, i) /\ HeldBy(conv, items, i) = Held(conv, r, c)
<1>1. items[i].rows = r /\ items[i].body = <<c>> /\ items[i].body[1] = c
  OBVIOUS
<1> QED BY <1>1 DEF GoodItem, HeldBy

\* What is cut on croutons so that no result is dropped is a run of items that
\* are rewritten exactly, and every element is in one of them.
LEMMA ItemsKeepAll ==
    ASSUME NEW conv, IsConv(conv), NEW tiles \in (Nat \ {0}) \X (Nat \ {0}),
           CT!CutsCroutons(conv, tiles), CT!KeepsEveryPiece(conv, tiles)
    PROVE  LET items == CT!Items(conv, tiles)
           IN  \E n \in Nat :
                  /\ DOMAIN items = 1 .. n /\ \A i \in 1 .. n : GoodItem(conv, items, i)
                  /\ \A rc \in CT!Outputs(conv) : \E i \in 1 .. n : rc \in HeldBy(conv, items, i)
<1> PICK rows \in Nat \ {0}, chans \in Nat \ {0} : rows = conv.rows /\ chans = conv.chans
  BY DEF IsConv
<1> PICK t1 \in Nat \ {0}, t2 \in Nat \ {0} : tiles[1] = t1 /\ tiles[2] = t2
  OBVIOUS
<1> PICK H \in Nat \ {0}, D \in Nat \ {0} : H = CroutonHeight /\ D = CroutonDepth
  BY CallsAssumption
<1> DEFINE items == CT!Items(conv, tiles)
           R == CT!Peeled(rows, t1)
           C == CT!Peeled(chans, t2)
           Item(r, c) == [rows |-> r, body |-> <<c>>]
           Ok(r) == IsSegment(r) /\ OnGrid(r, rows, H)
           OkC(c) == IsSegment(c) /\ OnGrid(c, chans, D)
<1>1. /\ \A i \in DOMAIN R : Ok(R[i]) /\ R[i].static
      /\ \A x \in 0 .. rows - 1 : \E i \in DOMAIN R : InSegment(R[i], x)
      /\ \/ rows <= t1 /\ R = <<R[1]>> /\ R[1].count = 1 /\ R[1].first = 0
         \/ rows > t1 /\ rows % t1 = 0 /\ R = <<R[1]>> /\ R[1].count > 1 /\ R[1].first = 0
         \/ /\ rows > t1 /\ rows % t1 # 0 /\ R = <<R[1], R[2]>>
            /\ R[1].count = rows \div t1 /\ R[1].first = 0
            /\ R[2].count = 1 /\ R[2].first > 0
  <2>1. rows <= t1 \/ t1 % H = 0
    BY DEF CT!CutsCroutons
  <2> HIDE DEF R
  <2> QED BY <2>1, PeeledParts DEF R
<1>2. /\ \A i \in DOMAIN C : OkC(C[i]) /\ C[i].static
      /\ \A x \in 0 .. chans - 1 : \E i \in DOMAIN C : InSegment(C[i], x)
      /\ \/ chans <= t2 /\ C = <<C[1]>> /\ C[1].count = 1 /\ C[1].first = 0
         \/ chans > t2 /\ chans % t2 = 0 /\ C = <<C[1]>> /\ C[1].count > 1 /\ C[1].first = 0
         \/ /\ chans > t2 /\ chans % t2 # 0 /\ C = <<C[1], C[2]>>
            /\ C[1].count = chans \div t2 /\ C[1].first = 0
            /\ C[2].count = 1 /\ C[2].first > 0
  <2>1. chans <= t2 \/ t2 % D = 0
    BY DEF CT!CutsCroutons
  <2> HIDE DEF C
  <2> QED BY <2>1, PeeledParts DEF C
<1>3. /\ rows > t1 /\ rows % t1 # 0 => rows \div t1 > 1 \/ chans > t2
      /\ chans > t2 /\ chans % t2 # 0 =>
            \/ rows <= t1 /\ chans \div t2 > 1
            \/ rows > t1 /\ rows % t1 # 0 /\ rows \div t1 = 1
  BY DEF CT!KeepsEveryPiece
<1>0. PICK dyn : dyn = [CT!Segment(0, C[1].count + 1, tiles[2]) EXCEPT !.static = FALSE]
  OBVIOUS
<1> DEFINE InRest == IF Len(C) = 2 THEN <<dyn>> ELSE C
           Ch(r) == IF r.first > 0 THEN InRest ELSE C
           Of(r) == IF r.count > 1 THEN <<[rows |-> r, body |-> Ch(r)]>>
                    ELSE [i \in DOMAIN Ch(r) |-> [rows |-> r, body |-> <<Ch(r)[i]>>]]
<1>4. items = IF Len(R) = 1 THEN Of(R[1]) ELSE Of(R[1]) \o Of(R[2])
  BY <1>0 DEF CT!Items, CT!Channels
<1>5. \A r, c : Ch(r) = <<c>> => Of(r) = <<Item(r, c)>>
  <2> SUFFICES ASSUME NEW r, NEW c, Ch(r) = <<c>> PROVE Of(r) = <<Item(r, c)>>
    OBVIOUS
  <2> HIDE DEF Ch
  <2> QED BY OneItem
<1>6. \A rc \in CT!Outputs(conv) : rc[1] \in 0 .. rows - 1 /\ rc[2] \in 0 .. chans - 1
  BY DEF CT!Outputs
<1> DEFINE Goal == \E n \in Nat :
                      /\ DOMAIN items = 1 .. n /\ \A i \in 1 .. n : GoodItem(conv, items, i)
                      /\ \A rc \in CT!Outputs(conv) : \E i \in 1 .. n : rc \in HeldBy(conv, items, i)
<1> HIDE DEF items, R, C
<1>7. ASSUME R = <<R[1]>>, R[1].first = 0, C = <<C[1]>>
      PROVE  Goal
  <2>1. DOMAIN R = {1} /\ Len(R) = 1 /\ DOMAIN C = {1}
    BY <1>7
  <2>2. Ch(R[1]) = <<C[1]>>
    BY <1>7
  <2> HIDE DEF Ch, Of, Item
  <2>3. items = <<Item(R[1], C[1])>>
    BY <1>4, <1>5, <2>1, <2>2
  <2>4. DOMAIN items = 1 .. 1 /\ items[1] = Item(R[1], C[1]) /\ 1 .. 1 = {1} /\ 1 \in Nat
    BY <2>3
  <2>5. GoodItem(conv, items, 1) /\ HeldBy(conv, items, 1) = Held(conv, R[1], C[1])
    BY <1>1, <1>2, <2>1, <2>4, ItemIsGood DEF Item
  <2>6. \A rc \in CT!Outputs(conv) : rc \in Held(conv, R[1], C[1])
    BY <1>1, <1>2, <1>6, <2>1 DEF Held
  <2> QED BY <2>4, <2>5, <2>6
<1>8. ASSUME R = <<R[1]>>, R[1].first = 0, R[1].count = 1, C = <<C[1], C[2]>>, C[1].count > 1
      PROVE  Goal
  <2>1. DOMAIN R = {1} /\ Len(R) = 1 /\ DOMAIN C = {1, 2}
    BY <1>8
  <2>2. Ch(R[1]) = C
    BY <1>8
  <2>3. items = <<Item(R[1], C[1]), Item(R[1], C[2])>>
    <3>1. Of(R[1]) = [i \in DOMAIN C |-> Item(R[1], C[i])]
      BY <1>8, <2>2
    <3> HIDE DEF Item, Of, Ch
    <3>2. [i \in DOMAIN C |-> Item(R[1], C[i])] = <<Item(R[1], C[1]), Item(R[1], C[2])>>
      BY <2>1
    <3> QED BY <1>4, <2>1, <3>1, <3>2
  <2> HIDE DEF Ch, Of, Item
  <2>4. /\ DOMAIN items = 1 .. 2 /\ 1 .. 2 = {1, 2} /\ 2 \in Nat /\ 2 - 1 = 1
        /\ items[1] = Item(R[1], C[1]) /\ items[2] = Item(R[1], C[2])
    BY <2>3
  <2>5. GoodItem(conv, items, 1) /\ HeldBy(conv, items, 1) = Held(conv, R[1], C[1])
    BY <1>1, <1>2, <2>1, <2>4, ItemIsGood DEF Item
  <2>6. CT!IsLoop(items[2 - 1])
    BY <1>8, <2>4 DEF CT!IsLoop, Item
  <2>7. GoodItem(conv, items, 2) /\ HeldBy(conv, items, 2) = Held(conv, R[1], C[2])
    BY <1>1, <1>2, <2>1, <2>4, <2>6, ItemIsGood DEF Item
  <2>8. \A rc \in CT!Outputs(conv) : rc \in Held(conv, R[1], C[1]) \/ rc \in Held(conv, R[1], C[2])
    BY <1>1, <1>2, <1>6, <2>1 DEF Held
  <2> QED BY <2>4, <2>5, <2>7, <2>8
<1>9. ASSUME R = <<R[1], R[2]>>, R[1].first = 0, R[2].first > 0, C = <<C[1]>>, R[1].count > 1 \/ C[1].count > 1
      PROVE  Goal
  <2>1. DOMAIN R = {1, 2} /\ Len(R) = 2 /\ DOMAIN C = {1} /\ Len(C) = 1
    BY <1>9
  <2>2. Ch(R[1]) = <<C[1]>> /\ Ch(R[2]) = <<C[1]>>
    BY <1>9, <2>1
  <2>3. items = <<Item(R[1], C[1]), Item(R[2], C[1])>>
    <3>1. Of(R[1]) = <<Item(R[1], C[1])>> /\ Of(R[2]) = <<Item(R[2], C[1])>>
      BY <1>5, <2>2
    <3> HIDE DEF Item, Of, Ch
    <3>2. items = Of(R[1]) \o Of(R[2])
      BY ONLY <1>4, <2>1
    <3>3. items = <<Item(R[1], C[1])>> \o <<Item(R[2], C[1])>>
      BY ONLY <3>1, <3>2
    <3> QED BY <3>3, PairOfOnes
  <2> HIDE DEF Ch, Of, Item
  <2>4. /\ DOMAIN items = 1 .. 2 /\ 1 .. 2 = {1, 2} /\ 2 \in Nat /\ 2 - 1 = 1
        /\ items[1] = Item(R[1], C[1]) /\ items[2] = Item(R[2], C[1])
    BY <2>3
  <2>5. GoodItem(conv, items, 1) /\ HeldBy(conv, items, 1) = Held(conv, R[1], C[1])
    BY <1>1, <1>2, <2>1, <2>4, ItemIsGood DEF Item
  <2>6. CT!IsLoop(items[2 - 1])
    BY <1>9, <2>4 DEF CT!IsLoop, Item
  <2>7. GoodItem(conv, items, 2) /\ HeldBy(conv, items, 2) = Held(conv, R[2], C[1])
    BY <1>1, <1>2, <2>1, <2>4, <2>6, ItemIsGood DEF Item
  <2>8. \A rc \in CT!Outputs(conv) : rc \in Held(conv, R[1], C[1]) \/ rc \in Held(conv, R[2], C[1])
    BY <1>1, <1>2, <1>6, <2>1 DEF Held
  <2> QED BY <2>4, <2>5, <2>7, <2>8
<1>10. ASSUME R = <<R[1], R[2]>>, R[1].first = 0, R[2].first > 0, R[1].count = 1,
              C = <<C[1], C[2]>>, C[1].count = chans \div t2, C[2].count = 1, chans > t2
       PROVE  Goal
  <2>1. DOMAIN R = {1, 2} /\ Len(R) = 2 /\ DOMAIN C = {1, 2} /\ Len(C) = 2
    BY <1>10
  <2>2. Ch(R[1]) = C /\ Ch(R[2]) = <<dyn>>
    <3>1. R[1].first = 0 /\ R[2].first > 0
      BY <1>10
    <3> QED BY ONLY <2>1, <3>1
  <2>3. items = <<Item(R[1], C[1]), Item(R[1], C[2]), Item(R[2], dyn)>>
    <3>1. Of(R[1]) = [i \in DOMAIN C |-> Item(R[1], C[i])]
      BY <1>10, <2>2
    <3> HIDE DEF Item, Of, Ch
    <3>2. [i \in DOMAIN C |-> Item(R[1], C[i])] = <<Item(R[1], C[1]), Item(R[1], C[2])>>
      BY <2>1
    <3>3. Of(R[2]) = <<Item(R[2], dyn)>>
      BY <1>5, <2>2
    <3>4. items = Of(R[1]) \o Of(R[2])
      BY ONLY <1>4, <2>1
    <3>5. items = <<Item(R[1], C[1]), Item(R[1], C[2])>> \o <<Item(R[2], dyn)>>
      BY ONLY <3>1, <3>2, <3>3, <3>4
    <3> QED BY <3>5, TripleOfOnes
  <2> PICK q \in Nat : q = chans \div t2
    BY DivBounds
  <2>13. dyn.first = 0 /\ dyn.count = q + 1 /\ dyn.size = t2 /\ ~dyn.static
    BY <1>0, <1>10 DEF CT!Segment
  <2>4. ~dyn.static /\ IsSegment(dyn) /\ OnGrid(dyn, chans, D)
    <3>1. t2 % D = 0 /\ 0 % D = 0
      BY <1>10 DEF CT!CutsCroutons
    <3> QED BY <2>13, <3>1 DEF IsSegment, OnGrid
  <2>5. \A y \in 0 .. chans - 1 : InSegment(dyn, y)
    <3> PICK p \in Nat, e \in Nat : p = q * t2 /\ e = (q + 1) * t2
      OBVIOUS
    <3>1. chans < p + t2
      BY DivBounds
    <3>2. e = p + t2
      OBVIOUS
    <3>3. \A y \in 0 .. chans - 1 : y - 0 \in 0 .. e - 1
      BY ONLY <3>1, <3>2, p \in Nat, e \in Nat, chans \in Nat, t2 \in Nat
    <3> QED BY <2>13, <3>3 DEF InSegment
  <2> HIDE DEF Ch, Of, Item
  <2>6. /\ DOMAIN items = 1 .. 3 /\ 1 .. 3 = {1, 2, 3} /\ 3 \in Nat /\ Len(items) = 3
        /\ items[1] = Item(R[1], C[1]) /\ items[2] = Item(R[1], C[2]) /\ items[3] = Item(R[2], dyn)
    BY <2>3
  <2>7. GoodItem(conv, items, 1) /\ HeldBy(conv, items, 1) = Held(conv, R[1], C[1])
    BY <1>1, <1>2, <2>1, <2>6, ItemIsGood DEF Item
  <2>8. ~CT!isWrappedConv2DOp(items, 2)
    BY <1>10, <2>6 DEF CT!isWrappedConv2DOp, CT!IsLoop, CT!Last, Item
  <2>9. GoodItem(conv, items, 2) /\ HeldBy(conv, items, 2) = Held(conv, R[1], C[2])
    BY <1>1, <1>2, <2>1, <2>6, <2>8, ItemIsGood DEF Item
  <2>10. ~CT!isWrappedConv2DOp(items, 3)
    <3>1. CT!Last(items[3].body) = dyn
      BY <2>6 DEF CT!Last, Item
    <3> QED BY <2>4, <3>1 DEF CT!isWrappedConv2DOp
  <2>11. GoodItem(conv, items, 3) /\ HeldBy(conv, items, 3) = Held(conv, R[2], dyn)
    BY <1>1, <2>1, <2>4, <2>6, <2>10, ItemIsGood DEF Item
  <2>12. \A rc \in CT!Outputs(conv) :
            rc \in Held(conv, R[1], C[1]) \/ rc \in Held(conv, R[1], C[2]) \/ rc \in Held(conv, R[2], dyn)
    BY <1>1, <1>2, <1>6, <2>1, <2>5 DEF Held
  <2> QED BY <2>6, <2>7, <2>9, <2>11, <2>12
<1>11. Goal
  <2> HIDE DEF Goal
  <2>1. CASE R = <<R[1]>> /\ R[1].first = 0 /\ C = <<C[1]>>
    BY <1>7, <2>1
  <2>2. CASE R = <<R[1]>> /\ R[1].first = 0 /\ chans > t2 /\ chans % t2 # 0
    <3>1. rows <= t1 /\ R[1].count = 1 /\ chans \div t2 > 1
      BY <1>1, <1>3, <2>2
    <3>2. C = <<C[1], C[2]>> /\ C[1].count > 1
      BY <1>2, <2>2, <3>1
    <3> QED BY <1>8, <2>2, <3>1, <3>2
  <2>3. CASE rows > t1 /\ rows % t1 # 0 /\ C = <<C[1]>>
    <3>1. R = <<R[1], R[2]>> /\ R[1].first = 0 /\ R[2].first > 0 /\ R[1].count = rows \div t1
      BY <1>1, <2>3
    <3>2. CASE chans <= t2
      <4>1. R[1].count > 1
        BY <1>3, <2>3, <3>1, <3>2
      <4> QED BY <1>9, <2>3, <3>1, <4>1
    <3>3. CASE chans > t2
      <4>1. C[1].count > 1
        BY <1>2, <2>3, <3>3
      <4> QED BY <1>9, <2>3, <3>1, <4>1
    <3> QED BY <3>2, <3>3
  <2>4. CASE rows > t1 /\ rows % t1 # 0 /\ chans > t2 /\ chans % t2 # 0
    <3>1. rows \div t1 = 1
      BY <1>3, <2>4
    <3>2. R = <<R[1], R[2]>> /\ R[1].first = 0 /\ R[2].first > 0 /\ R[1].count = 1
      BY <1>1, <2>4, <3>1
    <3>3. C = <<C[1], C[2]>> /\ C[1].count = chans \div t2 /\ C[2].count = 1
      BY <1>2, <2>4
    <3> QED BY <1>10, <2>4, <3>2, <3>3
  <2> QED BY <1>1, <1>2, <2>1, <2>2, <2>3, <2>4
<1> QED BY <1>11 DEF items

\* The tiles the convolutions are cut in are whole croutons and drop no piece.
ConvsKeepEveryPiece ==
    \A conv \in Convolutions :
        /\ IsConv(conv)
        /\ LET tiles == CT!TileSizes(conv)
           IN  tiles # <<>> => /\ tiles \in (Nat \ {0}) \X (Nat \ {0})
                               /\ CT!CutsCroutons(conv, tiles) /\ CT!KeepsEveryPiece(conv, tiles)

(***************************************************************************)
(* Calls.                                                                    *)
(***************************************************************************)
\* What the call that was made was given.
GivenInputs ==
    /\ call.alg = "band" => call.in \in Bands
    /\ call.alg = "caches" => call.in \in CacheSets
    /\ call.alg = "tiling" => call.in \in Tilings
    /\ call.alg = "split" => call.in \in Reductions
    /\ call.alg = "slicing" => call.in \in Slicings
    /\ call.alg = "vtcm" => call.in \in VTCMTilings
    /\ call.alg = "conv" => call.in \in Convolutions
    /\ call.alg = "threads" => call.in \in Threadings
    /\ call.alg = "scan" => call.in \in ScanInputs
    /\ call.alg = "cumsum" => call.in \in SumInputs
    /\ call.alg = "copy" => \E c \in Copies : call.in \in {c, [c EXCEPT !.dest = HB!External(@.base, c.n)],
                                                          [c EXCEPT !.src = HB!External(@.base, c.n)]}

\* No call was made at first.
LEMMA InitGivesNone == Init => GivenInputs
BY DEF Init, NoCall, GivenInputs

\* Each action calls with one of its inputs.
LEMMA NextGivesInputs == GivenInputs /\ [Next]_call => GivenInputs'
<1> SUFFICES ASSUME GivenInputs, [Next]_call PROVE GivenInputs'
  OBVIOUS
<1>1. CASE UNCHANGED call
  BY <1>1 DEF GivenInputs
<1>2. CASE Next
  BY <1>2 DEF Next, GivenInputs, Call, BareissLU, MatroidIntersection, AffinePipelineFusion, AffineTiling, TileMemoryFit,
     TileMemoryCopy, HexagonTiling, SplitReduceGeneric, HexagonSlicing, VTCMTiling, ConvTiling, FormVirtualThreads,
     FoldPackUnpackConstants, EliminateRedundantUnpackPack, LowerScan, LowerCumSum, CopyTo, CopyFrom, CopyFromBuffer,
     SeedLayoutConversions, MatmulToConv, ForceHVXCrouton, ConvertLayout, FoldResourceTranspose, HoistScalarOps,
     SCFLoopUnroll, SmallExponentToMultiply
<1> QED BY <1>1, <1>2

\* The calls of every behaviour are given one of their inputs.
LEMMA InputsAreGiven == Spec => []GivenInputs
BY InitGivesNone, NextGivesInputs, PTL DEF Spec

\* Scans and cumulative sums of LowerTTX.cpp, for inputs of every shape: each
\* element combines itself and all before it, in the order of the scan.
THEOREM ScansAreExact == Spec => []ScanIsExact
<1>1. GivenInputs => ScanIsExact
  <2> SUFFICES ASSUME GivenInputs PROVE ScanIsExact
    OBVIOUS
  <2>1. CASE call.alg = "scan"
    <3> PICK size \in Nat \ {0}, reverse \in BOOLEAN : call.in = <<size, reverse>>
      BY <2>1, ScansAssumption DEF GivenInputs
    <3>1. SC!ScansInOrder(size, reverse)
      BY ScanLoop
    <3> QED BY <2>1, <3>1 DEF ScanIsExact
  <2>2. CASE call.alg = "cumsum"
    <3> PICK shape \in Seq(Nat \ {0}) : shape = call.in[1] /\ call.in[2] \in DOMAIN shape
      BY <2>2, ScansAssumption DEF GivenInputs
    <3> PICK axis \in DOMAIN shape : axis = call.in[2]
      OBVIOUS
    <3>1. SC!SumsAlong(shape, axis)
      BY SumLoop
    <3> QED BY <2>2, <3>1 DEF ScanIsExact
  <2>3. CASE call.alg \notin {"scan", "cumsum"}
    BY <2>3 DEF ScanIsExact
  <2> QED BY <2>1, <2>2, <2>3
<1> QED BY <1>1, InputsAreGiven, PTL

\* The passes that cut an operation: for every operation, every size of a vector
\* and every option, each iteration contributes once to its element and nothing
\* else does, and no two threads share an element.
THEOREM IterationsAreRunOnce == Spec => []IterationsRunOnce
<1>1. GivenInputs => IterationsRunOnce
  <2> SUFFICES ASSUME GivenInputs PROVE IterationsRunOnce
    OBVIOUS
  <2>1. CASE call.alg = "tiling"
    <3> PICK in \in Tilings : in = call.in
      BY <2>1 DEF GivenInputs
    <3>1. LT!RunsOnce(in[1], LT!HexagonTiling(in[1], in[2], in[3]))
      BY OperationsAssumption, TilingRunsOnce
    <3> QED BY <2>1, <3>1 DEF IterationsRunOnce
  <2>2. CASE call.alg = "split"
    <3> PICK op \in Reductions : op = call.in
      BY <2>2 DEF GivenInputs
    <3>1. LT!RunsOnce(op, LT!SplitReduceGeneric(op))
      BY OperationsAssumption, SplitReduceRunsOnce
    <3> QED BY <2>2, <3>1 DEF IterationsRunOnce
  <2>3. CASE call.alg = "slicing"
    <3> PICK in \in Slicings : in = call.in
      BY <2>3 DEF GivenInputs
    <3>1. LT!RunsOnce(in[1], LT!sliceLinalgOp(in[1], in[2]))
      BY OperationsAssumption, SlicingRunsOnce
    <3> QED BY <2>3, <3>1 DEF IterationsRunOnce
  <2>4. CASE call.alg = "vtcm"
    <3> PICK in \in VTCMTilings : in = call.in
      BY <2>4 DEF GivenInputs
    <3>1. LT!RunsOnce(in[1], LT!VTCMTiling(in[1], in[2], in[3]))
      BY OperationsAssumption, VTCMTilingRunsOnce
    <3> QED BY <2>4, <3>1 DEF IterationsRunOnce
  <2>5. CASE call.alg = "threads"
    <3> PICK in \in Threadings : in = call.in
      BY <2>5 DEF GivenInputs
    <3>1. /\ LT!RunsOnce(in[1], LT!FormVirtualThreads(in[1], in[2], in[3], in[4]))
          /\ LT!ThreadsApart(in[1], LT!rewriteForTLP(in[1], in[2], in[3], in[4]))
      BY OperationsAssumption, ThreadsRunOnce
    <3> QED BY <2>5, <3>1 DEF IterationsRunOnce
  <2>6. CASE call.alg \notin {"tiling", "split", "slicing", "vtcm", "threads"}
    BY <2>6 DEF IterationsRunOnce
  <2> QED BY <2>1, <2>2, <2>3, <2>4, <2>5, <2>6
<1> QED BY <1>1, InputsAreGiven, PTL

\* VTCMTilingOptions.cpp: for every operation and every budget, what vtcm-tiling
\* copies for the tiles it determined itself fits the budget.
THEOREM TilesAlwaysFitVTCM == Spec => []TilesFitVTCM
<1>1. GivenInputs => TilesFitVTCM
  <2> SUFFICES ASSUME GivenInputs, call.alg = "vtcm", call.in[2] = <<>>,
                      LT!getTileSizes(call.in[1], <<>>, call.in[3]) # <<>>
               PROVE  LT!VTCMBytes(call.in[1], LT!getTileSizes(call.in[1], <<>>, call.in[3])) <= call.in[3]
    BY DEF TilesFitVTCM
  <2> PICK in \in VTCMTilings : in = call.in
    BY DEF GivenInputs
  <2>1. IsOperation(in[1]) /\ in[3] \in Nat \ {0}
    BY OperationsAssumption
  <2> QED BY <2>1, VTCMTilingFits
<1> QED BY <1>1, InputsAreGiven, PTL

\* HexagonBuffer.cpp: between buffers of every shape, and between a buffer and
\* plain memory, a copy moves the bytes asked for and changes no other.
THEOREM CopiesAreExact == Spec => []CopiedExactly
<1>1. GivenInputs => CopiedExactly
  <2> SUFFICES ASSUME GivenInputs, call.alg = "copy"
               PROVE  HB!CopiesExactly(call.in.dest, call.in.src, call.in.n)
    BY DEF CopiedExactly
  <2> PICK c \in Copies : call.in \in {c, [c EXCEPT !.dest = HB!External(@.base, c.n)],
                                        [c EXCEPT !.src = HB!External(@.base, c.n)]}
    BY DEF GivenInputs
  <2> PICK dest, src, n : dest = call.in.dest /\ src = call.in.src /\ n = call.in.n
    OBVIOUS
  <2>1. CanCopy(c.dest, c.src, c.n) /\ CanCopy(HB!External(c.dest.base, c.n), c.src, c.n)
        /\ CanCopy(c.dest, HB!External(c.src.base, c.n), c.n)
    BY CopiesAssumption
  <2>2. CanCopy(dest, src, n)
    <3>1. CASE call.in = c
      BY <2>1, <3>1
    <3>2. CASE call.in = [c EXCEPT !.dest = HB!External(@.base, c.n)]
      BY <2>1, <3>2
    <3>3. CASE call.in = [c EXCEPT !.src = HB!External(@.base, c.n)]
      BY <2>1, <3>3
    <3> QED BY <3>1, <3>2, <3>3
  <2>3. HB!CopiesExactly(dest, src, n)
    BY <2>2, CopyIsExact
  <2> QED BY <2>3
<1> QED BY <1>1, InputsAreGiven, PTL

\* AffineTilingPass.cpp and AffineTileMemoryPass.cpp: for every band of which an
\* iteration fits the cache a tile fits it and no tile is partial, and for every
\* loop the caches that are chosen fit together.
THEOREM TilesAlwaysFitCache == Spec => []TilesFitCache
<1>1. GivenInputs => TilesFitCache
  <2> SUFFICES ASSUME GivenInputs PROVE TilesFitCache
    OBVIOUS
  <2>1. CASE call.alg = "band"
    <3> PICK in \in Bands : in = call.in
      BY <2>1 DEF GivenInputs
    <3>1. AT!TilesFit(in[1], in[2], in[3], in[4])
      BY CachesAssumption, BandTilesFit
    <3> QED BY <2>1, <3>1 DEF TilesFitCache
  <2>2. CASE call.alg = "caches"
    <3> PICK in \in CacheSets : in = call.in
      BY <2>2 DEF GivenInputs
    <3>1. TM!CachesFit(in[1], in[2])
      BY CachesAssumption, ChosenCachesFit
    <3> QED BY <2>2, <3>1 DEF TilesFitCache
  <2>3. CASE call.alg \notin {"band", "caches"}
    BY <2>3 DEF TilesFitCache
  <2> QED BY <2>1, <2>2, <2>3
<1> QED BY <1>1, InputsAreGiven, PTL

\* conv-tiling and preprocess-tiled-conv2d: whatever the convolution, the sizes
\* of its tiles, the peeled loops and the croutons, when each tile that is cut is
\* of whole croutons and no piece is dropped every element of the result is
\* computed from the same rows and the same filter.
THEOREM TiledConvsAreSame ==
    ASSUME ConvsKeepEveryPiece
    PROVE  Spec => []TiledConvIsSame
<1>1. GivenInputs => TiledConvIsSame
  <2> SUFFICES ASSUME GivenInputs, call.alg = "conv" PROVE CT!PreprocessTiledConv2D(call.in) = CT!Conv2D(call.in)
    BY DEF TiledConvIsSame
  <2> PICK conv \in Convolutions : conv = call.in
    BY DEF GivenInputs
  <2> PICK tiles : tiles = CT!TileSizes(conv)
    OBVIOUS
  <2>1. CASE tiles = <<>>
    BY <2>1 DEF CT!PreprocessTiledConv2D
  <2>2. CASE tiles # <<>>
    <3>1. /\ IsConv(conv) /\ tiles \in (Nat \ {0}) \X (Nat \ {0})
          /\ CT!CutsCroutons(conv, tiles) /\ CT!KeepsEveryPiece(conv, tiles)
      BY <2>2 DEF ConvsKeepEveryPiece
    <3> PICK items : items = CT!Items(conv, tiles)
      OBVIOUS
    <3>2. PICK n \in Nat : /\ DOMAIN items = 1 .. n /\ \A i \in 1 .. n : GoodItem(conv, items, i)
                           /\ \A rc \in CT!Outputs(conv) : \E i \in 1 .. n : rc \in HeldBy(conv, items, i)
      BY <3>1, ItemsKeepAll
    <3>3. CT!Preprocessed(conv, items)
            = [rc \in CT!Outputs(conv) |->
                 IF \E i \in 1 .. n : rc \in HeldBy(conv, items, i) THEN CT!Conv2D(conv)[rc] ELSE CT!Nothing]
      BY <3>1, <3>2, ItemsRun
    <3>4. CT!Preprocessed(conv, items) = [rc \in CT!Outputs(conv) |-> CT!Conv2D(conv)[rc]]
      BY <3>2, <3>3
    <3>5. [rc \in CT!Outputs(conv) |-> CT!Conv2D(conv)[rc]] = CT!Conv2D(conv)
      BY DEF CT!Conv2D
    <3> QED BY <2>2, <3>4, <3>5 DEF CT!PreprocessTiledConv2D
  <2> QED BY <2>1, <2>2
<1> QED BY <1>1, InputsAreGiven, PTL

=============================================================================
