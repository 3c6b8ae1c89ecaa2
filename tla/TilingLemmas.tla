---------------------------- MODULE TilingLemmas ----------------------------
(***************************************************************************)
(* The tilings of LinalgTiling for every operation and every tile size: the  *)
(* pieces of a plan meet every iteration exactly once and no other.           *)
(***************************************************************************)
EXTENDS CallAlgorithms, VectorLemmas

\* The loops of a static shape that is not empty.
IsRanges(ranges) == ranges \in Seq(Nat \ {0})

\* What holds of the tiles of one loop: they lie in it, and each of its
\* iterations is in one of them.
Inside(t, range) ==
    t.offset \in Nat /\ t.size \in Nat \ {0} /\ t.offset + t.size <= range
Within(t, x) == t.offset <= x /\ x < t.offset + t.size

\* An iteration; Points are iterations.
IsPoint(ranges, p) ==
    p \in [DOMAIN ranges -> Nat] /\ \A d \in DOMAIN ranges : p[d] < ranges[d]

PieceInside(ranges, piece) ==
    \A d \in DOMAIN ranges :
        /\ piece.offset[d] \in Nat /\ piece.size[d] \in Nat \ {0}
        /\ piece.offset[d] + piece.size[d] <= ranges[d]

\* The pieces cut the iteration space: each lies inside it, and every iteration
\* is in one and in no other.
Cuts(ranges, pieces) ==
    /\ \A piece \in pieces : PieceInside(ranges, piece)
    /\ \A p : IsPoint(ranges, p) =>
          \E piece \in pieces :
              LT!Holds(piece, p) /\ \A other \in pieces : LT!Holds(other, p) => other = piece

-----------------------------------------------------------------------------
\* Arithmetic of tiles.

\* The number of tiles is the quotient rounded up.
LEMMA TileCount ==
    ASSUME NEW range \in Nat \ {0}, NEW tile \in Nat \ {0}
    PROVE  \E n \in Nat \ {0} : /\ n = LT!CeilDivide(range, tile)
                                /\ tile * (n - 1) < range /\ range <= tile * n
<1> PICK a \in Nat : a = range + tile - 1
  OBVIOUS
<1> PICK n \in Int : n = a \div tile
  OBVIOUS
<1>1. tile * n <= a /\ a < tile * n + tile
  OBVIOUS
<1>2. tile * (n - 1) = tile * n - tile
  OBVIOUS
<1>3. n # 0 /\ n >= 0
  <2>1. CASE n <= 0
    <3>1. tile * n <= 0
      BY <2>1
    <3> QED BY <1>1, <3>1
  <2> QED BY <2>1
<1>4. n = LT!CeilDivide(range, tile)
  BY DEF LT!CeilDivide
<1> QED BY <1>1, <1>2, <1>3, <1>4

\* Multiples of a tile are at least a tile apart.
LEMMA TilesApart ==
    ASSUME NEW tile \in Nat \ {0}, NEW j \in Int, NEW k \in Int, j < k
    PROVE  j * tile + tile <= k * tile
<1> PICK d \in Nat : k = j + 1 + d
  <2>1. k - j - 1 \in Nat /\ k = j + 1 + (k - j - 1)
    OBVIOUS
  <2> QED BY <2>1
<1>1. k * tile = j * tile + tile + d * tile
  OBVIOUS
<1>2. d * tile >= 0
  OBVIOUS
<1> QED BY <1>1, <1>2

\* A tile bounded by the loop ends at the next multiple or at the end.
LEMMA BoundedTile ==
    ASSUME NEW range \in Nat \ {0}, NEW tile \in Nat \ {0}, NEW k \in Nat,
           k * tile < range
    PROVE  LET size == LT!getBoundedTileSize(range, k * tile, tile)
           IN  /\ size \in Nat \ {0}
               /\ size = LT!Least(range - k * tile, tile)
<1> PICK o \in Nat : o = k * tile
  OBVIOUS
<1>1. CASE tile = 1 \/ range % tile = 0
  <2>1. o + tile <= range
    <3>1. CASE tile = 1
      BY <3>1
    <3>2. CASE range % tile = 0
      <4> PICK q \in Nat, r \in 0 .. tile - 1 : r = range % tile /\ range = tile * q + r
        BY DivModNames
      <4>1. range = q * tile
        BY <3>2
      <4>2. k < q
        <5> SUFFICES ASSUME q <= k PROVE FALSE
          OBVIOUS
        <5>1. q # k
          BY <4>1
        <5>2. q * tile + tile <= k * tile
          BY <5>1, TilesApart
        <5>3. range + tile <= o
          BY <4>1, <5>2
        <5> QED BY <5>3
      <4>3. k * tile + tile <= q * tile
        BY <4>2, TilesApart
      <4> QED BY <4>1, <4>3
    <3> QED BY <1>1, <3>1, <3>2
  <2> QED BY <1>1, <2>1 DEF LT!getBoundedTileSize, LT!Least
<1>2. CASE ~(tile = 1 \/ range % tile = 0)
  BY <1>2 DEF LT!getBoundedTileSize, LT!Least
<1> QED BY <1>1, <1>2

-----------------------------------------------------------------------------
\* One loop.

\* Every tile of a loop is inside it.
LEMMA TilesInside ==
    ASSUME NEW range \in Nat \ {0}, NEW tile \in Nat, NEW t \in LT!TilesOf(range, tile)
    PROVE  Inside(t, range)
<1>1. CASE tile = 0
  BY <1>1 DEF LT!TilesOf, Inside
<1>2. CASE tile # 0
  <2> PICK n \in Nat \ {0} : /\ n = LT!CeilDivide(range, tile)
                             /\ tile * (n - 1) < range /\ range <= tile * n
    BY <1>2, TileCount
  <2> PICK k \in 0 .. (n - 1) :
          t = [offset |-> k * tile, size |-> LT!getBoundedTileSize(range, k * tile, tile)]
    BY <1>2 DEF LT!TilesOf
  <2>1. k * tile < range /\ k * tile \in Nat
    <3>1. CASE k = n - 1
      BY <3>1
    <3>2. CASE k < n - 1
      <4>1. k * tile + tile <= (n - 1) * tile
        BY <1>2, <3>2, TilesApart
      <4>2. (n - 1) * tile = tile * (n - 1)
        OBVIOUS
      <4> QED BY <1>2, <4>1, <4>2
    <3> QED BY <3>1, <3>2
  <2> PICK o \in Nat : o = k * tile
    BY <2>1
  <2>2. /\ LT!getBoundedTileSize(range, o, tile) \in Nat \ {0}
        /\ LT!getBoundedTileSize(range, o, tile) = LT!Least(range - o, tile)
    BY <1>2, <2>1, BoundedTile
  <2>3. t.offset = o /\ t.size = LT!Least(range - o, tile)
    BY <2>2
  <2> QED BY <1>2, <2>1, <2>2, <2>3 DEF Inside, LT!Least
<1> QED BY <1>1, <1>2

\* Every iteration of a loop is in exactly one tile.
LEMMA OneTileEach ==
    ASSUME NEW range \in Nat \ {0}, NEW tile \in Nat, NEW x \in Nat, x < range
    PROVE  \E t \in LT!TilesOf(range, tile) :
              Within(t, x) /\ \A u \in LT!TilesOf(range, tile) : Within(u, x) => u = t
<1>1. CASE tile = 0
  <2>1. LT!TilesOf(range, tile) = {[offset |-> 0, size |-> range]}
    BY <1>1 DEF LT!TilesOf
  <2>2. Within([offset |-> 0, size |-> range], x)
    BY DEF Within
  <2>3. \E t : LT!TilesOf(range, tile) = {t} /\ Within(t, x)
    BY <2>1, <2>2
  <2> QED BY <2>3
<1>2. CASE tile # 0
  <2> PICK n \in Nat \ {0} : /\ n = LT!CeilDivide(range, tile)
                             /\ tile * (n - 1) < range /\ range <= tile * n
    BY <1>2, TileCount
  <2> tile \in Nat \ {0}
    BY <1>2
  <2> PICK q \in Nat, r \in 0 .. tile - 1 : r = x % tile /\ x = tile * q + r
    BY DivModNames
  <2>1. q * tile = tile * q /\ q * tile <= x /\ x < q * tile + tile
    BY <1>2
  <2>2. q \in 0 .. (n - 1)
    <3>1. CASE n <= q
      <4>1. PICK d \in Nat : q = n + d
        <5>1. q - n \in Nat /\ q = n + (q - n)
          BY <3>1
        <5> QED BY <5>1
      <4>2. tile * q = tile * n + tile * d /\ tile * d >= 0
        BY <4>1
      <4> QED BY <2>1, <4>2
    <3> QED BY <3>1
  <2> DEFINE T(k) == [offset |-> k * tile, size |-> LT!getBoundedTileSize(range, k * tile, tile)]
  <2>3. LT!TilesOf(range, tile) = {T(k) : k \in 0 .. (n - 1)}
    BY <1>2 DEF LT!TilesOf
  <2>4. \A k \in 0 .. (n - 1) :
            Within(T(k), x) => k * tile <= x /\ x < k * tile + tile
    <3> SUFFICES ASSUME NEW k \in 0 .. (n - 1), Within(T(k), x)
                 PROVE  k * tile <= x /\ x < k * tile + tile
      OBVIOUS
    <3> PICK o \in Nat : o = k * tile
      BY <1>2
    <3>1. o <= x /\ x < o + LT!getBoundedTileSize(range, o, tile)
      BY DEF Within
    <3>2. LT!getBoundedTileSize(range, o, tile) = LT!Least(range - o, tile)
      BY <1>2, <3>1, BoundedTile
    <3> QED BY <1>2, <3>1, <3>2 DEF LT!Least
  <2>5. Within(T(q), x)
    <3> PICK o \in Nat : o = q * tile
      BY <1>2
    <3>1. LT!getBoundedTileSize(range, o, tile) = LT!Least(range - o, tile)
      BY <1>2, <2>1, BoundedTile
    <3> QED BY <1>2, <2>1, <3>1 DEF Within, LT!Least
  <2>6. \A k \in 0 .. (n - 1) : Within(T(k), x) => k = q
    <3> SUFFICES ASSUME NEW k \in 0 .. (n - 1), Within(T(k), x)
                 PROVE  k = q
      OBVIOUS
    <3> PICK o \in Nat, b \in Nat : o = k * tile /\ b = q * tile
      BY <1>2
    <3>1. o <= x /\ x < o + tile /\ b <= x /\ x < b + tile
      BY <2>1, <2>4
    <3>2. CASE k < q
      <4>1. o + tile <= b
        BY <1>2, <3>2, TilesApart
      <4> QED BY <3>1, <4>1
    <3>3. CASE q < k
      <4>1. b + tile <= o
        BY <1>2, <3>3, TilesApart
      <4> QED BY <3>1, <4>1
    <3> QED BY <3>2, <3>3
  <2> QED BY <2>2, <2>3, <2>5, <2>6
<1> QED BY <1>1, <1>2

-----------------------------------------------------------------------------
\* All loops together.

\* The tiles of all loops, combined in every way, cut the iteration space.
LEMMA TiledCuts ==
    ASSUME NEW ranges, IsRanges(ranges), NEW tiles \in [DOMAIN ranges -> Nat]
    PROVE  Cuts(ranges, LT!Tiled(ranges, tiles))
<1> DEFINE All == UNION {LT!TilesOf(ranges[d], tiles[d]) : d \in DOMAIN ranges}
           TileChoices == {f \in [DOMAIN ranges -> All] :
                          \A d \in DOMAIN ranges : f[d] \in LT!TilesOf(ranges[d], tiles[d])}
           Piece(f) == [offset |-> [d \in DOMAIN ranges |-> f[d].offset],
                        size |-> [d \in DOMAIN ranges |-> f[d].size]]
<1>1. LT!Tiled(ranges, tiles) = {Piece(f) : f \in TileChoices}
  BY DEF LT!Tiled
<1>2. \A d \in DOMAIN ranges : ranges[d] \in Nat \ {0} /\ tiles[d] \in Nat
  BY DEF IsRanges
<1>3. ASSUME NEW f \in TileChoices
      PROVE  PieceInside(ranges, Piece(f))
  <2>1. \A d \in DOMAIN ranges : f[d] \in LT!TilesOf(ranges[d], tiles[d])
    OBVIOUS
  <2>2. \A d \in DOMAIN ranges : Inside(f[d], ranges[d])
    BY <1>2, <2>1, TilesInside
  <2> QED BY <2>2 DEF PieceInside, Inside
<1>4. ASSUME NEW f \in TileChoices, NEW p, IsPoint(ranges, p)
      PROVE  LT!Holds(Piece(f), p) <=> \A d \in DOMAIN ranges : Within(f[d], p[d])
  BY <1>4 DEF LT!Holds, Within, IsPoint
<1>5. ASSUME NEW p, IsPoint(ranges, p)
      PROVE  \E f \in TileChoices :
                LT!Holds(Piece(f), p) /\ \A g \in TileChoices : LT!Holds(Piece(g), p) => g = f
  <2> DEFINE Only(t, d) ==
                 /\ t \in LT!TilesOf(ranges[d], tiles[d]) /\ Within(t, p[d])
                 /\ \A u \in LT!TilesOf(ranges[d], tiles[d]) : Within(u, p[d]) => u = t
             f == [d \in DOMAIN ranges |-> CHOOSE t \in All : Only(t, d)]
  <2>1. \A d \in DOMAIN ranges : p[d] \in Nat /\ p[d] < ranges[d]
    BY <1>5 DEF IsPoint
  <2>2. \A d \in DOMAIN ranges : \E t \in LT!TilesOf(ranges[d], tiles[d]) : Only(t, d)
    BY <1>2, <2>1, OneTileEach
  <2>3. \A d \in DOMAIN ranges : \E t \in All : Only(t, d)
    BY <2>2
  <2>4. \A d \in DOMAIN ranges : f[d] \in All /\ Only(f[d], d)
    BY <2>3
  <2> HIDE DEF Only
  <2>5. f \in TileChoices
    <3>1. f \in [DOMAIN ranges -> All]
      BY <2>4
    <3> QED BY <2>4, <3>1 DEF Only
  <2>6. LT!Holds(Piece(f), p)
    BY <1>4, <1>5, <2>4, <2>5 DEF Only
  <2>7. ASSUME NEW g \in TileChoices, LT!Holds(Piece(g), p)
        PROVE  g = f
    <3>1. \A d \in DOMAIN ranges : Within(g[d], p[d])
      BY <1>4, <1>5, <2>7
    <3>2. \A d \in DOMAIN ranges : g[d] = f[d]
      BY <2>4, <3>1 DEF Only
    <3> QED BY <2>5, <3>2
  <2> QED BY <2>5, <2>6, <2>7
<1> HIDE DEF TileChoices, Piece
<1> QED BY <1>1, <1>3, <1>5 DEF Cuts

\* The operation as one piece is cut as well.
LEMMA WholeCuts ==
    ASSUME NEW ranges, IsRanges(ranges)
    PROVE  Cuts(ranges, {LT!Whole(ranges)})
<1>1. \A d \in DOMAIN ranges : ranges[d] \in Nat \ {0}
  BY DEF IsRanges
<1>2. PieceInside(ranges, LT!Whole(ranges))
  BY <1>1 DEF PieceInside, LT!Whole
<1>3. \A p : IsPoint(ranges, p) => LT!Holds(LT!Whole(ranges), p)
  BY <1>1 DEF IsPoint, LT!Holds, LT!Whole
<1> QED BY <1>2, <1>3 DEF Cuts

-----------------------------------------------------------------------------
\* What the pieces compute.

\* An iteration of an operation is a point of its ranges.
LEMMA PointsArePoints ==
    ASSUME NEW ranges, NEW p \in LT!Points(ranges)
    PROVE  IsPoint(ranges, p)
<1> PICK n : n = LT!Total(ranges)
  OBVIOUS
<1>1. p \in [DOMAIN ranges -> 0 .. n] /\ \A d \in DOMAIN ranges : p[d] < ranges[d]
  BY DEF LT!Points
<1>2. \A x \in 0 .. n : x \in Nat
  OBVIOUS
<1> QED BY <1>1, <1>2 DEF IsPoint

\* The pieces reach the end of each loop and no further.
LEMMA CutsReachTheEnd ==
    ASSUME NEW ranges, IsRanges(ranges), NEW pieces, Cuts(ranges, pieces),
           NEW d \in DOMAIN ranges
    PROVE  LT!Max({piece.offset[d] + piece.size[d] : piece \in pieces}) = ranges[d]
<1> DEFINE Ends == {piece.offset[d] + piece.size[d] : piece \in pieces}
           last == [e \in DOMAIN ranges |-> ranges[e] - 1]
<1>1. \A e \in DOMAIN ranges : ranges[e] \in Nat \ {0}
  BY DEF IsRanges
<1>2. IsPoint(ranges, last)
  BY <1>1 DEF IsPoint
<1>3. PICK piece \in pieces : LT!Holds(piece, last)
  BY <1>2 DEF Cuts
<1>4. last[d] < piece.offset[d] + piece.size[d]
  BY <1>3 DEF LT!Holds
<1>5. \A x \in Ends : x \in Int /\ x <= ranges[d]
  BY <1>1 DEF Cuts, PieceInside
<1>6. piece.offset[d] + piece.size[d] = ranges[d]
  <2> PICK z : z = piece.offset[d] + piece.size[d]
    OBVIOUS
  <2>1. z \in Ends
    OBVIOUS
  <2>2. z \in Int /\ z <= ranges[d]
    BY <1>5, <2>1
  <2>3. last[d] = ranges[d] - 1 /\ last[d] < z
    BY <1>4
  <2>4. ranges[d] \in Nat \ {0}
    BY <1>1
  <2> HIDE DEF last
  <2>5. z = ranges[d]
    BY <2>2, <2>3, <2>4
  <2> QED BY <2>5
<1>7. ranges[d] \in Ends
  BY <1>6
<1> HIDE DEF Ends
<1>8. \E x \in Ends : \A y \in Ends : x >= y
  BY <1>1, <1>5, <1>7
<1>9. LT!Max(Ends) \in Ends /\ \A y \in Ends : LT!Max(Ends) >= y
  BY <1>8 DEF LT!Max
<1>10. LT!Max(Ends) = ranges[d]
  BY <1>1, <1>5, <1>7, <1>9
<1> QED BY <1>10 DEF Ends

\* Pieces that cut the iteration space reach no padding.
LEMMA CutsReachNoPadding ==
    ASSUME NEW op, IsRanges(op.ranges), NEW pieces, Cuts(op.ranges, pieces), NEW dims, NEW inits
    PROVE  LT!PaddedPoints(op, LT!Plan(pieces, dims, inits)) = {}
<1> DEFINE plan == LT!Plan(pieces, dims, inits)
           reach == [d \in LT!Loops(op) |-> LT!Max({piece.offset[d] + piece.size[d] : piece \in plan.pieces})]
<1>1. plan.pieces = pieces
  BY DEF LT!Plan
<1>2. \A d \in LT!Loops(op) :
          LT!Max({piece.offset[d] + piece.size[d] : piece \in pieces}) = op.ranges[d]
  BY CutsReachTheEnd DEF LT!Loops
<1>3. \A d \in LT!Loops(op) : LT!Largest(op.ranges[d], op.ranges[d]) = op.ranges[d]
  BY DEF LT!Largest
<1>4. op.ranges = [d \in LT!Loops(op) |-> op.ranges[d]]
  BY DEF IsRanges, LT!Loops
<1>5. [d \in LT!Loops(op) |-> LT!Largest(reach[d], op.ranges[d])] = op.ranges
  BY <1>1, <1>2, <1>3, <1>4
<1>6. LT!PaddedPoints(op, plan)
        = LT!Points([d \in LT!Loops(op) |-> LT!Largest(reach[d], op.ranges[d])]) \ LT!Points(op.ranges)
  BY DEF LT!PaddedPoints
<1> QED BY <1>5, <1>6

\* A plan whose pieces cut the iteration space, with no lanes and no value of its
\* own, runs every iteration once and reads no padding.
LEMMA CutsRunOnce ==
    ASSUME NEW op, IsRanges(op.ranges), NEW pieces, Cuts(op.ranges, pieces)
    PROVE  LT!RunsOnce(op, LT!Plan(pieces, <<>>, 0))
<1> DEFINE plan == LT!Plan(pieces, <<>>, 0)
<1>1. plan.pieces = pieces /\ plan.dims = <<>> /\ plan.inits = 0
  BY DEF LT!Plan
<1>2. \A p \in LT!Points(op.ranges) : Cardinality({piece \in pieces : LT!Holds(piece, p)}) = 1
  <2> SUFFICES ASSUME NEW p \in LT!Points(op.ranges)
               PROVE  Cardinality({piece \in pieces : LT!Holds(piece, p)}) = 1
    OBVIOUS
  <2>1. PICK piece \in pieces :
            LT!Holds(piece, p) /\ \A other \in pieces : LT!Holds(other, p) => other = piece
    BY PointsArePoints DEF Cuts
  <2>2. {other \in pieces : LT!Holds(other, p)} = {piece}
    BY <2>1
  <2> QED BY <2>2, FS_Singleton
<1>3. LT!PaddedPoints(op, plan) = {}
  BY CutsReachNoPadding
<1> HIDE DEF plan
<1>4. LT!EachOnce(op, plan)
  <2>1. \A T : LT!Cardinality(T) = Cardinality(T)
    BY DEF LT!Cardinality, Cardinality
  <2> QED BY <1>1, <1>2, <2>1 DEF LT!EachOnce
<1> QED BY <1>1, <1>3, <1>4 DEF LT!RunsOnce, plan

-----------------------------------------------------------------------------
\* The passes.

\* The last n entries of a list.
LEMMA LastEntries ==
    ASSUME NEW s \in Seq(Nat), NEW n \in Nat, n <= Len(s)
    PROVE  SubSeq(s, Len(s) - n + 1, Len(s)) \in [1 .. n -> Nat]
<1> PICK m \in Nat : m = Len(s)
  OBVIOUS
<1> PICK k \in Int : k = m - n + 1
  OBVIOUS
<1> PICK e : e = SubSeq(s, k, m)
  OBVIOUS
<1>1. \A i \in k .. m : s[i] \in Nat
  OBVIOUS
<1>2. e \in Seq(Nat) /\ Len(e) = IF k <= m THEN m - k + 1 ELSE 0
  BY <1>1, SubSeqProperties
<1>3. Len(e) = n
  BY <1>2
<1>4. e \in Seq(Nat)
  BY <1>2
<1>5. e \in [1 .. Len(e) -> Nat]
  BY ONLY <1>4
<1> QED BY ONLY <1>3, <1>5, e = SubSeq(s, k, m), k = m - n + 1, m = Len(s)

(***************************************************************************)
(* Sums and products of tile sizes.                                         *)
(***************************************************************************)
\* The sums, and the products, of the first entries of a sequence.
SumsUpTo(g, s, n) ==
    /\ g \in [0 .. n -> Nat]
    /\ g[0] = 0
    /\ \A i \in 1 .. n : g[i] = g[i - 1] + s[i]
ProductsUpTo(g, s, n) ==
    /\ g \in [0 .. n -> Nat]
    /\ g[0] = 1
    /\ \A i \in 1 .. n : g[i] = g[i - 1] * s[i]

\* Total adds the entries up one after the other.
LEMMA TotalFold ==
    ASSUME NEW n \in Nat, NEW s \in [1 .. n -> Nat]
    PROVE  \E g : SumsUpTo(g, s, n) /\ LT!Total(s) = g[n]
<1> DEFINE step == [x \in Nat \X (1 .. n) |-> x[1] + s[x[2]]]
<1>1. step \in [Nat \X (1 .. n) -> Nat]
  OBVIOUS
<1>2. PICK it : FoldsBy(it, n, Nat, 0, step)
  <2>1. 0 \in Nat
    OBVIOUS
  <2> HIDE DEF step
  <2> QED BY <1>1, <2>1, FoldExists, Zenon
<1>3. it = [t \in SUBSET DOMAIN s |-> IF t = {} THEN 0 ELSE it[t \ {Max(t)}] + s[Max(t)]]
  <2>1. \A t \in SUBSET (1 .. n) : t # {} => Max(t) \in 1 .. n
    BY FoldIndices
  <2>2. ASSUME NEW t \in SUBSET (1 .. n), t # {}
        PROVE  it[t] = it[t \ {Max(t)}] + s[Max(t)]
    <3>1. it[t \ {Max(t)}] \in Nat
      BY <1>2 DEF FoldsBy
    <3>2. it[t] = step[<<it[t \ {Max(t)}], Max(t)>>]
      BY <1>2, <2>2 DEF FoldsBy
    <3> QED BY <2>1, <2>2, <3>1, <3>2
  <2>3. it \in [SUBSET (1 .. n) -> Nat] /\ it[{}] = 0
    BY <1>2 DEF FoldsBy
  <2> QED BY <2>2, <2>3
<1>4. PICK jt : /\ jt = [t \in SUBSET DOMAIN s |-> IF t = {} THEN 0 ELSE jt[t \ {Max(t)}] + s[Max(t)]]
                /\ LT!Total(s) = jt[DOMAIN s]
  <2>1. LT!Total(s) = (CHOOSE jt : jt = [t \in SUBSET DOMAIN s |->
                          IF t = {} THEN 0 ELSE jt[t \ {Max(t)}] + s[Max(t)]])[DOMAIN s]
    BY DEF LT!Total, LT!FoldLeft, LT!MapThenFoldSet, LT!Max, Max
  <2> QED BY <1>3, <2>1
<1> DEFINE S == {i \in 0 .. n : jt[1 .. i] \in Nat}
           g == [i \in 0 .. n |-> jt[1 .. i]]
<1>5. jt[1 .. 0] = 0
  <2>1. 1 .. 0 = {} /\ 1 .. 0 \in SUBSET DOMAIN s
    BY FoldIndices
  <2> QED BY <1>4, <2>1
<1>6. \A i \in 1 .. n : jt[1 .. i] = jt[1 .. (i - 1)] + s[i]
  <2> TAKE i \in 1 .. n
  <2>1. 1 .. i \in SUBSET DOMAIN s /\ 1 .. i # {} /\ Max(1 .. i) = i /\ (1 .. i) \ {i} = 1 .. (i - 1)
    BY FoldIndices
  <2> QED BY <1>4, <2>1
<1>7. 0 \in S
  <2>1. 0 \in 0 .. n
    OBVIOUS
  <2> QED BY <1>5, <2>1
<1>8. ASSUME NEW i \in 0 .. n - 1, i \in S PROVE i + 1 \in S
  <2>1. i + 1 \in 1 .. n /\ (i + 1) - 1 = i /\ i + 1 \in 0 .. n
    OBVIOUS
  <2>2. jt[1 .. (i + 1)] = jt[1 .. i] + s[i + 1]
    BY <1>6, <2>1
  <2> QED BY <1>8, <2>1, <2>2
<1>9. \A i \in 0 .. n : i \in S
  <2> HIDE DEF S
  <2> QED BY <1>7, <1>8, Induction
<1>10. SumsUpTo(g, s, n)
  <2>1. g \in [0 .. n -> Nat] /\ g[0] = 0
    BY <1>5, <1>9
  <2>2. \A i \in 1 .. n : g[i] = g[i - 1] + s[i]
    <3> TAKE i \in 1 .. n
    <3>1. i \in 0 .. n /\ i - 1 \in 0 .. n
      OBVIOUS
    <3> QED BY <1>6, <3>1
  <2> HIDE DEF g
  <2> QED BY <2>1, <2>2 DEF SumsUpTo
<1>11. LT!Total(s) = g[n]
  <2>1. DOMAIN s = 1 .. n /\ n \in 0 .. n
    OBVIOUS
  <2> QED BY <1>4, <2>1
<1> QED BY <1>10, <1>11

\* Prod multiplies them.
LEMMA ProdFold ==
    ASSUME NEW n \in Nat, NEW s \in [1 .. n -> Nat]
    PROVE  \E g : ProductsUpTo(g, s, n) /\ LT!Prod(s) = g[n]
<1> DEFINE step == [x \in Nat \X (1 .. n) |-> x[1] * s[x[2]]]
<1>1. step \in [Nat \X (1 .. n) -> Nat]
  OBVIOUS
<1>2. PICK it : FoldsBy(it, n, Nat, 1, step)
  <2>1. 1 \in Nat
    OBVIOUS
  <2> HIDE DEF step
  <2> QED BY <1>1, <2>1, FoldExists, Zenon
<1>3. it = [t \in SUBSET DOMAIN s |-> IF t = {} THEN 1 ELSE it[t \ {Max(t)}] * s[Max(t)]]
  <2>1. \A t \in SUBSET (1 .. n) : t # {} => Max(t) \in 1 .. n
    BY FoldIndices
  <2>2. ASSUME NEW t \in SUBSET (1 .. n), t # {}
        PROVE  it[t] = it[t \ {Max(t)}] * s[Max(t)]
    <3>1. it[t \ {Max(t)}] \in Nat
      BY <1>2 DEF FoldsBy
    <3>2. it[t] = step[<<it[t \ {Max(t)}], Max(t)>>]
      BY <1>2, <2>2 DEF FoldsBy
    <3> QED BY <2>1, <2>2, <3>1, <3>2
  <2>3. it \in [SUBSET (1 .. n) -> Nat] /\ it[{}] = 1
    BY <1>2 DEF FoldsBy
  <2> QED BY <2>2, <2>3
<1>4. PICK jt : /\ jt = [t \in SUBSET DOMAIN s |-> IF t = {} THEN 1 ELSE jt[t \ {Max(t)}] * s[Max(t)]]
                /\ LT!Prod(s) = jt[DOMAIN s]
  <2>1. LT!Prod(s) = (CHOOSE jt : jt = [t \in SUBSET DOMAIN s |->
                          IF t = {} THEN 1 ELSE jt[t \ {Max(t)}] * s[Max(t)]])[DOMAIN s]
    BY DEF LT!Prod, LT!FoldLeft, LT!MapThenFoldSet, LT!Max, Max
  <2> QED BY <1>3, <2>1
<1> DEFINE S == {i \in 0 .. n : jt[1 .. i] \in Nat}
           g == [i \in 0 .. n |-> jt[1 .. i]]
<1>5. jt[1 .. 0] = 1
  <2>1. 1 .. 0 = {} /\ 1 .. 0 \in SUBSET DOMAIN s
    BY FoldIndices
  <2> QED BY <1>4, <2>1
<1>6. \A i \in 1 .. n : jt[1 .. i] = jt[1 .. (i - 1)] * s[i]
  <2> TAKE i \in 1 .. n
  <2>1. 1 .. i \in SUBSET DOMAIN s /\ 1 .. i # {} /\ Max(1 .. i) = i /\ (1 .. i) \ {i} = 1 .. (i - 1)
    BY FoldIndices
  <2> QED BY <1>4, <2>1
<1>7. 0 \in S
  <2>1. 0 \in 0 .. n
    OBVIOUS
  <2> QED BY <1>5, <2>1
<1>8. ASSUME NEW i \in 0 .. n - 1, i \in S PROVE i + 1 \in S
  <2>1. i + 1 \in 1 .. n /\ (i + 1) - 1 = i /\ i + 1 \in 0 .. n
    OBVIOUS
  <2>2. jt[1 .. (i + 1)] = jt[1 .. i] * s[i + 1]
    BY <1>6, <2>1
  <2>3. s[i + 1] \in Nat /\ jt[1 .. i] \in Nat
    BY <1>8, <2>1
  <2> QED BY <2>1, <2>2, <2>3
<1>9. \A i \in 0 .. n : i \in S
  <2> HIDE DEF S
  <2> QED BY <1>7, <1>8, Induction
<1>10. ProductsUpTo(g, s, n)
  <2>1. g \in [0 .. n -> Nat] /\ g[0] = 1
    BY <1>5, <1>9
  <2>2. \A i \in 1 .. n : g[i] = g[i - 1] * s[i]
    <3> TAKE i \in 1 .. n
    <3>1. i \in 0 .. n /\ i - 1 \in 0 .. n
      OBVIOUS
    <3> QED BY <1>6, <3>1
  <2> HIDE DEF g
  <2> QED BY <2>1, <2>2 DEF ProductsUpTo
<1>11. LT!Prod(s) = g[n]
  <2>1. DOMAIN s = 1 .. n /\ n \in 0 .. n
    OBVIOUS
  <2> QED BY <1>4, <2>1
<1> QED BY <1>10, <1>11

\* A greater entry makes no smaller sum.
LEMMA TotalMonotone ==
    ASSUME NEW n \in Nat, NEW s \in [1 .. n -> Nat], NEW t \in [1 .. n -> Nat],
           \A i \in 1 .. n : s[i] <= t[i]
    PROVE  LT!Total(s) \in Nat /\ LT!Total(t) \in Nat /\ LT!Total(s) <= LT!Total(t)
<1> PICK g : SumsUpTo(g, s, n) /\ LT!Total(s) = g[n]
  BY TotalFold
<1> PICK h : SumsUpTo(h, t, n) /\ LT!Total(t) = h[n]
  BY TotalFold
<1> DEFINE S == {i \in 0 .. n : g[i] <= h[i]}
<1>1. /\ g \in [0 .. n -> Nat] /\ g[0] = 0 /\ \A i \in 1 .. n : g[i] = g[i - 1] + s[i]
      /\ h \in [0 .. n -> Nat] /\ h[0] = 0 /\ \A i \in 1 .. n : h[i] = h[i - 1] + t[i]
  BY DEF SumsUpTo
<1>2. 0 \in S
  BY <1>1
<1>3. ASSUME NEW i \in 0 .. n - 1, i \in S PROVE i + 1 \in S
  <2>1. i + 1 \in 1 .. n /\ (i + 1) - 1 = i /\ i + 1 \in 0 .. n /\ i \in 0 .. n
    OBVIOUS
  <2>2. g[i + 1] = g[i] + s[i + 1] /\ h[i + 1] = h[i] + t[i + 1] /\ s[i + 1] <= t[i + 1]
    BY <1>1, <2>1
  <2>3. g[i] \in Nat /\ h[i] \in Nat /\ s[i + 1] \in Nat /\ t[i + 1] \in Nat
    BY <1>1, <2>1
  <2> QED BY <1>3, <2>1, <2>2, <2>3
<1>4. \A i \in 0 .. n : i \in S
  <2> HIDE DEF S
  <2> QED BY <1>2, <1>3, Induction
<1>5. n \in 0 .. n
  OBVIOUS
<1> QED BY <1>1, <1>4, <1>5

\* Taking one off every entry takes one off the sum at least.
LEMMA TotalLess ==
    ASSUME NEW n \in Nat \ {0}, NEW s \in [1 .. n -> Nat], NEW t \in [1 .. n -> Nat],
           \A i \in 1 .. n : t[i] + 1 = s[i]
    PROVE  LT!Total(t) + 1 <= LT!Total(s)
<1> PICK g : SumsUpTo(g, s, n) /\ LT!Total(s) = g[n]
  BY TotalFold
<1> PICK h : SumsUpTo(h, t, n) /\ LT!Total(t) = h[n]
  BY TotalFold
<1> DEFINE S == {i \in 0 .. n : i = 0 \/ h[i] + 1 <= g[i]}
<1>1. /\ g \in [0 .. n -> Nat] /\ g[0] = 0 /\ \A i \in 1 .. n : g[i] = g[i - 1] + s[i]
      /\ h \in [0 .. n -> Nat] /\ h[0] = 0 /\ \A i \in 1 .. n : h[i] = h[i - 1] + t[i]
  BY DEF SumsUpTo
<1>2. 0 \in S
  BY <1>1
<1>3. ASSUME NEW i \in 0 .. n - 1, i \in S PROVE i + 1 \in S
  <2>1. i + 1 \in 1 .. n /\ (i + 1) - 1 = i /\ i + 1 \in 0 .. n /\ i \in 0 .. n
    OBVIOUS
  <2>2. g[i + 1] = g[i] + s[i + 1] /\ h[i + 1] = h[i] + t[i + 1] /\ t[i + 1] + 1 = s[i + 1]
    BY <1>1, <2>1
  <2>3. g[i] \in Nat /\ h[i] \in Nat /\ s[i + 1] \in Nat /\ t[i + 1] \in Nat
    BY <1>1, <2>1
  <2>4. i = 0 => g[i] = 0 /\ h[i] = 0
    BY <1>1
  <2>5. i = 0 \/ h[i] + 1 <= g[i]
    BY <1>3
  <2>6. h[i] <= g[i]
    BY ONLY <2>3, <2>4, <2>5
  <2>7. h[i + 1] + 1 <= g[i + 1]
    <3> PICK a, b, c, d, e, f : /\ a = g[i] /\ b = h[i] /\ c = s[i + 1]
                                /\ d = t[i + 1] /\ e = g[i + 1] /\ f = h[i + 1]
      OBVIOUS
    <3>1. /\ a \in Nat /\ b \in Nat /\ c \in Nat /\ d \in Nat
          /\ e = a + c /\ f = b + d /\ d + 1 = c /\ b <= a
      BY ONLY <2>2, <2>3, <2>6, a = g[i], b = h[i], c = s[i + 1],
              d = t[i + 1], e = g[i + 1], f = h[i + 1]
    <3>2. f + 1 <= e
      BY ONLY <3>1
    <3> QED BY <3>2
  <2> QED BY <2>1, <2>7
<1>4. \A i \in 0 .. n : i \in S
  <2> HIDE DEF S
  <2> QED BY <1>2, <1>3, Induction
<1>5. n \in 0 .. n /\ n # 0
  OBVIOUS
<1> QED BY <1>1, <1>4, <1>5

\* The sum of numbers from one on is one at least.
LEMMA TotalPositive ==
    ASSUME NEW n \in Nat \ {0}, NEW s \in [1 .. n -> Nat \ {0}]
    PROVE  LT!Total(s) \in Nat \ {0}
<1> DEFINE t == [i \in 1 .. n |-> s[i] - 1]
<1>1. t \in [1 .. n -> Nat] /\ s \in [1 .. n -> Nat] /\ n \in Nat
  OBVIOUS
<1>2. \A i \in 1 .. n : t[i] + 1 = s[i]
  OBVIOUS
<1> HIDE DEF t
<1>3. LT!Total(t) \in Nat /\ LT!Total(s) \in Nat
  <2>1. (\A i \in 1 .. n : t[i] <= t[i]) /\ (\A i \in 1 .. n : s[i] <= s[i])
    BY <1>1
  <2> QED BY <1>1, <2>1, TotalMonotone
<1>4. LT!Total(t) + 1 <= LT!Total(s)
  BY <1>1, <1>2, TotalLess
<1> QED BY <1>3, <1>4

\* Products of natural numbers respect their order.
LEMMA TimesMonotone ==
    ASSUME NEW a \in Nat, NEW b \in Nat, NEW c \in Nat, NEW d \in Nat, a <= c, b <= d
    PROVE  a * b <= c * d
<1>1. a * b <= c * b
  <2> PICK e \in Nat : c = a + e
    <3>1. c - a \in Nat /\ c = a + (c - a)
      OBVIOUS
    <3> QED BY <3>1
  <2>1. c * b = a * b + e * b /\ e * b \in Nat /\ a * b \in Nat
    OBVIOUS
  <2> QED BY <2>1
<1>2. c * b <= c * d
  <2> PICK e \in Nat : d = b + e
    <3>1. d - b \in Nat /\ d = b + (d - b)
      OBVIOUS
    <3> QED BY <3>1
  <2>1. c * d = c * b + c * e /\ c * e \in Nat /\ c * b \in Nat
    OBVIOUS
  <2> QED BY <2>1
<1>3. a * b \in Nat /\ c * b \in Nat /\ c * d \in Nat
  OBVIOUS
<1> QED BY <1>1, <1>2, <1>3

\* A greater factor makes no smaller product.
LEMMA ProdMonotone ==
    ASSUME NEW n \in Nat, NEW s \in [1 .. n -> Nat], NEW t \in [1 .. n -> Nat],
           \A i \in 1 .. n : s[i] <= t[i]
    PROVE  LT!Prod(s) \in Nat /\ LT!Prod(t) \in Nat /\ LT!Prod(s) <= LT!Prod(t)
<1> PICK g : ProductsUpTo(g, s, n) /\ LT!Prod(s) = g[n]
  BY ProdFold
<1> PICK h : ProductsUpTo(h, t, n) /\ LT!Prod(t) = h[n]
  BY ProdFold
<1> DEFINE S == {i \in 0 .. n : g[i] <= h[i]}
<1>1. /\ g \in [0 .. n -> Nat] /\ g[0] = 1 /\ \A i \in 1 .. n : g[i] = g[i - 1] * s[i]
      /\ h \in [0 .. n -> Nat] /\ h[0] = 1 /\ \A i \in 1 .. n : h[i] = h[i - 1] * t[i]
  BY DEF ProductsUpTo
<1>2. 0 \in S
  BY <1>1
<1>3. ASSUME NEW i \in 0 .. n - 1, i \in S PROVE i + 1 \in S
  <2>1. i + 1 \in 1 .. n /\ (i + 1) - 1 = i /\ i + 1 \in 0 .. n /\ i \in 0 .. n
    OBVIOUS
  <2>2. g[i + 1] = g[i] * s[i + 1] /\ h[i + 1] = h[i] * t[i + 1] /\ s[i + 1] <= t[i + 1]
    BY <1>1, <2>1
  <2>3. g[i] \in Nat /\ h[i] \in Nat /\ s[i + 1] \in Nat /\ t[i + 1] \in Nat
    BY <1>1, <2>1
  <2>4. g[i] * s[i + 1] <= h[i] * t[i + 1]
    BY <1>3, <2>2, <2>3, TimesMonotone
  <2> QED BY <2>1, <2>2, <2>4
<1>4. \A i \in 0 .. n : i \in S
  <2> HIDE DEF S
  <2> QED BY <1>2, <1>3, Induction
<1>5. n \in 0 .. n
  OBVIOUS
<1> QED BY <1>1, <1>4, <1>5

\* The next power of two is twice the power.
LEMMA PowersOf2 ==
    /\ LT!PowerOf2(0) = 1
    /\ \A k \in Nat : LT!PowerOf2(k) \in Nat /\ LT!PowerOf2(k + 1) = 2 * LT!PowerOf2(k)
<1> DEFINE twos(n) == [i \in 1 .. n |-> 2]
<1>1. ASSUME NEW k \in Nat
      PROVE  LT!PowerOf2(k) \in Nat /\ LT!PowerOf2(k + 1) = 2 * LT!PowerOf2(k)
  <2>1. k + 1 \in Nat /\ twos(k) \in [1 .. k -> Nat] /\ twos(k + 1) \in [1 .. k + 1 -> Nat]
    OBVIOUS
  <2> PICK a \in [1 .. k -> Nat] : a = twos(k)
    BY <2>1
  <2> PICK b \in [1 .. k + 1 -> Nat] : b = twos(k + 1)
    BY <2>1
  <2>2. LT!PowerOf2(k) = LT!Prod(a) /\ LT!PowerOf2(k + 1) = LT!Prod(b)
    BY DEF LT!PowerOf2
  <2>3. (\A i \in 1 .. k : a[i] = 2) /\ (\A i \in 1 .. k + 1 : b[i] = 2)
    OBVIOUS
  <2> HIDE DEF twos
  <2> PICK g : ProductsUpTo(g, a, k) /\ LT!Prod(a) = g[k]
    BY ProdFold
  <2> PICK h : ProductsUpTo(h, b, k + 1) /\ LT!Prod(b) = h[k + 1]
    BY <2>1, ProdFold
  <2> DEFINE S == {i \in 0 .. k : g[i] = h[i]}
  <2>4. /\ g \in [0 .. k -> Nat] /\ g[0] = 1 /\ \A i \in 1 .. k : g[i] = g[i - 1] * 2
        /\ h \in [0 .. k + 1 -> Nat] /\ h[0] = 1 /\ \A i \in 1 .. k + 1 : h[i] = h[i - 1] * 2
    BY <2>3 DEF ProductsUpTo
  <2>5. 0 \in S
    BY <2>4
  <2>6. ASSUME NEW i \in 0 .. k - 1, i \in S PROVE i + 1 \in S
    <3>1. i + 1 \in 1 .. k /\ i + 1 \in 1 .. k + 1 /\ (i + 1) - 1 = i /\ i + 1 \in 0 .. k
      OBVIOUS
    <3>2. g[i + 1] = g[i] * 2 /\ h[i + 1] = h[i] * 2
      BY <2>4, <3>1
    <3> QED BY <2>6, <3>1, <3>2
  <2>7. \A i \in 0 .. k : i \in S
    <3> HIDE DEF S
    <3> QED BY <2>5, <2>6, Induction
  <2>8. k \in 0 .. k /\ k \in 0 .. k + 1 /\ k + 1 \in 1 .. k + 1 /\ (k + 1) - 1 = k
    OBVIOUS
  <2>9. g[k] = h[k] /\ h[k + 1] = h[k] * 2 /\ g[k] \in Nat /\ h[k] \in Nat
    BY <2>4, <2>7, <2>8
  <2> QED BY <2>2, <2>9
<1>2. LT!PowerOf2(0) = 1
  <2>1. twos(0) \in [1 .. 0 -> Nat]
    OBVIOUS
  <2> PICK a \in [1 .. 0 -> Nat] : a = twos(0)
    BY <2>1
  <2> PICK g : ProductsUpTo(g, a, 0) /\ LT!Prod(a) = g[0]
    BY ProdFold
  <2> QED BY DEF ProductsUpTo, LT!PowerOf2
<1> QED BY <1>1, <1>2

\* Powers of two grow faster than their exponents.
LEMMA PowersGrow ==
    ASSUME NEW n \in Nat
    PROVE  \A k \in 0 .. n : LT!PowerOf2(k) \in Nat /\ LT!PowerOf2(k) > k
<1> DEFINE S == {k \in 0 .. n : LT!PowerOf2(k) > k}
<1>1. 0 \in S
  BY PowersOf2
<1>2. ASSUME NEW k \in 0 .. n - 1, k \in S PROVE k + 1 \in S
  <2>1. k \in Nat /\ k + 1 \in 0 .. n
    OBVIOUS
  <2>2. LT!PowerOf2(k) \in Nat /\ LT!PowerOf2(k + 1) = 2 * LT!PowerOf2(k)
    BY <2>1, PowersOf2
  <2> QED BY <1>2, <2>1, <2>2
<1>3. \A k \in 0 .. n : k \in S
  <2> HIDE DEF S
  <2> QED BY <1>1, <1>2, Induction
<1> QED BY <1>3, PowersOf2

\* The reduction factor is a power of two, and cutting by it is enough.
LEMMA ReductionFactor ==
    ASSUME NEW size \in Nat, NEW budget \in Nat \ {0}
    PROVE  /\ LT!getReductionFactor(size, budget) \in Nat \ {0}
           /\ LT!getReductionFactor(size, budget) * budget >= size
<1>1. CASE size < budget
  BY <1>1 DEF LT!getReductionFactor
<1>2. CASE ~(size < budget)
  <2> DEFINE Enough(k) == LT!PowerOf2(k) * budget >= size
             Fits(k) == Enough(k) /\ (k = 0 \/ LT!PowerOf2(k - 1) * budget < size)
             S == {k \in 0 .. size : ~Enough(k)}
  <2>1. \A k \in 0 .. size : LT!PowerOf2(k) \in Nat /\ LT!PowerOf2(k) > k
    BY PowersGrow
  <2>2. Enough(size)
    <3>1. size \in 0 .. size
      OBVIOUS
    <3> PICK p \in Nat : p = LT!PowerOf2(size)
      BY <2>1, <3>1
    <3>2. p > size
      BY <2>1, <3>1
    <3>3. size * 1 <= p * budget
      BY <3>2, TimesMonotone
    <3>4. p * budget \in Nat
      OBVIOUS
    <3> QED BY <3>3, <3>4
  <2>3. \E k \in 0 .. size : Fits(k)
    <3> SUFFICES ASSUME \A k \in 0 .. size : ~Fits(k) PROVE FALSE
      OBVIOUS
    <3>1. 0 \in S
      <4>1. 0 \in 0 .. size
        OBVIOUS
      <4> HIDE DEF Enough
      <4> QED BY <4>1
    <3>2. ASSUME NEW k \in 0 .. size - 1, k \in S PROVE k + 1 \in S
      <4>1. k + 1 \in 0 .. size /\ k + 1 # 0 /\ (k + 1) - 1 = k
        OBVIOUS
      <4> PICK p \in Nat : p = LT!PowerOf2(k)
        BY <2>1
      <4>2. p * budget \in Nat
        OBVIOUS
      <4>3. p * budget < size
        BY <3>2, <4>2
      <4>4. ~Fits(k + 1)
        BY <4>1
      <4> HIDE DEF S
      <4>5. ~Enough(k + 1)
        <5> HIDE DEF Enough
        <5> QED BY <4>1, <4>3, <4>4
      <4> HIDE DEF Enough
      <4> QED BY <4>1, <4>5 DEF S
    <3>3. \A k \in 0 .. size : k \in S
      <4> HIDE DEF S
      <4> QED BY <3>1, <3>2, Induction
    <3>4. size \in 0 .. size
      OBVIOUS
    <3> HIDE DEF Enough
    <3> QED BY <2>2, <3>3, <3>4
  <2>4. PICK k \in 0 .. size : Fits(k) /\ LT!getReductionFactor(size, budget) = LT!PowerOf2(k)
    <3>1. LT!getReductionFactor(size, budget) = LT!PowerOf2(CHOOSE k \in 0 .. size : Fits(k))
      BY <1>2 DEF LT!getReductionFactor
    <3> HIDE DEF Fits
    <3> QED BY <2>3, <3>1
  <2> QED BY <2>1, <2>4
<1> QED BY <1>1, <1>2

\* What an entry of a map adds up to, for tiles that are not empty.
LEMMA EntryBounds ==
    ASSUME NEW n \in Nat, NEW sizes \in [1 .. n -> Nat \ {0}], NEW m \in Seq(1 .. n)
    PROVE  /\ LT!Total([j \in DOMAIN m |-> sizes[m[j]]]) \in Nat
           /\ LT!Total([j \in DOMAIN m |-> sizes[m[j]] - 1]) \in Nat
           /\ m = <<>> => /\ LT!Total([j \in DOMAIN m |-> sizes[m[j]]]) = 0
                          /\ LT!Total([j \in DOMAIN m |-> sizes[m[j]] - 1]) = 0
           /\ m # <<>> => LT!Total([j \in DOMAIN m |-> sizes[m[j]] - 1]) + 1
                            <= LT!Total([j \in DOMAIN m |-> sizes[m[j]]])
<1> DEFINE full == [j \in DOMAIN m |-> sizes[m[j]]]
           less == [j \in DOMAIN m |-> sizes[m[j]] - 1]
<1> PICK l \in Nat : l = Len(m) /\ DOMAIN m = 1 .. l
  OBVIOUS
<1>1. \A j \in 1 .. l : sizes[m[j]] \in Nat \ {0}
  <2> TAKE j \in 1 .. l
  <2>1. m[j] \in 1 .. n
    OBVIOUS
  <2> QED BY <2>1
<1>2. /\ full \in [1 .. l -> Nat] /\ less \in [1 .. l -> Nat]
      /\ \A j \in 1 .. l : less[j] + 1 = full[j]
  BY <1>1
<1>3. m # <<>> => l \in Nat \ {0}
  OBVIOUS
<1>4. m = <<>> => l = 0
  OBVIOUS
<1> HIDE DEF full, less
<1>5. LT!Total(full) \in Nat /\ LT!Total(less) \in Nat
  <2> PICK f \in [1 .. l -> Nat], e \in [1 .. l -> Nat] : f = full /\ e = less
    BY <1>2
  <2>1. (\A j \in 1 .. l : f[j] <= f[j]) /\ (\A j \in 1 .. l : e[j] <= e[j])
    BY ONLY f \in [1 .. l -> Nat], e \in [1 .. l -> Nat]
  <2>2. LT!Total(f) \in Nat
    BY <2>1, TotalMonotone
  <2>3. LT!Total(e) \in Nat
    BY <2>1, TotalMonotone
  <2> QED BY <2>2, <2>3
<1>6. m # <<>> => LT!Total(less) + 1 <= LT!Total(full)
  BY <1>2, <1>3, TotalLess
<1>7. ASSUME m = <<>> PROVE LT!Total(full) = 0 /\ LT!Total(less) = 0
  <2> PICK g : SumsUpTo(g, full, l) /\ LT!Total(full) = g[l]
    BY <1>2, TotalFold
  <2> PICK h : SumsUpTo(h, less, l) /\ LT!Total(less) = h[l]
    BY <1>2, TotalFold
  <2> QED BY <1>4, <1>7 DEF SumsUpTo
<1> QED BY <1>5, <1>6, <1>7 DEF full, less

\* How often the tiling options count the dimensions of an operand.
Counted(map, sizes) ==
    [i \in DOMAIN map |-> IF map[i] = <<>> THEN 1 ELSE LT!Total([j \in DOMAIN map[i] |-> sizes[map[i][j]]])]

\* The tile of an operand is not larger than what is counted for it, and an
\* operand that is copied as a whole is its tile.
LEMMA OperandIsCounted ==
    ASSUME NEW n \in Nat, NEW sizes \in [1 .. n -> Nat \ {0}], NEW map \in Seq(Seq(1 .. n)),
           NEW l \in Nat, l = Len(map)
    PROVE  /\ Counted(map, sizes) \in [1 .. l -> Nat]
           /\ LT!Extents(map, sizes) \in [1 .. l -> Nat]
           /\ \A i \in 1 .. l : LT!Extents(map, sizes)[i] <= Counted(map, sizes)[i]
           /\ [i \in DOMAIN map |-> LT!Largest(1, LT!Total([j \in DOMAIN map[i] |-> sizes[map[i][j]]]))]
                = Counted(map, sizes)
<1>1. DOMAIN map = 1 .. l /\ \A i \in 1 .. l : map[i] \in Seq(1 .. n)
  OBVIOUS
<1> DEFINE T(i) == LT!Total([j \in DOMAIN map[i] |-> sizes[map[i][j]]])
           U(i) == LT!Total([j \in DOMAIN map[i] |-> sizes[map[i][j]] - 1])
<1>2. ASSUME NEW i \in 1 .. l
      PROVE  /\ T(i) \in Nat /\ U(i) \in Nat
             /\ map[i] = <<>> => T(i) = 0 /\ U(i) = 0
             /\ map[i] # <<>> => U(i) + 1 <= T(i)
  <2> PICK m \in Seq(1 .. n) : m = map[i]
    BY <1>1
  <2> QED BY EntryBounds
<1>3. /\ Counted(map, sizes) = [i \in 1 .. l |-> IF map[i] = <<>> THEN 1 ELSE T(i)]
      /\ LT!Extents(map, sizes) = [i \in 1 .. l |-> U(i) + 1]
      /\ [i \in DOMAIN map |-> LT!Largest(1, LT!Total([j \in DOMAIN map[i] |-> sizes[map[i][j]]]))]
            = [i \in 1 .. l |-> IF 1 < T(i) THEN T(i) ELSE 1]
  BY <1>1 DEF Counted, LT!Extents, LT!Largest
<1> HIDE DEF T, U
<1>4. ASSUME NEW i \in 1 .. l
      PROVE  /\ (IF map[i] = <<>> THEN 1 ELSE T(i)) \in Nat
             /\ U(i) + 1 \in Nat
             /\ U(i) + 1 <= (IF map[i] = <<>> THEN 1 ELSE T(i))
             /\ (IF 1 < T(i) THEN T(i) ELSE 1) = (IF map[i] = <<>> THEN 1 ELSE T(i))
  <2> PICK total \in Nat, less \in Nat : total = T(i) /\ less = U(i)
    BY <1>2
  <2>1. /\ map[i] = <<>> => total = 0 /\ less = 0
        /\ map[i] # <<>> => less + 1 <= total
    BY <1>2
  <2>2. /\ (IF map[i] = <<>> THEN 1 ELSE total) \in Nat
        /\ less + 1 \in Nat
        /\ less + 1 <= (IF map[i] = <<>> THEN 1 ELSE total)
        /\ (IF 1 < total THEN total ELSE 1) = (IF map[i] = <<>> THEN 1 ELSE total)
    BY ONLY <2>1, total \in Nat, less \in Nat
  <2> QED BY ONLY <2>2, total = T(i), less = U(i)
<1>5. Counted(map, sizes) \in [1 .. l -> Nat]
  BY <1>3, <1>4
<1>6. LT!Extents(map, sizes) \in [1 .. l -> Nat]
  BY <1>3, <1>4
<1>7. \A i \in 1 .. l : LT!Extents(map, sizes)[i] <= Counted(map, sizes)[i]
  BY <1>3, <1>4
<1>8. [i \in 1 .. l |-> IF 1 < T(i) THEN T(i) ELSE 1] = [i \in 1 .. l |-> IF map[i] = <<>> THEN 1 ELSE T(i)]
  BY <1>4
<1> QED BY <1>3, <1>5, <1>6, <1>7, <1>8

\* What is copied to VTCM is no more than the footprint that was counted.
LEMMA FootprintCoversCopies ==
    ASSUME NEW op, IsOperation(op), NEW tiles \in [LT!Loops(op) -> Nat \ {0}]
    PROVE  /\ LT!VTCMBytes(op, tiles) \in Nat
           /\ LT!calcMemoryFootprint(op, tiles) \in Nat
           /\ LT!VTCMBytes(op, tiles) <= LT!calcMemoryFootprint(op, tiles)
<1> PICK n \in Nat : n = Len(op.ranges) /\ LT!Loops(op) = 1 .. n
  BY DEF IsOperation, LT!Loops
<1> PICK o \in Nat : o = Len(op.maps)
  BY DEF IsOperation
<1>1. /\ tiles \in [1 .. n -> Nat \ {0}]
      /\ op.ranges \in [1 .. n -> Nat \ {0}]
      /\ DOMAIN op.maps = 1 .. o
      /\ \A k \in 1 .. o : op.maps[k] \in Seq(Seq(1 .. n))
      /\ \A k \in 1 .. o : LT!getElementSizeInBytes[op.elems[k]] \in Nat
  <2>1. op.maps \in Seq(Seq(Seq(1 .. n)))
    BY DEF IsOperation
  <2>2. \A e \in DOMAIN LT!getElementSizeInBytes : LT!getElementSizeInBytes[e] \in Nat
    BY DEF LT!getElementSizeInBytes
  <2>3. \A k \in 1 .. o : op.elems[k] \in DOMAIN LT!getElementSizeInBytes
    BY DEF IsOperation
  <2>4. op.ranges \in Seq(Nat \ {0})
    BY DEF IsOperation
  <2>5. op.ranges \in [1 .. n -> Nat \ {0}]
    BY <2>4
  <2> QED BY <2>1, <2>2, <2>3, <2>5
<1> DEFINE Size(k) == LT!getElementSizeInBytes[op.elems[k]]
           Copied(k) == LT!Extents(op.maps[k], IF k \in LT!setFullTensors(op, tiles) THEN op.ranges ELSE tiles)
           copies == [k \in 1 .. o |-> Size(k) * LT!Prod(Copied(k))]
           counts == [k \in 1 .. o |-> Size(k) * LT!Prod(Counted(op.maps[k], tiles))]
<1>2. LT!VTCMBytes(op, tiles) = LT!Total(copies) /\ LT!calcMemoryFootprint(op, tiles) = LT!Total(counts)
  BY <1>1 DEF LT!VTCMBytes, LT!calcMemoryFootprint, Counted
<1>3. ASSUME NEW k \in 1 .. o
      PROVE  /\ Size(k) * LT!Prod(Copied(k)) \in Nat
             /\ Size(k) * LT!Prod(Counted(op.maps[k], tiles)) \in Nat
             /\ Size(k) * LT!Prod(Copied(k)) <= Size(k) * LT!Prod(Counted(op.maps[k], tiles))
  <2> PICK map \in Seq(Seq(1 .. n)) : map = op.maps[k]
    BY <1>1
  <2> PICK l \in Nat : l = Len(map)
    OBVIOUS
  <2>1. /\ Counted(map, tiles) \in [1 .. l -> Nat]
        /\ LT!Extents(map, tiles) \in [1 .. l -> Nat]
        /\ \A i \in 1 .. l : LT!Extents(map, tiles)[i] <= Counted(map, tiles)[i]
        /\ [i \in DOMAIN map |-> LT!Largest(1, LT!Total([j \in DOMAIN map[i] |-> tiles[map[i][j]]]))]
             = Counted(map, tiles)
    <3>1. /\ n \in Nat /\ tiles \in [1 .. n -> Nat \ {0}] /\ map \in Seq(Seq(1 .. n))
          /\ l \in Nat /\ l = Len(map)
      BY <1>1
    <3> QED BY ONLY <3>1, OperandIsCounted
  <2>2. k \in LT!setFullTensors(op, tiles) => LT!Extents(map, op.ranges) = Counted(map, tiles)
    BY <2>1 DEF LT!setFullTensors
  <2> PICK c \in [1 .. l -> Nat] : c = Counted(map, tiles)
    BY <2>1
  <2>3. /\ Copied(k) \in [1 .. l -> Nat]
        /\ \A i \in 1 .. l : Copied(k)[i] <= c[i]
    <3>1. CASE k \in LT!setFullTensors(op, tiles)
      <4>1. Copied(k) = c
        BY <2>2, <3>1
      <4>2. \A i \in 1 .. l : c[i] <= c[i]
        BY ONLY c \in [1 .. l -> Nat]
      <4> HIDE DEF Copied
      <4> QED BY <4>1, <4>2
    <3>2. CASE k \notin LT!setFullTensors(op, tiles)
      <4>1. Copied(k) = LT!Extents(map, tiles)
        BY <3>2
      <4> HIDE DEF Copied
      <4> QED BY <2>1, <4>1
    <3> QED BY <3>1, <3>2
  <2> PICK d \in [1 .. l -> Nat] : d = Copied(k)
    BY <2>3
  <2>4. \A i \in 1 .. l : d[i] <= c[i]
    BY <2>3
  <2>5. LT!Prod(d) \in Nat /\ LT!Prod(c) \in Nat /\ LT!Prod(d) <= LT!Prod(c)
    <3>1. l \in Nat /\ d \in [1 .. l -> Nat] /\ c \in [1 .. l -> Nat]
      OBVIOUS
    <3> QED BY ONLY <2>4, <3>1, ProdMonotone
  <2> PICK p \in Nat, q \in Nat, z \in Nat : p = LT!Prod(d) /\ q = LT!Prod(c) /\ z = Size(k)
    BY <1>1, <2>5
  <2>6. z * p <= z * q
    <3>1. z <= z /\ p <= q
      BY <2>5
    <3> QED BY <3>1, TimesMonotone
  <2>7. z * p \in Nat /\ z * q \in Nat
    OBVIOUS
  <2> HIDE DEF Size, Copied
  <2> QED BY <2>6, <2>7
<1>4. copies \in [1 .. o -> Nat] /\ counts \in [1 .. o -> Nat] /\ \A k \in 1 .. o : copies[k] <= counts[k]
  <2> HIDE DEF Size, Copied
  <2> QED BY <1>3
<1> HIDE DEF copies, counts
<1> QED BY <1>2, <1>4, TotalMonotone

\* A footprint is a number, for tiles that may be empty too.
LEMMA FootprintIsNumber ==
    ASSUME NEW op, IsOperation(op), NEW sizes \in [LT!Loops(op) -> Nat]
    PROVE  LT!calcMemoryFootprint(op, sizes) \in Nat
<1> PICK n \in Nat : n = Len(op.ranges) /\ LT!Loops(op) = 1 .. n
  BY DEF IsOperation, LT!Loops
<1> PICK o \in Nat : o = Len(op.maps)
  BY DEF IsOperation
<1>1. /\ sizes \in [1 .. n -> Nat]
      /\ DOMAIN op.maps = 1 .. o
      /\ \A k \in 1 .. o : op.maps[k] \in Seq(Seq(1 .. n))
      /\ \A k \in 1 .. o : LT!getElementSizeInBytes[op.elems[k]] \in Nat
  <2>1. op.maps \in Seq(Seq(Seq(1 .. n)))
    BY DEF IsOperation
  <2>2. \A e \in DOMAIN LT!getElementSizeInBytes : LT!getElementSizeInBytes[e] \in Nat
    BY DEF LT!getElementSizeInBytes
  <2>3. \A k \in 1 .. o : op.elems[k] \in DOMAIN LT!getElementSizeInBytes
    BY DEF IsOperation
  <2> QED BY <2>1, <2>2, <2>3
<1>2. ASSUME NEW m \in Seq(1 .. n) PROVE LT!Total([j \in DOMAIN m |-> sizes[m[j]]]) \in Nat
  <2> PICK l \in Nat : l = Len(m) /\ DOMAIN m = 1 .. l
    OBVIOUS
  <2>1. \A j \in 1 .. l : m[j] \in 1 .. n
    OBVIOUS
  <2>2. [j \in DOMAIN m |-> sizes[m[j]]] \in [1 .. l -> Nat]
    BY <1>1, <2>1
  <2> PICK s \in [1 .. l -> Nat] : s = [j \in DOMAIN m |-> sizes[m[j]]]
    BY <2>2
  <2>3. \A j \in 1 .. l : s[j] <= s[j]
    BY ONLY s \in [1 .. l -> Nat]
  <2>4. LT!Total(s) \in Nat
    BY <2>3, TotalMonotone
  <2> QED BY <2>4
<1>3. ASSUME NEW k \in 1 .. o
      PROVE  LT!getElementSizeInBytes[op.elems[k]] * LT!Prod(Counted(op.maps[k], sizes)) \in Nat
  <2> PICK map \in Seq(Seq(1 .. n)) : map = op.maps[k]
    BY <1>1
  <2> PICK l \in Nat : l = Len(map) /\ DOMAIN map = 1 .. l
    OBVIOUS
  <2>1. \A i \in 1 .. l : map[i] \in Seq(1 .. n)
    OBVIOUS
  <2>2. Counted(map, sizes) \in [1 .. l -> Nat]
    BY <1>2, <2>1 DEF Counted
  <2> PICK s \in [1 .. l -> Nat] : s = Counted(map, sizes)
    BY <2>2
  <2>3. \A j \in 1 .. l : s[j] <= s[j]
    BY ONLY s \in [1 .. l -> Nat]
  <2>4. LT!Prod(s) \in Nat
    BY <2>3, ProdMonotone
  <2> PICK p \in Nat, q \in Nat : p = LT!Prod(s) /\ q = LT!getElementSizeInBytes[op.elems[k]]
    BY <1>1, <2>4
  <2>5. q * p \in Nat
    OBVIOUS
  <2> QED BY <2>5
<1> DEFINE counts == [k \in 1 .. o |-> LT!getElementSizeInBytes[op.elems[k]] * LT!Prod(Counted(op.maps[k], sizes))]
<1>4. LT!calcMemoryFootprint(op, sizes) = LT!Total(counts)
  BY <1>1 DEF LT!calcMemoryFootprint, Counted
<1> PICK c \in [1 .. o -> Nat] : c = counts
  BY <1>3
<1>5. \A k \in 1 .. o : c[k] <= c[k]
  BY ONLY c \in [1 .. o -> Nat]
<1>6. LT!Total(c) \in Nat
  BY <1>5, TotalMonotone
<1> QED BY <1>4, <1>6

\* Loops in order are loops, as many as there are.
LEMMA OrderedLoops ==
    ASSUME NEW n \in Nat, NEW loops \in SUBSET (1 .. n), NEW weight \in [1 .. n -> Nat]
    PROVE  /\ LT!InOrder(loops, weight) \in Seq(loops)
           /\ Len(LT!InOrder(loops, weight)) = Cardinality(loops)
<1> DEFINE R == {x \in loops \X loops : weight[x[1]] < weight[x[2]] \/ (weight[x[1]] = weight[x[2]] /\ x[1] < x[2])}
           Before(d) == {e \in loops : weight[e] < weight[d] \/ (weight[e] = weight[d] /\ e < d)}
           sorted == [i \in 1 .. Cardinality(loops) |-> CHOOSE d \in loops : Cardinality(Before(d)) = i - 1]
<1>1. \A d \in loops : weight[d] \in Nat /\ d \in Nat
  OBVIOUS
<1>2. \A x \in loops : <<x, x>> \notin R
  BY <1>1
<1>3. \A x, y, z \in loops : <<x, y>> \in R /\ <<y, z>> \in R => <<x, z>> \in R
  BY <1>1
<1>4. \A x, y \in loops : x # y => <<x, y>> \in R \/ <<y, x>> \in R
  BY <1>1
<1>5. IsFiniteSet(loops) /\ Cardinality(loops) \in Nat
  <2>1. IsFiniteSet(1 .. n)
    BY FS_Interval
  <2>2. IsFiniteSet(loops)
    BY <2>1, FS_Subset
  <2> QED BY <2>2, FS_CardinalityType
<1>6. \A d \in loops : Before(d) = {e \in loops : <<e, d>> \in R}
  OBVIOUS
<1>7. LT!InOrder(loops, weight) = sorted
  BY DEF LT!InOrder, LT!Cardinality, Cardinality
<1> HIDE DEF R, Before
<1>8. \A i \in 1 .. Cardinality(loops) : \E d \in loops : Cardinality({e \in loops : <<e, d>> \in R}) = i - 1
  BY <1>2, <1>3, <1>4, <1>5, RankExists
<1>9. \A i \in 1 .. Cardinality(loops) : \E d \in loops : Cardinality(Before(d)) = i - 1
  BY <1>6, <1>8
<1>10. sorted \in [1 .. Cardinality(loops) -> loops]
  BY <1>9
<1> PICK c \in Nat : c = Cardinality(loops)
  BY <1>5
<1>11. [1 .. c -> loops] \subseteq Seq(loops)
  OBVIOUS
<1> HIDE DEF sorted
<1>12. sorted \in Seq(loops) /\ Len(sorted) = c
  BY <1>10, <1>11
<1> QED BY <1>7, <1>12

\* The priority order has loops of the operation.
LEMMA PriorityOrder ==
    ASSUME NEW op, IsOperation(op)
    PROVE  LT!generateTilingPriorityOrder(op, <<>>) \in Seq(LT!Loops(op))
<1> PICK n \in Nat : n = Len(op.ranges) /\ LT!Loops(op) = 1 .. n
  BY DEF IsOperation, LT!Loops
<1> DEFINE halved == [d \in LT!Loops(op) |-> LT!calcMemoryFootprint(op, [op.ranges EXCEPT ![d] = @ \div 2])]
<1>1. halved \in [1 .. n -> Nat]
  <2> SUFFICES ASSUME NEW d \in 1 .. n
               PROVE  LT!calcMemoryFootprint(op, [op.ranges EXCEPT ![d] = @ \div 2]) \in Nat
    OBVIOUS
  <2>1. op.ranges \in Seq(Nat \ {0})
    BY DEF IsOperation
  <2>2. op.ranges \in [1 .. n -> Nat \ {0}]
    BY <2>1
  <2>3. op.ranges[d] \div 2 \in Nat
    <3> PICK r \in Nat : r = op.ranges[d]
      BY <2>2
    <3>1. r \div 2 \in Nat
      OBVIOUS
    <3> QED BY <3>1
  <2>4. [op.ranges EXCEPT ![d] = @ \div 2] \in [LT!Loops(op) -> Nat]
    BY <2>2, <2>3
  <2> QED BY <2>4, FootprintIsNumber
<1>2. LT!generateTilingPriorityOrder(op, <<>>) = LT!InOrder(LT!Parallel(op), halved) \o LT!InOrder(op.red, halved)
  BY DEF LT!generateTilingPriorityOrder
<1> HIDE DEF halved
<1>3. LT!Parallel(op) \in SUBSET (1 .. n) /\ op.red \in SUBSET (1 .. n)
  BY DEF IsOperation, LT!Parallel
<1>4. LT!InOrder(LT!Parallel(op), halved) \in Seq(1 .. n)
  <2> PICK loops \in SUBSET (1 .. n) : loops = LT!Parallel(op)
    BY <1>3
  <2>1. LT!InOrder(loops, halved) \in Seq(loops)
    BY <1>1, OrderedLoops
  <2>2. Seq(loops) \subseteq Seq(1 .. n)
    OBVIOUS
  <2> QED BY <2>1, <2>2
<1>5. LT!InOrder(op.red, halved) \in Seq(1 .. n)
  <2> PICK loops \in SUBSET (1 .. n) : loops = op.red
    BY <1>3
  <2>1. LT!InOrder(loops, halved) \in Seq(loops)
    BY <1>1, OrderedLoops
  <2>2. Seq(loops) \subseteq Seq(1 .. n)
    OBVIOUS
  <2> QED BY <2>1, <2>2
<1> PICK a \in Seq(1 .. n), b \in Seq(1 .. n) :
        a = LT!InOrder(LT!Parallel(op), halved) /\ b = LT!InOrder(op.red, halved)
  BY <1>4, <1>5
<1>6. a \o b \in Seq(1 .. n)
  OBVIOUS
<1> QED BY <1>2, <1>6

\* An element of any type fits a vector.
LEMMA VectorHasElements ==
    ASSUME NEW op, IsOperation(op)
    PROVE  LT!computeDataTileSize(op) \in Nat \ {0}
<1> DEFINE S == {LT!getElementSizeInBytes[e] : e \in LT!ToSet(op.elems) \cup op.bodyElems}
<1>1. S \subseteq {1, 2, 4, 8} /\ S # {}
  <2>1. LT!ToSet(op.elems) \subseteq DOMAIN LT!getElementSizeInBytes /\ LT!ToSet(op.elems) # {}
    <3> DEFINE E == DOMAIN LT!getElementSizeInBytes
    <3>1. op.elems \in Seq(E) /\ Len(op.elems) # 0
      <4>1. Len(op.maps) # 0
        BY DEF IsOperation
      <4> QED BY <4>1 DEF IsOperation
    <3> HIDE DEF E
    <3> PICK s \in Seq(E) : s = op.elems /\ Len(s) # 0
      BY <3>1
    <3>2. LT!ToSet(s) = {s[i] : i \in DOMAIN s}
      BY DEF LT!ToSet
    <3>3. 1 \in DOMAIN s /\ \A i \in DOMAIN s : s[i] \in E
      OBVIOUS
    <3> QED BY <3>2, <3>3 DEF E
  <2>2. \A e \in DOMAIN LT!getElementSizeInBytes : LT!getElementSizeInBytes[e] \in {1, 2, 4, 8}
    BY DEF LT!getElementSizeInBytes
  <2>3. op.bodyElems \subseteq DOMAIN LT!getElementSizeInBytes
    BY DEF IsOperation
  <2> QED BY <2>1, <2>2, <2>3
<1>2. LT!computeSmallestOperandTypeSize(op) = LT!Min(S)
  BY DEF LT!computeSmallestOperandTypeSize
<1> HIDE DEF S
<1>3. \E x \in S : \A y \in S : x <= y
  <2>1. CASE 1 \in S
    BY <1>1, <2>1
  <2>2. CASE 1 \notin S /\ 2 \in S
    BY <1>1, <2>2
  <2>3. CASE 1 \notin S /\ 2 \notin S /\ 4 \in S
    BY <1>1, <2>3
  <2>4. CASE 1 \notin S /\ 2 \notin S /\ 4 \notin S
    <3>1. S = {8}
      BY <1>1, <2>4
    <3> QED BY <3>1
  <2> QED BY <2>1, <2>2, <2>3, <2>4
<1>4. LT!Min(S) \in {1, 2, 4, 8}
  BY <1>1, <1>3 DEF LT!Min
<1>5. LT!computeDataTileSize(op) = VectorBytes \div LT!Min(S)
  BY <1>2 DEF LT!computeDataTileSize
<1>6. \A x \in {1, 2, 4, 8} : VectorBytes \div x \in Nat \ {0}
  BY TargetAssumption
<1> QED BY <1>4, <1>5, <1>6

\* No tile is asked to have less than one iteration.
LEMMA LowerBounds ==
    ASSUME NEW op, IsOperation(op)
    PROVE  LT!calculateTileSizeLowerBounds(op) \in [LT!Loops(op) -> Nat \ {0}]
<1> PICK n \in Nat : n = Len(op.ranges) /\ LT!Loops(op) = 1 .. n
  BY DEF IsOperation, LT!Loops
<1> DEFINE threads == [d \in LT!Loops(op) |-> IF d = 1 /\ op.ranges[1] >= 4 THEN 4 ELSE 1]
           crouton == LT!getCroutonLowerBounds(op)
           vector == LT!computeDataTileSize(op)
<1>1. threads \in [1 .. n -> Nat \ {0}] /\ vector \in Nat \ {0} /\ LT!Innermost(op) = n
  BY VectorHasElements DEF LT!Innermost
<1>2. crouton = <<>> \/ (crouton \in Seq(Nat \ {0}) /\ Len(crouton) <= n)
  <2> DEFINE elem == op.elems[Len(op.elems)]
  <2>1. CASE crouton # <<>>
    <3>1. elem \in DOMAIN CroutonShape /\ crouton = CroutonShape[elem].tile /\ LT!IsSuffix(crouton, op.ranges)
      BY <2>1 DEF LT!getCroutonLowerBounds
    <3>2. crouton \in Seq(Nat \ {0})
      BY <3>1, TargetAssumption
    <3> PICK c \in Seq(Nat \ {0}) : c = crouton
      BY <3>2
    <3>3. op.ranges \in Seq(Nat \ {0})
      BY DEF IsOperation
    <3> PICK r \in Seq(Nat \ {0}) : r = op.ranges
      BY <3>3
    <3>4. Len(LT!Reverse(c)) <= Len(LT!Reverse(r))
      BY <3>1 DEF LT!IsSuffix, LT!IsPrefix
    <3>5. Len(LT!Reverse(c)) = Len(c) /\ Len(LT!Reverse(r)) = Len(r)
      BY DEF LT!Reverse
    <3> HIDE DEF crouton
    <3> QED BY <3>4, <3>5
  <2> QED BY <2>1
<1> HIDE DEF threads, crouton, vector
<1>3. LT!calculateTileSizeLowerBounds(op) =
        IF crouton # <<>> THEN SubSeq(threads, 1, n - Len(crouton)) \o crouton
        ELSE IF op.ranges[n] >= vector THEN [threads EXCEPT ![n] = vector] ELSE threads
  BY <1>1 DEF LT!calculateTileSizeLowerBounds, threads, crouton, vector
<1>4. CASE crouton = <<>>
  BY <1>1, <1>3, <1>4
<1>5. CASE crouton # <<>>
  <2> PICK c \in Seq(Nat \ {0}) : c = crouton /\ Len(c) <= n
    BY <1>2, <1>5
  <2> PICK l \in 0 .. n : l = Len(c)
    <3>1. Len(c) \in Nat
      OBVIOUS
    <3> QED BY <3>1
  <2>1. threads \in Seq(Nat \ {0}) /\ Len(threads) = n
    BY <1>1
  <2> PICK t \in Seq(Nat \ {0}) : t = threads /\ Len(t) = n
    BY <2>1
  <2>2. SubSeq(t, 1, n - l) \in Seq(Nat \ {0}) /\ Len(SubSeq(t, 1, n - l)) = n - l
    BY SubSeqProperties
  <2> PICK a \in Seq(Nat \ {0}) : a = SubSeq(t, 1, n - l) /\ Len(a) = n - l
    BY <2>2
  <2>3. a \o c \in Seq(Nat \ {0}) /\ Len(a \o c) = n
    BY ConcatProperties
  <2> PICK b \in Seq(Nat \ {0}) : b = a \o c /\ Len(b) = n
    BY <2>3
  <2>4. b \in Seq(Nat \ {0}) /\ Len(b) = n
    OBVIOUS
  <2>5. b \in [1 .. n -> Nat \ {0}]
    BY ONLY <2>4
  <2> QED BY <1>3, <1>5, <2>5
<1> QED BY <1>4, <1>5

\* Cutting loops in order leaves tiles with an iteration that fit the budget,
\* or none.
LEMMA CutTiles ==
    ASSUME NEW op, IsOperation(op), NEW budget \in Nat \ {0}, NEW order \in Seq(LT!Loops(op)),
           NEW lower \in [LT!Loops(op) -> Nat \ {0}], NEW tiles,
           tiles = LT!CutInOrder(op, budget, order, lower), tiles # <<>>
    PROVE  /\ tiles \in [LT!Loops(op) -> Nat \ {0}]
           /\ LT!calcMemoryFootprint(op, tiles) <= budget
<1> PICK n \in Nat : n = Len(op.ranges) /\ LT!Loops(op) = 1 .. n
  BY DEF IsOperation, LT!Loops
<1> PICK m \in Nat : m = Len(order)
  OBVIOUS
<1> DEFINE V == [1 .. n -> Nat \ {0}]
           idx == [i \in DOMAIN order |-> <<1, order[i]>>] \o [i \in DOMAIN order |-> <<2, order[i]>>]
           CutLoop(t, bytes, d, least) ==
               IF bytes <= budget THEN t
               ELSE [t EXCEPT ![d] = LT!Largest(@ \div LT!getReductionFactor(bytes, budget), least)]
           Cut(t, s) ==
               CutLoop(t, LT!calcMemoryFootprint(op, t), s[2], IF s[1] = 1 THEN lower[s[2]] ELSE 1)
           base == op.ranges
           step == [x \in V \X (1 .. 2 * m) |-> Cut(x[1], idx[x[2]])]
<1>1. base \in V
  <2>1. op.ranges \in Seq(Nat \ {0})
    BY DEF IsOperation
  <2> QED BY <2>1
<1>2. DOMAIN idx = 1 .. 2 * m /\ \A i \in 1 .. 2 * m : idx[i] \in {1, 2} \X (1 .. n)
  <2> DEFINE a == [i \in DOMAIN order |-> <<1, order[i]>>]
             b == [i \in DOMAIN order |-> <<2, order[i]>>]
             P == {1, 2} \X (1 .. n)
  <2>1. DOMAIN order = 1 .. m /\ \A i \in 1 .. m : <<1, order[i]>> \in P /\ <<2, order[i]>> \in P
    OBVIOUS
  <2> HIDE DEF P
  <2> PICK u \in [1 .. m -> P], v \in [1 .. m -> P] : u = a /\ v = b
    BY <2>1
  <2>2. m \in Nat /\ u \in [1 .. m -> P] /\ v \in [1 .. m -> P]
    OBVIOUS
  <2>3. u \in Seq(P) /\ v \in Seq(P) /\ Len(u) = m /\ Len(v) = m
    BY ONLY <2>2
  <2>4. u \o v \in Seq(P) /\ Len(u \o v) = Len(u) + Len(v)
    BY ONLY <2>3, ConcatProperties
  <2> PICK c \in Seq(P) : c = u \o v /\ Len(c) = m + m
    BY <2>3, <2>4
  <2>5. c \in Seq(P) /\ Len(c) = m + m
    OBVIOUS
  <2>6. DOMAIN c = 1 .. 2 * m /\ \A i \in 1 .. 2 * m : c[i] \in P
    BY ONLY <2>5, m \in Nat
  <2> QED BY <2>6 DEF P
<1>3. ASSUME NEW t \in V, NEW s \in {1, 2} \X (1 .. n) PROVE Cut(t, s) \in V
  <2> PICK phase \in {1, 2}, d \in 1 .. n : s = <<phase, d>>
    OBVIOUS
  <2> PICK bytes : bytes = LT!calcMemoryFootprint(op, t)
    OBVIOUS
  <2> PICK least \in Nat \ {0} : least = IF s[1] = 1 THEN lower[s[2]] ELSE 1
    <3>1. lower[d] \in Nat \ {0}
      OBVIOUS
    <3> QED BY <3>1
  <2>1. bytes \in Nat
    <3>1. t \in [LT!Loops(op) -> Nat]
      OBVIOUS
    <3> QED BY <3>1, FootprintIsNumber
  <2> PICK factor \in Nat \ {0} : factor = LT!getReductionFactor(bytes, budget)
    BY <2>1, ReductionFactor
  <2>2. Cut(t, s) = IF bytes <= budget THEN t ELSE [t EXCEPT ![d] = LT!Largest(@ \div factor, least)]
    OBVIOUS
  <2>3. LT!Largest(t[d] \div factor, least) \in Nat \ {0}
    <3> PICK x \in Nat : x = t[d]
      OBVIOUS
    <3>1. x \div factor \in Nat
      BY DivBounds
    <3> QED BY <3>1 DEF LT!Largest
  <2> PICK x \in Nat \ {0} : x = LT!Largest(t[d] \div factor, least)
    BY <2>3
  <2>4. Cut(t, s) = IF bytes <= budget THEN t ELSE [t EXCEPT ![d] = x]
    BY <2>2
  <2> HIDE DEF Cut
  <2> QED BY ONLY <2>4, t \in V, x \in Nat \ {0}
<1>4. step \in [V \X (1 .. 2 * m) -> V]
  <2> HIDE DEF V, Cut, idx
  <2> QED BY <1>2, <1>3
<1>5. PICK it : FoldsBy(it, 2 * m, V, base, step)
  <2>1. 2 * m \in Nat
    OBVIOUS
  <2> HIDE DEF base, step, V
  <2> QED BY <1>1, <1>4, <2>1, FoldExists, Zenon
<1>6. it = [s \in SUBSET DOMAIN idx |->
              IF s = {} THEN base ELSE Cut(it[s \ {Max(s)}], idx[Max(s)])]
  <2>1. \A s \in SUBSET (1 .. 2 * m) : s # {} => Max(s) \in 1 .. 2 * m
    <3>1. 2 * m \in Nat
      OBVIOUS
    <3> QED BY <3>1, FoldIndices
  <2>2. ASSUME NEW s \in SUBSET (1 .. 2 * m), s # {}
        PROVE  it[s] = Cut(it[s \ {Max(s)}], idx[Max(s)])
    <3>1. it[s \ {Max(s)}] \in V
      BY <1>5 DEF FoldsBy
    <3>2. it[s] = step[<<it[s \ {Max(s)}], Max(s)>>]
      BY <1>5, <2>2 DEF FoldsBy
    <3> HIDE DEF V, Cut, idx
    <3> QED BY <2>1, <2>2, <3>1, <3>2
  <2>3. DOMAIN it = SUBSET (1 .. 2 * m) /\ it[{}] = base
    <3>1. it \in [SUBSET (1 .. 2 * m) -> V] /\ {} \in SUBSET (1 .. 2 * m)
      BY <1>5 DEF FoldsBy
    <3> QED BY <1>5, <3>1 DEF FoldsBy
  <2>4. it = [s \in SUBSET (1 .. 2 * m) |-> it[s]]
    BY <1>5 DEF FoldsBy
  <2> HIDE DEF V, Cut, idx, base
  <2> QED BY <1>2, <2>2, <2>3, <2>4
<1>7. PICK jt : /\ jt = [s \in SUBSET DOMAIN idx |->
                           IF s = {} THEN base ELSE Cut(jt[s \ {Max(s)}], idx[Max(s)])]
                /\ LT!CutInOrder(op, budget, order, lower) =
                     IF LT!calcMemoryFootprint(op, jt[DOMAIN idx]) <= budget THEN jt[DOMAIN idx] ELSE <<>>
  <2> DEFINE end == (CHOOSE jt : jt = [s \in SUBSET DOMAIN idx |->
                              IF s = {} THEN base ELSE Cut(jt[s \ {Max(s)}], idx[Max(s)])])[DOMAIN idx]
  <2>1. LT!CutInOrder(op, budget, order, lower) =
          IF LT!calcMemoryFootprint(op, end) <= budget THEN end ELSE <<>>
    BY DEF LT!CutInOrder, LT!FoldLeft, LT!MapThenFoldSet, LT!Max, Max
  <2> HIDE DEF base, Cut, idx
  <2> QED BY <1>6, <2>1
<1> DEFINE S == {k \in 0 .. 2 * m : jt[1 .. k] \in V}
<1>8. 2 * m \in Nat
  OBVIOUS
<1>9. 0 \in S
  <2>1. 1 .. 0 = {} /\ 1 .. 0 \in SUBSET DOMAIN idx /\ 0 \in 0 .. 2 * m
    OBVIOUS
  <2>2. jt[1 .. 0] = base
    <3> HIDE DEF base, Cut, idx
    <3> QED BY <1>7, <2>1
  <2> HIDE DEF V, base
  <2> QED BY <1>1, <2>1, <2>2
<1>10. ASSUME NEW k \in 0 .. 2 * m - 1, k \in S PROVE k + 1 \in S
  <2>1. k + 1 \in 1 .. 2 * m /\ (k + 1) - 1 = k /\ k + 1 \in 0 .. 2 * m
    OBVIOUS
  <2>2. /\ 1 .. (k + 1) \in SUBSET DOMAIN idx /\ 1 .. (k + 1) # {}
        /\ Max(1 .. (k + 1)) = k + 1 /\ (1 .. (k + 1)) \ {k + 1} = 1 .. k
    BY <1>2, <1>8, <2>1, FoldIndices
  <2>3. jt[1 .. (k + 1)] = Cut(jt[1 .. k], idx[k + 1])
    <3> HIDE DEF Cut, base, idx
    <3> QED BY <1>7, <2>2
  <2>4. jt[1 .. k] \in V /\ idx[k + 1] \in {1, 2} \X (1 .. n)
    BY <1>2, <1>10, <2>1
  <2> HIDE DEF Cut, V, idx
  <2>5. jt[1 .. (k + 1)] \in V
    BY <1>3, <2>3, <2>4
  <2> QED BY <2>1, <2>5
<1>11. 2 * m \in S
  <2> HIDE DEF S
  <2>1. 2 * m \in 0 .. 2 * m /\ \A k \in 0 .. 2 * m - 1 : k \in S => k + 1 \in S
    BY <1>8, <1>10
  <2> QED BY <1>8, <1>9, <2>1, Induction
<1>12. jt[DOMAIN idx] \in V
  <2> HIDE DEF V, idx
  <2> QED BY <1>2, <1>11
<1> HIDE DEF V, idx, Cut, base
<1>13. tiles = jt[DOMAIN idx] /\ LT!calcMemoryFootprint(op, tiles) <= budget
  BY <1>7
<1> QED BY <1>12, <1>13 DEF V

\* The tile sizes the pass determines for itself.
LEMMA DeterminedTiles ==
    ASSUME NEW op, IsOperation(op), NEW budget \in Nat \ {0}, NEW tiles,
           tiles = LT!determineTileSizes(op, budget, <<>>), tiles # <<>>
    PROVE  /\ tiles \in [LT!Loops(op) -> Nat \ {0}]
           /\ LT!calcMemoryFootprint(op, tiles) <= budget
<1>1. LT!generateTilingPriorityOrder(op, <<>>) \in Seq(LT!Loops(op))
  BY PriorityOrder
<1>2. LT!calculateTileSizeLowerBounds(op) \in [LT!Loops(op) -> Nat \ {0}]
  BY LowerBounds
<1>3. tiles = LT!CutInOrder(op, budget, LT!generateTilingPriorityOrder(op, <<>>), LT!calculateTileSizeLowerBounds(op))
  BY DEF LT!determineTileSizes
<1> QED BY <1>1, <1>2, <1>3, CutTiles

\* VTCMTilingOptions.cpp: what vtcm-tiling copies to VTCM for one tile, whole
\* operands included, fits the budget it was given.
LEMMA VTCMTilingFits ==
    ASSUME NEW op, IsOperation(op), NEW budget \in Nat \ {0}, NEW tiles,
           tiles = LT!getTileSizes(op, <<>>, budget), tiles # <<>>
    PROVE  LT!VTCMBytes(op, tiles) <= budget
<1>1. tiles = LT!determineTileSizes(op, budget, <<>>)
  BY DEF LT!getTileSizes
<1>2. tiles \in [LT!Loops(op) -> Nat \ {0}] /\ LT!calcMemoryFootprint(op, tiles) <= budget
  BY <1>1, DeterminedTiles
<1>3. /\ LT!VTCMBytes(op, tiles) \in Nat /\ LT!calcMemoryFootprint(op, tiles) \in Nat
      /\ LT!VTCMBytes(op, tiles) <= LT!calcMemoryFootprint(op, tiles)
  BY <1>2, FootprintCoversCopies
<1> QED BY <1>2, <1>3

\* The sums of the first parts of a list are its partial sums.
LEMMA TotalPrefix ==
    ASSUME NEW n \in Nat, NEW s \in [1 .. n -> Nat], NEW g, SumsUpTo(g, s, n), NEW k \in 0 .. n
    PROVE  LT!Total(SubSeq(s, 1, k)) = g[k]
<1> DEFINE a == [i \in 1 .. k |-> s[i]]
<1>1. k \in Nat /\ a \in [1 .. k -> Nat] /\ \A i \in 1 .. k : a[i] = s[i]
  OBVIOUS
<1>2. SubSeq(s, 1, k) = a
  <2>1. s \in Seq(Nat) /\ Len(s) = n
    OBVIOUS
  <2> QED BY <2>1
<1> HIDE DEF a
<1> PICK h : SumsUpTo(h, a, k) /\ LT!Total(a) = h[k]
  BY <1>1, TotalFold
<1> DEFINE S == {i \in 0 .. k : h[i] = g[i]}
<1>3. /\ g[0] = 0 /\ \A i \in 1 .. k : g[i] = g[i - 1] + s[i]
      /\ h[0] = 0 /\ \A i \in 1 .. k : h[i] = h[i - 1] + a[i]
  <2>1. \A i \in 1 .. k : i \in 1 .. n
    OBVIOUS
  <2> QED BY <2>1 DEF SumsUpTo
<1>4. 0 \in S
  BY <1>3
<1>5. ASSUME NEW i \in 0 .. k - 1, i \in S PROVE i + 1 \in S
  <2>1. i + 1 \in 1 .. k /\ (i + 1) - 1 = i /\ i + 1 \in 0 .. k
    OBVIOUS
  <2>2. g[i + 1] = g[i] + s[i + 1] /\ h[i + 1] = h[i] + a[i + 1] /\ a[i + 1] = s[i + 1]
    BY <1>1, <1>3, <2>1
  <2> QED BY <1>5, <2>1, <2>2
<1>6. \A i \in 0 .. k : i \in S
  <2> HIDE DEF S
  <2> QED BY <1>1, <1>4, <1>5, Induction
<1>7. k \in 0 .. k
  OBVIOUS
<1> QED BY <1>2, <1>6, <1>7

\* The sums of the first parts grow.
LEMMA PrefixBounds ==
    ASSUME NEW n \in Nat, NEW s \in [1 .. n -> Nat], NEW g, SumsUpTo(g, s, n)
    PROVE  \A j \in 0 .. n : \A i \in 0 .. j : g[i] <= g[j]
<1>1. g \in [0 .. n -> Nat] /\ g[0] = 0 /\ \A i \in 1 .. n : g[i] = g[i - 1] + s[i]
  BY DEF SumsUpTo
<1> DEFINE S == {j \in 0 .. n : \A i \in 0 .. j : g[i] <= g[j]}
<1>2. 0 \in S
  BY <1>1
<1>3. ASSUME NEW j \in 0 .. n - 1, j \in S PROVE j + 1 \in S
  <2>1. j + 1 \in 1 .. n /\ (j + 1) - 1 = j /\ j + 1 \in 0 .. n
    OBVIOUS
  <2>2. g[j + 1] = g[j] + s[j + 1] /\ g[j] \in Nat /\ s[j + 1] \in Nat
    BY <1>1, <2>1
  <2>3. \A i \in 0 .. j + 1 : g[i] <= g[j + 1]
    <3> TAKE i \in 0 .. j + 1
    <3>1. CASE i = j + 1
      BY <2>2, <3>1
    <3>2. CASE i # j + 1
      <4>1. i \in 0 .. j /\ g[i] \in Nat
        BY <1>1, <3>2
      <4> QED BY <1>3, <2>2, <4>1
    <3> QED BY <3>1, <3>2
  <2> QED BY <2>1, <2>3
<1> HIDE DEF S
<1>4. \A j \in 0 .. n : j \in S
  BY <1>2, <1>3, Induction
<1> QED BY <1>4 DEF S

\* Of parts that follow each other, one and no other has a given place.
LEMMA OnePartEach ==
    ASSUME NEW n \in Nat, NEW s \in [1 .. n -> Nat], NEW g, SumsUpTo(g, s, n), NEW x \in Nat, x < g[n]
    PROVE  \E i \in 1 .. n : /\ g[i - 1] <= x /\ x < g[i - 1] + s[i]
                             /\ \A j \in 1 .. n : g[j - 1] <= x /\ x < g[j - 1] + s[j] => j = i
<1>1. g \in [0 .. n -> Nat] /\ g[0] = 0 /\ \A i \in 1 .. n : g[i] = g[i - 1] + s[i]
  BY DEF SumsUpTo
<1>2. \E i \in 1 .. n : g[i - 1] <= x /\ x < g[i - 1] + s[i]
  <2> SUFFICES ASSUME \A i \in 1 .. n : ~(g[i - 1] <= x /\ x < g[i - 1] + s[i]) PROVE FALSE
    OBVIOUS
  <2> DEFINE S == {i \in 0 .. n : g[i] <= x}
  <2>1. 0 \in S
    BY <1>1
  <2>2. ASSUME NEW i \in 0 .. n - 1, i \in S PROVE i + 1 \in S
    <3>1. i + 1 \in 1 .. n /\ (i + 1) - 1 = i /\ i + 1 \in 0 .. n
      OBVIOUS
    <3>2. g[i + 1] = g[i] + s[i + 1] /\ g[i] \in Nat /\ s[i + 1] \in Nat
      BY <1>1, <3>1
    <3> QED BY <2>2, <3>1, <3>2
  <2>3. \A i \in 0 .. n : i \in S
    <3> HIDE DEF S
    <3> QED BY <2>1, <2>2, Induction
  <2>4. n \in 0 .. n /\ g[n] \in Nat
    BY <1>1
  <2> QED BY <2>3, <2>4
<1>3. \A j \in 0 .. n : \A i \in 0 .. j : g[i] <= g[j]
  BY PrefixBounds
<1>4. ASSUME NEW i \in 1 .. n, NEW j \in 1 .. n, i < j,
             g[i - 1] <= x /\ x < g[i - 1] + s[i], g[j - 1] <= x
      PROVE  FALSE
  <2>1. i \in 0 .. j - 1 /\ j - 1 \in 0 .. n /\ i \in 0 .. n
    BY <1>4
  <2>2. g[i] <= g[j - 1]
    BY <1>3, <2>1
  <2>3. g[i] = g[i - 1] + s[i] /\ g[i] \in Nat /\ g[j - 1] \in Nat
    BY <1>1, <2>1
  <2> QED BY <1>4, <2>2, <2>3
<1>5. \A i, j \in 1 .. n : i < j \/ j < i \/ i = j
  OBVIOUS
<1> QED BY <1>2, <1>4, <1>5

\* The greatest power of two up to n.
LEMMA PowerBelow ==
    ASSUME NEW n \in Nat \ {0}
    PROVE  /\ LT!PowerOf2(LT!Log2(n)) \in Nat \ {0}
           /\ LT!PowerOf2(LT!Log2(n)) <= n
<1> DEFINE Fits(k) == LT!PowerOf2(k) <= n /\ n < LT!PowerOf2(k + 1)
           S == {k \in 0 .. n : LT!PowerOf2(k) <= n}
<1>1. \A k \in 0 .. n : LT!PowerOf2(k) \in Nat /\ LT!PowerOf2(k) > k
  BY PowersGrow
<1>2. \A k \in 0 .. n : LT!PowerOf2(k + 1) \in Nat
  <2>1. \A k \in 0 .. n : k + 1 \in Nat
    OBVIOUS
  <2> QED BY <2>1, PowersOf2
<1>3. \E k \in 0 .. n : Fits(k)
  <2> SUFFICES ASSUME \A k \in 0 .. n : ~Fits(k) PROVE FALSE
    OBVIOUS
  <2>1. 0 \in S
    BY PowersOf2
  <2>2. ASSUME NEW k \in 0 .. n - 1, k \in S PROVE k + 1 \in S
    <3>1. k \in 0 .. n /\ k + 1 \in 0 .. n
      OBVIOUS
    <3>2. ~(n < LT!PowerOf2(k + 1))
      BY <2>2, <3>1
    <3> QED BY <1>2, <3>1, <3>2
  <2>3. \A k \in 0 .. n : k \in S
    <3> HIDE DEF S
    <3> QED BY <2>1, <2>2, Induction
  <2>4. n \in S
    <3> HIDE DEF S
    <3> QED BY <2>3
  <2> QED BY <1>1, <2>4
<1>4. LT!Log2(n) \in 0 .. n /\ Fits(LT!Log2(n))
  <2> HIDE DEF Fits
  <2>1. LT!Log2(n) = CHOOSE k \in 0 .. n : Fits(k)
    BY DEF LT!Log2, Fits
  <2> QED BY <1>3, <2>1
<1> QED BY <1>1, <1>4

\* Slices of one size, the first d doubled and the last with what is left.
IsSliced(s, part, K, d, rest) ==
    \A i \in 1 .. K : s[i] = (IF i <= d THEN part + part ELSE part) + (IF i = K THEN rest ELSE 0)

\* What such slices add up to.
LEMMA SliceTotal ==
    ASSUME NEW part \in Nat, NEW K \in Nat \ {0}, NEW d \in 0 .. K, NEW rest \in Nat, NEW s \in [1 .. K -> Nat],
           IsSliced(s, part, K, d, rest)
    PROVE  LT!Total(s) = part * K + part * d + rest
<1> DEFINE Doubled(i) == IF i <= d THEN i ELSE d
<1> PICK a : a = [i \in 0 .. K |-> part * i]
  OBVIOUS
<1> PICK b : b = [i \in 0 .. K |-> part * Doubled(i)]
  OBVIOUS
<1>1. /\ a \in [0 .. K -> Nat] /\ a[0] = 0 /\ a[K] = part * K
      /\ b \in [0 .. K -> Nat] /\ b[0] = 0 /\ b[K] = part * d
  <2>1. \A i \in 0 .. K : part * i \in Nat
    OBVIOUS
  <2>2. \A i \in 0 .. K : Doubled(i) \in 0 .. K
    OBVIOUS
  <2>3. part * 0 = 0 /\ Doubled(0) = 0 /\ Doubled(K) = d /\ 0 \in 0 .. K /\ K \in 0 .. K
    OBVIOUS
  <2> HIDE DEF Doubled
  <2> QED BY <2>1, <2>2, <2>3
<1>2. ASSUME NEW i \in 0 .. K - 1
      PROVE  a[i + 1] = a[i] + part /\ b[i + 1] = IF i + 1 <= d THEN b[i] + part ELSE b[i]
  <2>1. i \in 0 .. K /\ i + 1 \in 0 .. K /\ i \in Int
    OBVIOUS
  <2>2. part * (i + 1) = part * i + part
    BY <2>1, NextMultiple
  <2>3. CASE i + 1 <= d
    <3>1. Doubled(i + 1) = i + 1 /\ Doubled(i) = i
      BY <2>3
    <3> HIDE DEF Doubled
    <3> QED BY <2>1, <2>2, <2>3, <3>1
  <2>4. CASE ~(i + 1 <= d)
    <3>1. Doubled(i + 1) = d /\ Doubled(i) = d
      BY <2>4
    <3> HIDE DEF Doubled
    <3> QED BY <2>1, <2>2, <2>4, <3>1
  <2> QED BY <2>3, <2>4
<1> PICK g : SumsUpTo(g, s, K) /\ LT!Total(s) = g[K]
  BY TotalFold
<1>3. g \in [0 .. K -> Nat] /\ g[0] = 0 /\ \A i \in 1 .. K : g[i] = g[i - 1] + s[i]
  BY DEF SumsUpTo
<1> DEFINE S == {i \in 0 .. K : g[i] = a[i] + b[i] + (IF i = K THEN rest ELSE 0)}
<1>4. 0 \in S
  BY <1>1, <1>3
<1>5. ASSUME NEW i \in 0 .. K - 1, i \in S PROVE i + 1 \in S
  <2>1. i + 1 \in 1 .. K /\ (i + 1) - 1 = i /\ i + 1 \in 0 .. K /\ i # K /\ i \in 0 .. K
    OBVIOUS
  <2>2. g[i + 1] = g[i] + s[i + 1]
    BY <1>3, <2>1
  <2>3. g[i] = a[i] + b[i] /\ a[i] \in Nat /\ b[i] \in Nat
    BY <1>1, <1>5, <2>1
  <2>4. a[i + 1] = a[i] + part /\ b[i + 1] = IF i + 1 <= d THEN b[i] + part ELSE b[i]
    BY <1>2
  <2>5. s[i + 1] = (IF i + 1 <= d THEN part + part ELSE part) + (IF i + 1 = K THEN rest ELSE 0)
    BY <2>1 DEF IsSliced
  <2> PICK x \in Nat, y \in Nat : x = a[i] /\ y = b[i]
    BY <2>3
  <2> PICK gn, an, bn, sn : gn = g[i + 1] /\ an = a[i + 1] /\ bn = b[i + 1] /\ sn = s[i + 1]
    OBVIOUS
  <2>6. gn = an + bn + (IF i + 1 = K THEN rest ELSE 0)
    <3>1. gn = (x + y) + sn /\ an = x + part
      BY <2>2, <2>3, <2>4
    <3>2. bn = IF i + 1 <= d THEN y + part ELSE y
      BY <2>4
    <3>3. sn = (IF i + 1 <= d THEN part + part ELSE part) + (IF i + 1 = K THEN rest ELSE 0)
      BY <2>5
    <3>4. x \in Nat /\ y \in Nat /\ part \in Nat /\ rest \in Nat
      OBVIOUS
    <3> QED BY ONLY <3>1, <3>2, <3>3, <3>4
  <2> QED BY <2>1, <2>6
<1>6. \A i \in 0 .. K : i \in S
  <2> HIDE DEF S
  <2> QED BY <1>4, <1>5, Induction
<1>7. g[K] = a[K] + b[K] + rest
  BY <1>6
<1> QED BY <1>1, <1>7

\* A number that is a multiple and what is left.
LeavesRest(left, part, K) ==
    \E d \in 0 .. K, rest \in Nat : d = LT!Least(K, left \div part) /\ left = part * d + rest

\* What is left after at most K parts of it is a number.
LEMMA Rest ==
    ASSUME NEW left \in Nat, NEW part \in Nat \ {0}, NEW K \in Nat
    PROVE  LeavesRest(left, part, K)
<1> PICK y \in Nat, r \in 0 .. part - 1 : y = left \div part /\ left = part * y + r
  <2>1. left \div part \in Nat /\ left % part \in 0 .. part - 1
        /\ left = part * (left \div part) + (left % part)
    BY DivMod
  <2> PICK y, r : y = left \div part /\ r = left % part
    OBVIOUS
  <2> QED BY <2>1
<1>1. CASE K < y
  <2>1. LT!Least(K, y) = K
    BY <1>1 DEF LT!Least
  <2>2. part * K <= part * y
    BY <1>1, TimesMonotone
  <2>3. part * K \in Nat /\ part * y \in Nat /\ part * y <= left
    OBVIOUS
  <2>4. left - part * K \in Nat /\ left = part * K + (left - part * K) /\ K \in 0 .. K
    BY <2>2, <2>3
  <2> QED BY <2>1, <2>4 DEF LeavesRest
<1>2. CASE ~(K < y)
  <2>1. LT!Least(K, y) = y /\ y \in 0 .. K /\ r \in Nat
    BY <1>2 DEF LT!Least
  <2> QED BY <2>1 DEF LeavesRest
<1> QED BY <1>1, <1>2

\* SlicingPass.cpp: the slices of a loop are numbers that add up to its length.
LEMMA SliceSizes ==
    ASSUME NEW L \in Nat, NEW K \in Nat \ {0}, K <= L
    PROVE  /\ LT!computeSliceSizes(L, K) \in [1 .. K -> Nat \ {0}]
           /\ LT!Total(LT!computeSliceSizes(L, K)) = L
<1> PICK q \in Nat, r \in 0 .. K - 1 : q = L \div K /\ L = K * q + r
  BY DivMod
<1>1. q \in Nat \ {0}
  <2> SUFFICES ASSUME q = 0 PROVE FALSE
    OBVIOUS
  <2>1. K * q = 0
    OBVIOUS
  <2> QED BY <2>1
<1> PICK part \in Nat \ {0} : part = LT!PowerOf2(LT!Log2(q)) /\ part <= q
  BY <1>1, PowerBelow
<1> PICK kp \in Nat : kp = K * part
  OBVIOUS
<1>2. kp <= L
  <2>1. K \in Nat /\ part \in Nat /\ K <= K
    OBVIOUS
  <2>2. K * part <= K * q
    BY <2>1, TimesMonotone
  <2>3. K * q \in Nat
    OBVIOUS
  <2> QED BY <2>2, <2>3
<1> PICK left \in Nat : left = L - kp
  BY <1>2
<1> PICK d \in 0 .. K, rest \in Nat : d = LT!Least(K, left \div part) /\ left = part * d + rest
  <2>1. K \in Nat /\ left \in Nat /\ part \in Nat \ {0}
    OBVIOUS
  <2>2. LeavesRest(left, part, K)
    BY <2>1, Rest
  <2> QED BY <2>2 DEF LeavesRest
<1>3. L - (K + d) * part = rest /\ L = part * K + part * d + rest
  <2> PICK dp \in Nat : dp = part * d
    OBVIOUS
  <2>1. (K + d) * part = kp + dp /\ part * K = kp
    OBVIOUS
  <2>2. left = dp + rest
    OBVIOUS
  <2>3. L - (kp + dp) = rest /\ L = kp + dp + rest
    BY ONLY <1>2, <2>2, left = L - kp, L \in Nat, kp \in Nat, dp \in Nat, rest \in Nat
  <2> QED BY ONLY <2>1, <2>3, dp = part * d
<1> DEFINE Size(i) == (IF i <= d THEN part + part ELSE part) + (IF i = K THEN rest ELSE 0)
<1>4. \A i \in 1 .. K : Size(i) \in Nat \ {0}
  BY ONLY d \in 0 .. K, part \in Nat \ {0}, K \in Nat, rest \in Nat
<1>5. LT!computeSliceSizes(L, K) = [i \in 1 .. K |-> Size(i)]
  <2>1. 2 * part = part + part
    OBVIOUS
  <2> QED BY <1>3, <2>1 DEF LT!computeSliceSizes
<1> PICK s : s = [i \in 1 .. K |-> Size(i)]
  OBVIOUS
<1> HIDE DEF Size
<1>6. s \in [1 .. K -> Nat \ {0}] /\ \A i \in 1 .. K : s[i] = Size(i)
  BY <1>4
<1>7. LT!Total(s) = part * K + part * d + rest
  <2>1. IsSliced(s, part, K, d, rest)
    BY <1>6 DEF Size, IsSliced
  <2> HIDE DEF Size
  <2>2. part \in Nat
    OBVIOUS
  <2>3. K \in Nat \ {0}
    OBVIOUS
  <2>4. d \in 0 .. K
    OBVIOUS
  <2>5. rest \in Nat
    OBVIOUS
  <2>6. s \in [1 .. K -> Nat]
    BY <1>6
  <2> QED BY ONLY <2>1, <2>2, <2>3, <2>4, <2>5, <2>6, SliceTotal
<1> QED BY <1>3, <1>5, <1>6, <1>7

\* SlicingPass.cpp: every iteration of a sliced operation runs once.
LEMMA SlicingRunsOnce ==
    ASSUME NEW op, IsOperation(op), NEW factor \in Nat
    PROVE  LT!RunsOnce(op, LT!sliceLinalgOp(op, factor))
<1> DEFINE ranges == op.ranges
           whole == factor <= 1 \/ 1 \in op.red \/ ranges[1] < factor
<1>1. IsRanges(ranges) /\ 1 \in DOMAIN ranges /\ ranges[1] \in Nat \ {0}
  BY DEF IsOperation, IsRanges
<1>2. CASE whole
  <2>1. LT!sliceLinalgOp(op, factor) = LT!Untouched(op)
    BY <1>2 DEF LT!sliceLinalgOp
  <2> QED BY <1>1, <2>1, WholeCuts, CutsRunOnce DEF LT!Untouched
<1>3. CASE ~whole
  <2> PICK L \in Nat \ {0}, K \in Nat \ {0} : L = ranges[1] /\ K = factor /\ K <= L
    BY <1>1, <1>3
  <2> PICK sizes \in [1 .. K -> Nat \ {0}] : sizes = LT!computeSliceSizes(L, K) /\ LT!Total(sizes) = L
    BY SliceSizes
  <2>1. sizes \in [1 .. K -> Nat] /\ K \in Nat
    OBVIOUS
  <2> PICK g : SumsUpTo(g, sizes, K) /\ LT!Total(sizes) = g[K]
    BY <2>1, TotalFold
  <2> DEFINE Slice(i) == [offset |-> [d \in LT!Loops(op) |-> IF d = 1 THEN g[i - 1] ELSE 0],
                          size |-> [ranges EXCEPT ![1] = sizes[i]]]
             pieces == {Slice(i) : i \in 1 .. K}
  <2>2. LT!sliceLinalgOp(op, factor) = LT!Plan(pieces, <<>>, 0)
    <3>1. \A i \in 1 .. K : LT!Total(SubSeq(sizes, 1, i - 1)) = g[i - 1]
      <4> SUFFICES ASSUME NEW i \in 1 .. K PROVE LT!Total(SubSeq(sizes, 1, i - 1)) = g[i - 1]
        OBVIOUS
      <4> PICK k \in 0 .. K : k = i - 1
        OBVIOUS
      <4>1. LT!Total(SubSeq(sizes, 1, k)) = g[k]
        BY <2>1, TotalPrefix
      <4> QED BY <4>1
    <3> DEFINE Cut(i) == [offset |-> [d \in LT!Loops(op) |-> IF d = 1 THEN LT!Total(SubSeq(sizes, 1, i - 1)) ELSE 0],
                          size |-> [ranges EXCEPT ![1] = sizes[i]]]
    <3>2. LT!sliceLinalgOp(op, factor)
            = LT!Plan({Cut(i) : i \in 1 .. K}, <<>>, 0)
      BY <1>3 DEF LT!sliceLinalgOp
    <3>3. \A i \in 1 .. K : Cut(i) = Slice(i)
      <4> SUFFICES ASSUME NEW i \in 1 .. K
                   PROVE  [d \in LT!Loops(op) |-> IF d = 1 THEN LT!Total(SubSeq(sizes, 1, i - 1)) ELSE 0]
                            = [d \in LT!Loops(op) |-> IF d = 1 THEN g[i - 1] ELSE 0]
        OBVIOUS
      <4> PICK total : total = LT!Total(SubSeq(sizes, 1, i - 1)) /\ total = g[i - 1]
        BY <3>1
      <4> QED OBVIOUS
    <3> HIDE DEF Slice, Cut
    <3>4. {Cut(i) : i \in 1 .. K} = pieces
      BY <3>3
    <3> QED BY <3>2, <3>4
  <2>3. /\ g \in [0 .. K -> Nat] /\ g[0] = 0 /\ g[K] = L
        /\ \A i \in 1 .. K : g[i] = g[i - 1] + sizes[i]
    BY DEF SumsUpTo
  <2>4. \A i \in 1 .. K : /\ i - 1 \in 0 .. K /\ g[i - 1] \in Nat /\ sizes[i] \in Nat /\ g[i] \in Nat
                         /\ g[i - 1] + sizes[i] <= L
    <3>1. \A j \in 0 .. K : \A k \in 0 .. j : g[k] <= g[j]
      BY <2>1, PrefixBounds
    <3>2. K \in 0 .. K /\ \A i \in 1 .. K : i \in 0 .. K /\ i - 1 \in 0 .. K
      OBVIOUS
    <3>3. \A i \in 1 .. K : g[i] <= L
      BY <2>3, <3>1, <3>2
    <3>4. \A i \in 1 .. K : g[i - 1] \in Nat /\ g[i] \in Nat /\ sizes[i] \in Nat
      BY <2>3, <3>2
    <3> QED BY <2>3, <3>2, <3>3, <3>4
  <2>5. \A d \in DOMAIN ranges : ranges[d] \in Nat \ {0}
    BY <1>1 DEF IsRanges
  <2>6. LT!Loops(op) = DOMAIN ranges
    BY DEF LT!Loops
  <2>7. ASSUME NEW i \in 1 .. K
        PROVE  /\ PieceInside(ranges, Slice(i))
               /\ \A p : IsPoint(ranges, p) =>
                     (LT!Holds(Slice(i), p) <=> g[i - 1] <= p[1] /\ p[1] < g[i - 1] + sizes[i])
    <3> PICK x \in Nat, y \in Nat \ {0} : x = g[i - 1] /\ y = sizes[i] /\ x + y <= L
      BY <2>4
    <3> PICK slice : slice = Slice(i)
      OBVIOUS
    <3>1. \A d \in DOMAIN ranges :
            /\ slice.offset[d] = (IF d = 1 THEN x ELSE 0)
            /\ slice.size[d] = (IF d = 1 THEN y ELSE ranges[d])
      BY <2>6
    <3> HIDE DEF Slice
    <3>2. PieceInside(ranges, slice)
      <4> SUFFICES ASSUME NEW d \in DOMAIN ranges
                   PROVE  /\ slice.offset[d] \in Nat /\ slice.size[d] \in Nat \ {0}
                          /\ slice.offset[d] + slice.size[d] <= ranges[d]
        BY DEF PieceInside
      <4> PICK range \in Nat \ {0} : range = ranges[d] /\ (d = 1 => range = L)
        BY <2>5
      <4>1. CASE d = 1
        <5>1. slice.offset[d] = x /\ slice.size[d] = y /\ range = L
          BY <3>1, <4>1
        <5>2. x \in Nat /\ y \in Nat \ {0} /\ x + y <= L /\ ranges[d] = range
          OBVIOUS
        <5> QED BY ONLY <5>1, <5>2
      <4>2. CASE d # 1
        <5>1. slice.offset[d] = 0 /\ slice.size[d] = range
          BY <3>1, <4>2
        <5> QED BY ONLY <5>1, range \in Nat \ {0}, range = ranges[d]
      <4> QED BY <4>1, <4>2
    <3>3. ASSUME NEW p, IsPoint(ranges, p)
          PROVE  LT!Holds(slice, p) <=> x <= p[1] /\ p[1] < x + y
      <4>1. DOMAIN p = DOMAIN ranges /\ \A d \in DOMAIN ranges : p[d] \in Nat /\ p[d] < ranges[d]
        BY <3>3 DEF IsPoint
      <4>2. \A d \in DOMAIN ranges : d # 1 => slice.offset[d] <= p[d] /\ p[d] < slice.offset[d] + slice.size[d]
        BY <2>5, <3>1, <4>1
      <4> QED BY <1>1, <3>1, <4>1, <4>2 DEF LT!Holds
    <3> QED BY <3>2, <3>3
  <2>8. ASSUME NEW p, IsPoint(ranges, p)
        PROVE  \E piece \in pieces : /\ LT!Holds(piece, p)
                                     /\ \A other \in pieces : LT!Holds(other, p) => other = piece
    <3> PICK x \in Nat : x = p[1] /\ x < g[K]
      BY <1>1, <2>3, <2>8 DEF IsPoint
    <3> PICK i \in 1 .. K : /\ g[i - 1] <= x /\ x < g[i - 1] + sizes[i]
                            /\ \A j \in 1 .. K : g[j - 1] <= x /\ x < g[j - 1] + sizes[j] => j = i
      <4>1. SumsUpTo(g, sizes, K) /\ sizes \in [1 .. K -> Nat] /\ K \in Nat /\ x \in Nat /\ x < g[K]
        BY <2>1
      <4> QED BY ONLY <4>1, OnePartEach
    <3>1. \A j \in 1 .. K : LT!Holds(Slice(j), p) <=> g[j - 1] <= x /\ x < g[j - 1] + sizes[j]
      BY <2>7, <2>8
    <3> HIDE DEF Slice
    <3>2. LT!Holds(Slice(i), p) /\ \A j \in 1 .. K : LT!Holds(Slice(j), p) => j = i
      BY <3>1
    <3>3. Slice(i) \in pieces /\ \A other \in pieces : \E j \in 1 .. K : other = Slice(j)
      OBVIOUS
    <3>4. \A other \in pieces : LT!Holds(other, p) => other = Slice(i)
      BY ONLY <3>2, <3>3
    <3> QED BY ONLY <3>2, <3>3, <3>4
  <2> HIDE DEF Slice
  <2>9. Cuts(ranges, pieces)
    BY <2>7, <2>8 DEF Cuts
  <2> HIDE DEF pieces
  <2> QED BY <1>1, <2>2, <2>9, CutsRunOnce
<1> HIDE DEF whole
<1> QED BY <1>2, <1>3

\* A list of one number adds up to it.
LEMMA TotalOfOne ==
    ASSUME NEW v \in Nat
    PROVE  LT!Total(<<v>>) = v
<1> PICK s : s = <<v>>
  OBVIOUS
<1>1. s \in [1 .. 1 -> Nat] /\ 1 \in Nat /\ s[1] = v
  OBVIOUS
<1> PICK g : SumsUpTo(g, s, 1) /\ LT!Total(s) = g[1]
  BY ONLY <1>1, TotalFold
<1>2. g[0] = 0 /\ g[1] = g[1 - 1] + s[1]
  BY DEF SumsUpTo
<1> QED BY <1>1, <1>2

\* No number of a list is more than their sum.
LEMMA EntryInTotal ==
    ASSUME NEW n \in Nat, NEW s \in [1 .. n -> Nat], NEW i \in 1 .. n
    PROVE  s[i] <= LT!Total(s) /\ LT!Total(s) \in Nat
<1> PICK g : SumsUpTo(g, s, n) /\ LT!Total(s) = g[n]
  BY TotalFold
<1>1. g \in [0 .. n -> Nat] /\ g[i] = g[i - 1] + s[i]
  BY DEF SumsUpTo
<1>2. i - 1 \in 0 .. n /\ i \in 0 .. n /\ n \in 0 .. n
  OBVIOUS
<1>3. g[i] <= g[n]
  <2>1. \A j \in 0 .. n : \A k \in 0 .. j : g[k] <= g[j]
    BY PrefixBounds
  <2> QED BY <1>2, <2>1
<1>4. g[i - 1] \in Nat /\ g[i] \in Nat /\ g[n] \in Nat /\ s[i] \in Nat
  BY <1>1, <1>2
<1> QED BY <1>1, <1>3, <1>4

\* Indices below the sizes of a shape are its points.
LEMMA PointsOfShape ==
    ASSUME NEW n \in Nat, NEW shape \in [1 .. n -> Nat], NEW x \in [1 .. n -> Nat],
           \A i \in 1 .. n : x[i] < shape[i]
    PROVE  x \in LT!Points(shape)
<1>1. DOMAIN shape = 1 .. n
  OBVIOUS
<1>2. \A i \in 1 .. n : x[i] \in 0 .. LT!Total(shape)
  <2> TAKE i \in 1 .. n
  <2>1. shape[i] <= LT!Total(shape) /\ LT!Total(shape) \in Nat
    BY EntryInTotal
  <2>2. x[i] < shape[i] /\ x[i] \in Nat /\ shape[i] \in Nat
    OBVIOUS
  <2> QED BY <2>1, <2>2
<1> QED BY <1>1, <1>2 DEF LT!Points

\* An element of the output tells the parallel iterations apart.
LEMMA CellEntries ==
    ASSUME NEW op, IsOperation(op), IndexesOutput(op), NEW l \in Nat, l = Len(LT!OutMap(op)),
           NEW p \in [LT!Loops(op) -> Nat], NEW q \in [LT!Loops(op) -> Nat]
    PROVE  /\ LT!CellOf(op, p) \in [1 .. l -> Nat]
           /\ LT!CellOf(op, p) = LT!CellOf(op, q) => \A d \in LT!Parallel(op) : p[d] = q[d]
<1> PICK map : map = LT!OutMap(op)
  OBVIOUS
<1>1. map \in Seq(Seq(LT!Loops(op))) /\ DOMAIN map = 1 .. l
  <2>1. op.maps \in Seq(Seq(Seq(LT!Loops(op)))) /\ op.maps # <<>>
    BY DEF IsOperation
  <2>2. map = op.maps[Len(op.maps)]
    BY DEF LT!OutMap
  <2>3. map \in Seq(Seq(LT!Loops(op)))
    BY <2>1, <2>2
  <2> QED BY <2>3
<1>2. \A x \in [LT!Loops(op) -> Nat] : \A i \in 1 .. l :
         LT!Total([j \in DOMAIN map[i] |-> x[map[i][j]]]) \in Nat
  <2> SUFFICES ASSUME NEW x \in [LT!Loops(op) -> Nat], NEW i \in 1 .. l
               PROVE  LT!Total([j \in DOMAIN map[i] |-> x[map[i][j]]]) \in Nat
    OBVIOUS
  <2> PICK m \in Seq(LT!Loops(op)) : m = map[i]
    BY <1>1
  <2> PICK k \in Nat : k = Len(m) /\ DOMAIN m = 1 .. k
    <3>1. m \in Seq(LT!Loops(op))
      OBVIOUS
    <3> QED BY ONLY <3>1
  <2> PICK s : s = [j \in DOMAIN m |-> x[m[j]]]
    OBVIOUS
  <2>1. s \in [1 .. k -> Nat]
    OBVIOUS
  <2> PICK g : SumsUpTo(g, s, k) /\ LT!Total(s) = g[k]
    BY <2>1, TotalFold
  <2>2. g[k] \in Nat
    <3>1. k \in 0 .. k
      OBVIOUS
    <3> QED BY <3>1 DEF SumsUpTo
  <2> QED BY <2>2
<1>3. \A x \in [LT!Loops(op) -> Nat] :
         LT!CellOf(op, x) = [i \in 1 .. l |-> LT!Total([j \in DOMAIN map[i] |-> x[map[i][j]]])]
  BY <1>1 DEF LT!CellOf
<1>4. ASSUME NEW d \in LT!Parallel(op), LT!CellOf(op, p) = LT!CellOf(op, q)
      PROVE  p[d] = q[d]
  <2> PICK i \in 1 .. l : map[i] = <<d>>
    BY <1>1 DEF IndexesOutput
  <2>1. \A x \in [LT!Loops(op) -> Nat] : LT!Total([j \in DOMAIN map[i] |-> x[map[i][j]]]) = x[d]
    <3> SUFFICES ASSUME NEW x \in [LT!Loops(op) -> Nat]
                 PROVE  LT!Total([j \in DOMAIN map[i] |-> x[map[i][j]]]) = x[d]
      OBVIOUS
    <3> PICK v \in Nat : v = x[d]
      BY DEF LT!Parallel
    <3>1. [j \in DOMAIN map[i] |-> x[map[i][j]]] = <<v>>
      <4> PICK m : m = map[i]
        OBVIOUS
      <4>1. m = <<d>> /\ DOMAIN m = 1 .. 1 /\ m[1] = d
        OBVIOUS
      <4>2. [j \in DOMAIN m |-> x[m[j]]] = [j \in 1 .. 1 |-> v]
        BY <4>1
      <4>3. [j \in 1 .. 1 |-> v] = <<v>>
        OBVIOUS
      <4> QED BY <4>2, <4>3
    <3> QED BY <3>1, TotalOfOne
  <2>2. LT!CellOf(op, p)[i] = p[d] /\ LT!CellOf(op, q)[i] = q[d]
    BY <1>3, <2>1
  <2> QED BY <1>4, <2>2
<1>5. LT!CellOf(op, p) \in [1 .. l -> Nat]
  <2> DEFINE Element(i) == LT!Total([j \in DOMAIN map[i] |-> p[map[i][j]]])
  <2>1. LT!CellOf(op, p) = [i \in 1 .. l |-> Element(i)]
    BY <1>3
  <2>2. \A i \in 1 .. l : Element(i) \in Nat
    BY <1>2
  <2> HIDE DEF Element
  <2> QED BY ONLY <2>1, <2>2
<1> QED BY <1>4, <1>5

\* Iterations of the same element agree on every parallel loop.
LEMMA CellsApart ==
    ASSUME NEW op, IsOperation(op), IndexesOutput(op),
           NEW p \in [LT!Loops(op) -> Nat], NEW q \in [LT!Loops(op) -> Nat],
           LT!CellOf(op, p) = LT!CellOf(op, q), NEW d \in LT!Parallel(op)
    PROVE  p[d] = q[d]
<1> PICK l \in Nat : l = Len(LT!OutMap(op))
  <2>1. op.maps \in Seq(Seq(Seq(LT!Loops(op)))) /\ op.maps # <<>>
    BY DEF IsOperation
  <2>2. LT!OutMap(op) \in Seq(Seq(LT!Loops(op)))
    BY <2>1 DEF LT!OutMap
  <2> QED BY <2>2
<1> QED BY CellEntries

\* The element of an iteration is inside a shape that holds its parallel part.
LEMMA CellFits ==
    ASSUME NEW op, IsOperation(op), IndexesOutput(op), NEW l \in Nat, l = Len(LT!OutMap(op)),
           NEW p \in [LT!Loops(op) -> Nat], NEW sizes \in [LT!Loops(op) -> Nat \ {0}],
           \A d \in LT!Parallel(op) : p[d] < sizes[d]
    PROVE  /\ LT!Extents(LT!OutMap(op), sizes) \in [1 .. l -> Nat]
           /\ \A i \in 1 .. l : LT!CellOf(op, p)[i] < LT!Extents(LT!OutMap(op), sizes)[i]
<1> PICK map : map = LT!OutMap(op)
  OBVIOUS
<1>1. DOMAIN map = 1 .. l /\ \A i \in 1 .. l : map[i] \in Seq(LT!Parallel(op))
  <2>1. op.maps \in Seq(Seq(Seq(LT!Loops(op)))) /\ op.maps # <<>>
    BY DEF IsOperation
  <2>2. map = op.maps[Len(op.maps)]
    BY DEF LT!OutMap
  <2>3. map \in Seq(Seq(LT!Loops(op)))
    BY <2>1, <2>2
  <2>4. DOMAIN map = 1 .. l
    BY <2>3
  <2>5. \A i \in DOMAIN map : map[i] \in Seq(LT!Parallel(op))
    BY DEF IndexesOutput
  <2> QED BY <2>4, <2>5
<1> DEFINE Element(i) == LT!Total([j \in DOMAIN map[i] |-> p[map[i][j]]])
           Greatest(i) == LT!Total([j \in DOMAIN map[i] |-> sizes[map[i][j]] - 1])
<1>2. ASSUME NEW i \in 1 .. l
      PROVE  Element(i) \in Nat /\ Greatest(i) \in Nat /\ Element(i) <= Greatest(i)
  <2> PICK m \in Seq(LT!Parallel(op)) : m = map[i]
    BY <1>1
  <2> PICK k \in Nat : k = Len(m) /\ DOMAIN m = 1 .. k
    OBVIOUS
  <2> PICK s, t : s = [j \in DOMAIN m |-> p[m[j]]] /\ t = [j \in DOMAIN m |-> sizes[m[j]] - 1]
    OBVIOUS
  <2>1. \A d \in LT!Parallel(op) : p[d] \in Nat /\ sizes[d] - 1 \in Nat /\ p[d] <= sizes[d] - 1
    BY DEF LT!Parallel
  <2>2. \A j \in 1 .. k : m[j] \in LT!Parallel(op)
    OBVIOUS
  <2>3. s \in [1 .. k -> Nat] /\ t \in [1 .. k -> Nat] /\ \A j \in 1 .. k : s[j] <= t[j]
    BY <2>1, <2>2
  <2>4. LT!Total(s) \in Nat /\ LT!Total(t) \in Nat /\ LT!Total(s) <= LT!Total(t)
    BY <2>3, TotalMonotone
  <2> QED BY <2>4
<1>3. /\ LT!Extents(map, sizes) = [i \in 1 .. l |-> Greatest(i) + 1]
      /\ LT!CellOf(op, p) = [i \in 1 .. l |-> Element(i)]
  BY <1>1 DEF LT!Extents, LT!CellOf
<1> HIDE DEF Element, Greatest
<1>4. \A i \in 1 .. l : Greatest(i) + 1 \in Nat /\ Element(i) < Greatest(i) + 1
  <2> TAKE i \in 1 .. l
  <2> PICK a \in Nat, b \in Nat : a = Element(i) /\ b = Greatest(i) /\ a <= b
    BY <1>2
  <2>1. b + 1 \in Nat /\ a < b + 1
    OBVIOUS
  <2> QED BY <2>1
<1> QED BY <1>3, <1>4

\* A list is a prefix of another list of its length only when they are equal.
LEMMA PrefixOfLane ==
    ASSUME NEW l \in Nat, NEW u \in [1 .. l -> Nat], NEW v \in [1 .. l -> Nat], NEW x \in Nat
    PROVE  LT!IsPrefix(u, v \o <<x>>) <=> u = v
<1>1. u \in Seq(Nat) /\ v \in Seq(Nat) /\ Len(u) = l /\ Len(v) = l
  OBVIOUS
<1>2. v \o <<x>> = [j \in 1 .. l + 1 |-> IF j <= l THEN v[j] ELSE x]
  <2>1. v \o <<x>> = Longer(v, l, x)
    BY AppendToFunction
  <2> QED BY <2>1 DEF Longer
<1> PICK w : w = v \o <<x>>
  OBVIOUS
<1>3. w \in Seq(Nat) /\ Len(w) = l + 1 /\ \A j \in 1 .. l : w[j] = v[j]
  BY <1>1, <1>2
<1>4. SubSeq(w, 1, l) = [j \in 1 .. l |-> w[j]] /\ SubSeq(u, 1, l) = [j \in 1 .. l |-> u[j]]
  <2>1. \A j \in 1 .. l : w[j] \in Nat
    BY <1>3
  <2> QED BY <1>1, <1>3
<1>5. SubSeq(w, 1, l) = v /\ SubSeq(u, 1, l) = u
  BY <1>3, <1>4
<1>6. l <= l + 1
  OBVIOUS
<1> QED BY <1>1, <1>3, <1>5, <1>6 DEF LT!IsPrefix

\* SplitReductionUtils.cpp: when the pieces cut an operation with one reduction
\* loop, every iteration is added once, through a lane of its own element.
LEMMA LanesRunOnce ==
    ASSUME NEW op, IsOperation(op), IndexesOutput(op), NEW n \in LT!Loops(op), op.red = {n},
           NEW pieces, Cuts(op.ranges, pieces), NEW inits
    PROVE  LT!EachOnce(op, LT!Plan(pieces, <<n>>, inits))
<1> DEFINE Longest(d) == LT!Max({piece.size[d] : piece \in pieces})
           Points == LT!Points(op.ranges)
<1> PICK tiles : tiles = [d \in LT!Loops(op) |-> Longest(d)]
  OBVIOUS
<1>1. /\ IsRanges(op.ranges) /\ LT!Loops(op) = DOMAIN op.ranges /\ LT!Parallel(op) = LT!Loops(op) \ {n}
      /\ \A d \in LT!Loops(op) : op.ranges[d] \in Nat \ {0}
  BY DEF IsOperation, IsRanges, LT!Loops, LT!Parallel
<1>2. \A p \in Points : /\ p \in [LT!Loops(op) -> Nat] /\ \A d \in LT!Loops(op) : p[d] < op.ranges[d]
                        /\ \E piece \in pieces :
                              /\ LT!Holds(piece, p)
                              /\ \A other \in pieces : LT!Holds(other, p) => other = piece
  <2> TAKE p \in Points
  <2>1. IsPoint(op.ranges, p)
    BY PointsArePoints
  <2> QED BY <1>1, <2>1 DEF IsPoint, Cuts
<1>3. tiles[n] \in Nat \ {0} /\ \A piece \in pieces : piece.size[n] \in Nat \ {0} /\ piece.size[n] <= tiles[n]
  <2> DEFINE Sizes == {piece.size[n] : piece \in pieces}
  <2>1. \A piece \in pieces : piece.size[n] \in 1 .. op.ranges[n]
    <3> TAKE piece \in pieces
    <3>1. /\ piece.offset[n] \in Nat /\ piece.size[n] \in Nat \ {0}
          /\ piece.offset[n] + piece.size[n] <= op.ranges[n] /\ op.ranges[n] \in Nat
      BY <1>1 DEF Cuts, PieceInside
    <3> QED BY <3>1
  <2>2. Sizes # {}
    <3> DEFINE first == [d \in DOMAIN op.ranges |-> 0]
    <3>1. IsPoint(op.ranges, first)
      BY <1>1 DEF IsPoint
    <3>2. pieces # {}
      BY <3>1 DEF Cuts
    <3> QED BY <3>2
  <2> PICK r \in Nat : r = op.ranges[n]
    BY <1>1
  <2>3. Sizes \in SUBSET (1 .. r)
    BY <2>1
  <2> HIDE DEF Sizes
  <2>4. Max(Sizes) \in Sizes /\ \A y \in Sizes : Max(Sizes) >= y
    BY <2>2, <2>3, GreatestExists
  <2>5. tiles[n] = Max(Sizes)
    BY DEF LT!Max, Max, Sizes
  <2>6. Max(Sizes) \in Nat \ {0} /\ \A y \in Sizes : y \in Nat \ {0} /\ y <= Max(Sizes)
    <3> PICK x : x = Max(Sizes)
      OBVIOUS
    <3>1. x \in Sizes /\ \A y \in Sizes : x >= y
      BY <2>4
    <3>2. \A y \in Sizes : y \in Nat \ {0}
      BY <2>3
    <3>3. \A y \in Sizes : y <= x
      BY <3>1, <3>2
    <3> QED BY <3>1, <3>2, <3>3
  <2> QED BY <2>5, <2>6 DEF Sizes
<1> PICK l \in Nat : l = Len(LT!OutMap(op))
  <2>1. op.maps \in Seq(Seq(Seq(LT!Loops(op)))) /\ op.maps # <<>>
    BY DEF IsOperation
  <2>2. LT!OutMap(op) \in Seq(Seq(LT!Loops(op)))
    BY <2>1 DEF LT!OutMap
  <2> QED BY <2>2
<1> DEFINE Cell(p) == LT!CellOf(op, p)
           Lane(piece, p) == Cell(p) \o <<p[n] - piece.offset[n]>>
           lanes == LT!Points(LT!createInitialTensorsForTiling(op, tiles, <<n>>))
           Add(piece, p) == [by |-> piece, lane |-> Lane(piece, p), adds |-> p]
           added == UNION {{Add(piece, p) : p \in {p \in Points : LT!Holds(piece, p)}} : piece \in pieces}
<1>4. \A piece \in pieces, p \in Points :
         LT!getInitSliceInfoForOuterReduction(op, <<n>>, piece, p) = Lane(piece, p)
  <2> TAKE piece \in pieces, p \in Points
  <2>1. [i \in DOMAIN <<n>> |-> p[<<n>>[i]] - piece.offset[<<n>>[i]]] = <<p[n] - piece.offset[n]>>
    OBVIOUS
  <2> QED BY <2>1 DEF LT!getInitSliceInfoForOuterReduction
<1>5. ASSUME NEW piece \in pieces, NEW p \in Points, LT!Holds(piece, p)
      PROVE  /\ p[n] - piece.offset[n] \in Nat /\ p[n] - piece.offset[n] < tiles[n]
             /\ Cell(p) \in [1 .. l -> Nat]
  <2>1. piece.offset[n] <= p[n] /\ p[n] < piece.offset[n] + piece.size[n]
    BY <1>2, <1>5 DEF LT!Holds
  <2>2. piece.offset[n] \in Nat /\ p[n] \in Nat /\ piece.size[n] \in Nat /\ tiles[n] \in Nat /\ piece.size[n] <= tiles[n]
    BY <1>1, <1>2, <1>3 DEF Cuts, PieceInside
  <2>3. Cell(p) \in [1 .. l -> Nat]
    BY <1>2, CellEntries
  <2> HIDE DEF Cell
  <2> QED BY <2>1, <2>2, <2>3
<1>6. ASSUME NEW piece \in pieces, NEW p \in Points, LT!Holds(piece, p)
      PROVE  Lane(piece, p) \in lanes
  <2> PICK sizes : sizes = [d \in LT!Loops(op) |-> IF d \in LT!ToSet(<<n>>) THEN tiles[d] ELSE op.ranges[d]]
    OBVIOUS
  <2>1. LT!ToSet(<<n>>) = {n}
    BY DEF LT!ToSet
  <2>2. sizes \in [LT!Loops(op) -> Nat \ {0}] /\ sizes[n] = tiles[n]
        /\ \A d \in LT!Parallel(op) : p[d] < sizes[d]
    BY <1>1, <1>2, <1>3, <2>1
  <2> PICK ext : ext = LT!Extents(LT!OutMap(op), sizes)
    OBVIOUS
  <2>3. ext \in [1 .. l -> Nat] /\ \A i \in 1 .. l : Cell(p)[i] < ext[i]
    BY <1>2, <2>2, CellFits
  <2>4. LT!createInitialTensorsForTiling(op, tiles, <<n>>) = ext \o <<sizes[n]>>
    <3>1. [i \in DOMAIN <<n>> |-> sizes[<<n>>[i]]] = <<sizes[n]>>
      <4> PICK z \in Nat : z = sizes[n]
        BY <2>2
      <4> PICK one : one = <<n>>
        OBVIOUS
      <4>1. one = <<n>> /\ DOMAIN one = 1 .. 1 /\ one[1] = n /\ sizes[n] = z /\ z \in Nat
        OBVIOUS
      <4>2. [i \in DOMAIN one |-> sizes[one[i]]] = [i \in 1 .. 1 |-> z]
        BY ONLY <4>1
      <4>3. [i \in 1 .. 1 |-> z] = <<z>>
        BY ONLY <4>1
      <4> QED BY ONLY <4>1, <4>2, <4>3
    <3> QED BY <3>1 DEF LT!createInitialTensorsForTiling
  <2> PICK v \in Nat, t \in Nat, cell \in [1 .. l -> Nat] :
          v = p[n] - piece.offset[n] /\ t = sizes[n] /\ cell = Cell(p) /\ v < t
    BY <1>3, <1>5, <1>6, <2>2
  <2>5. ext \o <<t>> = [j \in 1 .. l + 1 |-> IF j <= l THEN ext[j] ELSE t]
    <3>1. ext \in [1 .. l -> Nat] /\ l \in Nat /\ t \in Nat
      BY <2>3
    <3>2. ext \o <<t>> = Longer(ext, l, t)
      BY ONLY <3>1, AppendToFunction
    <3> QED BY <3>2 DEF Longer
  <2>6. cell \o <<v>> = [j \in 1 .. l + 1 |-> IF j <= l THEN cell[j] ELSE v]
    <3>1. cell \in [1 .. l -> Nat] /\ l \in Nat /\ v \in Nat
      OBVIOUS
    <3>2. cell \o <<v>> = Longer(cell, l, v)
      BY ONLY <3>1, AppendToFunction
    <3> QED BY <3>2 DEF Longer
  <2> PICK shape, x : shape = ext \o <<t>> /\ x = cell \o <<v>>
    OBVIOUS
  <2> PICK m \in Nat : m = l + 1
    OBVIOUS
  <2>7. \A j \in 1 .. m : j <= l => j \in 1 .. l
    OBVIOUS
  <2>8. \A j \in 1 .. l : cell[j] \in Nat /\ ext[j] \in Nat /\ cell[j] < ext[j]
    BY <2>3
  <2>9. shape \in [1 .. m -> Nat] /\ x \in [1 .. m -> Nat] /\ \A j \in 1 .. m : x[j] < shape[j]
    <3>1. shape = [j \in 1 .. m |-> IF j <= l THEN ext[j] ELSE t] /\ x = [j \in 1 .. m |-> IF j <= l THEN cell[j] ELSE v]
      BY <2>5, <2>6
    <3>2. v \in Nat /\ t \in Nat /\ v < t
      OBVIOUS
    <3> QED BY ONLY <2>7, <2>8, <3>1, <3>2
  <2>10. x \in LT!Points(shape)
    BY <2>9, PointsOfShape
  <2> QED BY <2>4, <2>10
<1>7. ASSUME NEW piece \in pieces, NEW p \in Points, LT!Holds(piece, p), NEW q \in Points, LT!Holds(piece, q),
             Lane(piece, p) = Lane(piece, q)
      PROVE  p = q
  <2> PICK u \in [1 .. l -> Nat], v \in [1 .. l -> Nat], a \in Nat, b \in Nat :
          u = Cell(p) /\ v = Cell(q) /\ a = p[n] - piece.offset[n] /\ b = q[n] - piece.offset[n]
    BY <1>5, <1>7
  <2>1. u \o <<a>> = v \o <<b>>
    BY <1>7
  <2>2. u \o <<a>> = [j \in 1 .. l + 1 |-> IF j <= l THEN u[j] ELSE a]
    <3>1. u \in [1 .. l -> Nat] /\ l \in Nat /\ a \in Nat
      OBVIOUS
    <3>2. u \o <<a>> = Longer(u, l, a)
      BY ONLY <3>1, AppendToFunction
    <3> QED BY <3>2 DEF Longer
  <2>3. v \o <<b>> = [j \in 1 .. l + 1 |-> IF j <= l THEN v[j] ELSE b]
    <3>1. v \in [1 .. l -> Nat] /\ l \in Nat /\ b \in Nat
      OBVIOUS
    <3>2. v \o <<b>> = Longer(v, l, b)
      BY ONLY <3>1, AppendToFunction
    <3> QED BY <3>2 DEF Longer
  <2>4. u = v /\ a = b
    <3>1. \A j \in 1 .. l + 1 : (IF j <= l THEN u[j] ELSE a) = (IF j <= l THEN v[j] ELSE b)
      BY <2>1, <2>2, <2>3
    <3>2. \A j \in 1 .. l : j \in 1 .. l + 1 /\ j <= l
      OBVIOUS
    <3>3. l + 1 \in 1 .. l + 1 /\ ~(l + 1 <= l)
      OBVIOUS
    <3> QED BY <3>1, <3>2, <3>3
  <2>5. \A d \in LT!Parallel(op) : p[d] = q[d]
    <3>1. p \in [LT!Loops(op) -> Nat] /\ q \in [LT!Loops(op) -> Nat] /\ LT!CellOf(op, p) = LT!CellOf(op, q)
      BY <1>2, <2>4
    <3>2. l \in Nat /\ l = Len(LT!OutMap(op)) /\ IsOperation(op) /\ IndexesOutput(op)
      OBVIOUS
    <3> QED BY ONLY <3>1, <3>2, CellsApart
  <2>6. p[n] = q[n]
    <3>1. piece.offset[n] \in Nat /\ p[n] \in Nat /\ q[n] \in Nat
      BY <1>1, <1>2 DEF Cuts, PieceInside
    <3> QED BY <2>4, <3>1
  <2> QED BY <1>1, <1>2, <2>5, <2>6
<1> DEFINE held(piece) == {p \in Points : LT!Holds(piece, p)}
           LastOf(S) == CHOOSE p \in S : \A q \in S : \A d \in DOMAIN p : q[d] <= p[d]
<1>8. ASSUME NEW piece \in pieces
      PROVE  LT!tileToPartialReduction(op, <<n>>, lanes, piece) = {Add(piece, p) : p \in held(piece)}
  <2>1. LT!tileToPartialReduction(op, <<n>>, lanes, piece)
          = {[by |-> piece, lane |-> lane, adds |-> LastOf({p \in held(piece) : Lane(piece, p) = lane})] :
                lane \in lanes \cap {Lane(piece, p) : p \in held(piece)}}
    <3> DEFINE At(p) == LT!getInitSliceInfoForOuterReduction(op, <<n>>, piece, p)
    <3>1. LT!tileToPartialReduction(op, <<n>>, lanes, piece)
            = {[by |-> piece, lane |-> lane, adds |-> LastOf({p \in held(piece) : At(p) = lane})] :
                  lane \in lanes \cap {At(p) : p \in held(piece)}}
      <4> HIDE DEF lanes
      <4> QED BY DEF LT!tileToPartialReduction
    <3>2. \A p \in held(piece) : At(p) = Lane(piece, p)
      BY <1>4
    <3> HIDE DEF At, Lane, lanes, LastOf
    <3>3. {At(p) : p \in held(piece)} = {Lane(piece, p) : p \in held(piece)}
      BY <3>2
    <3>4. \A lane : {p \in held(piece) : At(p) = lane} = {p \in held(piece) : Lane(piece, p) = lane}
      BY <3>2
    <3> HIDE DEF held
    <3> DEFINE Result(lane) == [by |-> piece, lane |-> lane, adds |-> LastOf({p \in held(piece) : At(p) = lane})]
               Sum(lane) == [by |-> piece, lane |-> lane, adds |-> LastOf({p \in held(piece) : Lane(piece, p) = lane})]
    <3>5. \A lane : Result(lane) = Sum(lane)
      BY ONLY <3>4
    <3> PICK left, right : left = lanes \cap {At(p) : p \in held(piece)}
                           /\ right = lanes \cap {Lane(piece, p) : p \in held(piece)}
      OBVIOUS
    <3>6. left = right
      BY ONLY <3>3, left = lanes \cap {At(p) : p \in held(piece)},
              right = lanes \cap {Lane(piece, p) : p \in held(piece)}
    <3>7. /\ LT!tileToPartialReduction(op, <<n>>, lanes, piece) = {Result(lane) : lane \in left}
          /\ {[by |-> piece, lane |-> lane, adds |-> LastOf({p \in held(piece) : Lane(piece, p) = lane})] :
                 lane \in lanes \cap {Lane(piece, p) : p \in held(piece)}} = {Sum(lane) : lane \in right}
      BY <3>1
    <3> HIDE DEF Result, Sum
    <3> QED BY ONLY <3>5, <3>6, <3>7
  <2>2. \A p \in held(piece) : Lane(piece, p) \in lanes
    <3> HIDE DEF Lane, lanes
    <3> QED BY <1>6
  <2>3. ASSUME NEW p \in held(piece) PROVE LastOf({q \in held(piece) : Lane(piece, q) = Lane(piece, p)}) = p
    <3>1. {q \in held(piece) : Lane(piece, q) = Lane(piece, p)} = {p}
      <4> HIDE DEF Lane
      <4> QED BY <1>7, <2>3
    <3>2. \A d \in DOMAIN p : p[d] <= p[d]
      BY <1>2, <2>3
    <3> HIDE DEF held, Lane
    <3>3. LastOf({p}) = p
      BY <3>2
    <3> HIDE DEF LastOf
    <3> QED BY <3>1, <3>3
  <2> HIDE DEF Lane, lanes, LastOf, held
  <2>4. lanes \cap {Lane(piece, p) : p \in held(piece)} = {Lane(piece, p) : p \in held(piece)}
    BY <2>2
  <2> DEFINE Of(lane) == [by |-> piece, lane |-> lane, adds |-> LastOf({p \in held(piece) : Lane(piece, p) = lane})]
  <2>5. \A p \in held(piece) : Of(Lane(piece, p)) = Add(piece, p)
    BY <2>3
  <2>6. LT!tileToPartialReduction(op, <<n>>, lanes, piece) = {Of(lane) : lane \in {Lane(piece, p) : p \in held(piece)}}
    BY <2>1, <2>4
  <2> HIDE DEF Of, Add
  <2> QED BY <2>5, <2>6
<1> DEFINE Reaching(cell) == {a \in added : LT!IsPrefix(cell, a.lane)}
           Cells == {Cell(p) : p \in Points}
<1>9. LT!TileLoopUsingSCF(op, pieces, tiles, <<n>>) = [cell \in Cells |-> Reaching(cell)]
  <2> DEFINE partial == UNION {LT!tileToPartialReduction(op, <<n>>, lanes, piece) : piece \in pieces}
  <2>1. partial = added
    <3> HIDE DEF Add, lanes
    <3> QED BY <1>8
  <2>2. LT!TileLoopUsingSCF(op, pieces, tiles, <<n>>)
          = [cell \in Cells |-> {a \in partial : LT!IsPrefix(cell, a.lane)}]
    BY DEF LT!TileLoopUsingSCF, LT!mergeTilingResults
  <2> HIDE DEF partial, added, Cells
  <2> QED BY <2>1, <2>2
<1>10. ASSUME NEW q \in Points, NEW piece \in pieces, NEW p \in Points, LT!Holds(piece, p)
       PROVE  LT!IsPrefix(Cell(q), Lane(piece, p)) <=> Cell(q) = Cell(p)
  <2> PICK u \in [1 .. l -> Nat], v \in [1 .. l -> Nat], a \in Nat :
          u = Cell(q) /\ v = Cell(p) /\ a = p[n] - piece.offset[n]
    <3>1. Cell(q) \in [1 .. l -> Nat]
      BY <1>2, CellEntries
    <3> QED BY <1>5, <1>10, <3>1
  <2>1. LT!IsPrefix(u, v \o <<a>>) <=> u = v
    <3>1. l \in Nat /\ u \in [1 .. l -> Nat] /\ v \in [1 .. l -> Nat] /\ a \in Nat
      OBVIOUS
    <3> QED BY ONLY <3>1, PrefixOfLane
  <2> HIDE DEF Cell
  <2> QED BY <2>1
<1> HIDE DEF Lane
<1>11. \A a \in added : \E piece \in pieces, p \in Points : LT!Holds(piece, p) /\ a = Add(piece, p)
  OBVIOUS
<1>12. \A piece \in pieces, p \in Points : LT!Holds(piece, p) => Add(piece, p) \in added
  OBVIOUS
<1> HIDE DEF added, Cell
<1> DEFINE Exact(R, cell) == /\ \A a, b \in R : a.adds = b.adds => a = b
                             /\ {a.adds : a \in R} = {p \in Points : LT!CellOf(op, p) = cell}
<1>13. ASSUME NEW cell \in Cells
       PROVE  Exact(Reaching(cell), cell)
  <2> PICK q \in Points : cell = Cell(q)
    OBVIOUS
  <2>1. \A a \in Reaching(cell) : \E piece \in pieces, p \in Points :
           LT!Holds(piece, p) /\ a = Add(piece, p) /\ a.adds = p /\ Cell(p) = cell
    BY <1>10, <1>11
  <2>2. ASSUME NEW a \in Reaching(cell), NEW b \in Reaching(cell), a.adds = b.adds
        PROVE  a = b
    <3> PICK piece \in pieces, p \in Points : LT!Holds(piece, p) /\ a = Add(piece, p) /\ a.adds = p
      BY <2>1
    <3> PICK other \in pieces, r \in Points : LT!Holds(other, r) /\ b = Add(other, r) /\ b.adds = r
      BY <2>1
    <3>1. p = r
      BY <2>2
    <3>2. piece = other
      BY <1>2, <3>1
    <3> HIDE DEF Add
    <3> QED BY <3>1, <3>2
  <2>3. ASSUME NEW p \in Points, Cell(p) = cell
        PROVE  \E a \in Reaching(cell) : a.adds = p
    <3> PICK piece \in pieces : LT!Holds(piece, p)
      BY <1>2
    <3>1. Add(piece, p) \in added /\ LT!IsPrefix(cell, Add(piece, p).lane) /\ Add(piece, p).adds = p
      BY <1>10, <1>12, <2>3
    <3> HIDE DEF Add
    <3> QED BY <3>1
  <2> HIDE DEF Reaching
  <2> QED BY <2>1, <2>2, <2>3 DEF Cell
<1>14. LT!EachOnce(op, LT!Plan(pieces, <<n>>, inits)) <=> \A cell \in Cells : Exact(Reaching(cell), cell)
  <2> PICK plan : plan = LT!Plan(pieces, <<n>>, inits)
    OBVIOUS
  <2>1. plan.pieces = pieces /\ plan.dims = <<n>> /\ <<n>> # <<>>
    BY DEF LT!Plan
  <2> PICK result : result = LT!TileLoopUsingSCF(op, pieces, tiles, <<n>>)
    OBVIOUS
  <2>2. LT!EachOnce(op, plan) <=> \E r \in {result} : \A cell \in DOMAIN r : Exact(r[cell], cell)
    <3>1. LT!EachOnce(op, plan)
            <=> \E r \in {LT!TileLoopUsingSCF(op, plan.pieces,
                             [d \in LT!Loops(op) |-> LT!Max({piece.size[d] : piece \in plan.pieces})], plan.dims)} :
                   \A cell \in DOMAIN r : Exact(r[cell], cell)
      BY <2>1 DEF LT!EachOnce
    <3>2. [d \in LT!Loops(op) |-> LT!Max({piece.size[d] : piece \in plan.pieces})] = tiles
      BY <2>1
    <3> HIDE DEF Exact
    <3> QED BY <2>1, <3>1, <3>2
  <2>3. DOMAIN result = Cells /\ \A cell \in Cells : result[cell] = Reaching(cell)
    <3> HIDE DEF Cells, Reaching
    <3> QED BY <1>9
  <2> HIDE DEF Cells, Reaching, Exact
  <2>4. LT!EachOnce(op, plan) <=> \A cell \in Cells : Exact(result[cell], cell)
    BY <2>2, <2>3
  <2>5. \A cell \in Cells : Exact(result[cell], cell) <=> Exact(Reaching(cell), cell)
    BY <2>3
  <2> QED BY <2>4, <2>5
<1> HIDE DEF Cells, Reaching, Exact
<1> QED BY <1>13, <1>14

(***************************************************************************)
(* The passes.                                                              *)
(***************************************************************************)
\* VTCMTilingOptions.cpp and VTCMTiling.cpp: whatever sizes the user gave or the
\* pass determined, every iteration runs once.
THEOREM VTCMTilingRunsOnce ==
    ASSUME NEW op, IsOperation(op), NEW budget \in Nat \ {0}, NEW userTileSizes \in Seq(Nat),
           userTileSizes # <<>> => Len(userTileSizes) >= LT!Innermost(op)
    PROVE  LT!RunsOnce(op, LT!VTCMTiling(op, userTileSizes, budget))
<1> DEFINE tiles == LT!getTileSizes(op, userTileSizes, budget)
<1>1. IsRanges(op.ranges) /\ LT!Loops(op) = DOMAIN op.ranges
  BY DEF IsOperation, IsRanges, LT!Loops
<1>2. tiles \in [LT!Loops(op) -> Nat] \cup {<<>>}
  <2>1. CASE userTileSizes = <<>>
    <3>1. tiles = LT!determineTileSizes(op, budget, <<>>)
      BY <2>1 DEF LT!getTileSizes
    <3> HIDE DEF tiles
    <3> PICK determined : determined = LT!determineTileSizes(op, budget, <<>>)
      OBVIOUS
    <3>2. CASE determined = <<>>
      BY <3>1, <3>2
    <3>3. CASE determined # <<>>
      <4>1. determined \in [LT!Loops(op) -> Nat \ {0}]
        BY <3>3, DeterminedTiles
      <4> QED BY <3>1, <4>1
    <3> QED BY <3>2, <3>3
  <2>2. CASE userTileSizes # <<>>
    <3> PICK n \in Nat : n = Len(op.ranges) /\ LT!Loops(op) = 1 .. n
      BY <1>1 DEF IsRanges
    <3>1. n <= Len(userTileSizes)
      BY <2>2 DEF LT!Innermost
    <3>2. tiles = SubSeq(userTileSizes, Len(userTileSizes) - n + 1, Len(userTileSizes))
      BY <2>2 DEF LT!getTileSizes
    <3> HIDE DEF tiles
    <3>3. tiles \in [1 .. n -> Nat]
      BY <3>1, <3>2, LastEntries
    <3> QED BY <3>3
  <2> QED BY <2>1, <2>2
<1>3. LT!VTCMTiling(op, userTileSizes, budget)
        = IF tiles = <<>> THEN LT!Untouched(op) ELSE LT!Plan(LT!Tiled(op.ranges, tiles), <<>>, 0)
  BY DEF LT!VTCMTiling
<1> HIDE DEF tiles
<1>4. CASE tiles = <<>>
  BY <1>1, <1>3, <1>4, WholeCuts, CutsRunOnce DEF LT!Untouched
<1>5. CASE tiles # <<>>
  <2>1. Cuts(op.ranges, LT!Tiled(op.ranges, tiles))
    BY <1>1, <1>2, <1>5, TiledCuts
  <2> QED BY <1>1, <1>3, <1>5, <2>1, CutsRunOnce
<1> QED BY <1>4, <1>5

\* Of some numbers up to n, one is the least.
LEMMA LeastExists ==
    ASSUME NEW n \in Nat, NEW S \in SUBSET (1 .. n), S # {}
    PROVE  \E x \in S : \A y \in S : x <= y
<1> DEFINE T == {n + 1 - y : y \in S}
<1>1. T \in SUBSET (1 .. n) /\ T # {}
  OBVIOUS
<1> HIDE DEF T
<1>2. Max(T) \in T /\ \A z \in T : Max(T) >= z
  BY <1>1, GreatestExists
<1> PICK z : z = Max(T)
  OBVIOUS
<1> PICK x \in S : z = n + 1 - x
  BY <1>2 DEF T
<1>3. \A y \in S : n + 1 - y \in T
  BY DEF T
<1>4. \A y \in S : x <= y
  BY <1>2, <1>3
<1> QED BY <1>4

\* The loop that becomes threads is a parallel one, when a block that is asked
\* for is one of parallel iterations, and each thread runs some of its iterations.
LEMMA ThreadLoop ==
    ASSUME NEW op, IsOperation(op), NEW blockSize \in Nat, blockSize # 0 => 1 \notin op.red,
           NEW numThreads \in Nat \ {0}, NEW minPolytopeSize
    PROVE  LT!rewriteForTLP(op, blockSize, numThreads, minPolytopeSize)
             \in (LT!Parallel(op) \X (Nat \ {0})) \cup {<<>>}
<1> DEFINE loops == LT!ParallelLoops(op)
           I == {i \in 1 .. Len(loops) : Len(loops) = 1 \/ op.ranges[loops[i]] # 1}
           first == IF I # {} THEN LT!Min(I) ELSE 0
           thread == LT!rewriteForTLP(op, blockSize, numThreads, minPolytopeSize)
<1> PICK n \in Nat \ {0} : n = Len(op.ranges) /\ LT!Loops(op) = 1 .. n
  BY DEF IsOperation, LT!Loops
<1> SUFFICES thread \in (LT!Parallel(op) \X (Nat \ {0})) \cup {<<>>}
  OBVIOUS
<1>1. LT!Parallel(op) \in SUBSET (1 .. n) /\ \A d \in 1 .. n : op.ranges[d] \in Nat \ {0}
  <2>1. LT!Parallel(op) \in SUBSET (1 .. n)
    BY DEF LT!Parallel
  <2>2. op.ranges \in Seq(Nat \ {0})
    BY DEF IsOperation
  <2> HIDE DEF thread
  <2>3. \A d \in 1 .. n : op.ranges[d] \in Nat \ {0}
    BY <2>2
  <2> QED BY <2>1, <2>3
<1>2. loops \in Seq(LT!Parallel(op))
  <2> PICK weight : weight = [d \in 1 .. n |-> d]
    OBVIOUS
  <2>1. weight \in [1 .. n -> Nat]
    OBVIOUS
  <2>2. LT!InOrder(LT!Parallel(op), weight) \in Seq(LT!Parallel(op))
    BY <1>1, <2>1, OrderedLoops
  <2> QED BY <2>2 DEF LT!ParallelLoops
<1>3. thread = IF loops = <<>> THEN <<>>
               ELSE IF blockSize # 0 THEN <<1, blockSize>>
               ELSE IF ~LT!willThreadingBeUseful(op, minPolytopeSize) \/ first = 0 THEN <<>>
               ELSE <<loops[first], LT!computeThreadSize(op.ranges[loops[first]], numThreads)>>
  BY DEF LT!rewriteForTLP, LT!SelectInSeq
<1> HIDE DEF loops, thread
<1>4. first = 0 \/ first \in 1 .. Len(loops)
  <2> SUFFICES ASSUME I # {} PROVE LT!Min(I) \in I
    OBVIOUS
  <2> PICK m \in Nat : m = Len(loops)
    BY <1>2
  <2>1. I \in SUBSET (1 .. m)
    OBVIOUS
  <2> HIDE DEF I
  <2>2. \E x \in I : \A y \in I : x <= y
    BY <2>1, LeastExists
  <2> QED BY <2>2 DEF LT!Min
<1> HIDE DEF first
<1>5. CASE loops = <<>> \/ (blockSize = 0 /\ (~LT!willThreadingBeUseful(op, minPolytopeSize) \/ first = 0))
  BY <1>3, <1>5
<1>6. CASE loops # <<>> /\ blockSize # 0
  <2>1. 1 \in LT!Parallel(op) /\ blockSize \in Nat \ {0}
    BY <1>6 DEF LT!Parallel
  <2> QED BY <1>3, <1>6, <2>1
<1>7. CASE loops # <<>> /\ blockSize = 0 /\ LT!willThreadingBeUseful(op, minPolytopeSize) /\ first # 0
  <2> PICK d \in LT!Parallel(op) : d = loops[first]
    BY <1>2, <1>4, <1>7
  <2> PICK range \in Nat \ {0} : range = op.ranges[d]
    BY <1>1
  <2>1. LT!computeThreadSize(range, numThreads) \in Nat \ {0}
    <3>1. CASE range <= numThreads
      BY <3>1 DEF LT!computeThreadSize
    <3>2. CASE ~(range <= numThreads)
      <4> PICK x : x = range \div numThreads
        OBVIOUS
      <4>1. x \in Nat /\ range < x * numThreads + numThreads
        BY DivBounds
      <4>2. x # 0
        <5> SUFFICES ASSUME x = 0 PROVE FALSE
          OBVIOUS
        <5>1. range < 0 * numThreads + numThreads
          BY <4>1
        <5>2. 0 * numThreads = 0
          OBVIOUS
        <5> QED BY <3>2, <5>1, <5>2
      <4> QED BY <3>2, <4>1, <4>2 DEF LT!computeThreadSize
    <3> QED BY <3>1, <3>2
  <2> QED BY <1>3, <1>7, <2>1
<1> QED BY <1>5, <1>6, <1>7

\* FormVirtualThreadsPass.cpp: whichever loop becomes threads, and however many of
\* its iterations each thread runs, every iteration runs once and no two threads
\* write the same element.
THEOREM ThreadsRunOnce ==
    ASSUME NEW op, IsOperation(op), IndexesOutput(op), NEW blockSize \in Nat,
           blockSize # 0 => 1 \notin op.red, NEW numThreads \in Nat \ {0}, NEW minPolytopeSize
    PROVE  /\ LT!RunsOnce(op, LT!FormVirtualThreads(op, blockSize, numThreads, minPolytopeSize))
           /\ LT!ThreadsApart(op, LT!rewriteForTLP(op, blockSize, numThreads, minPolytopeSize))
<1> DEFINE thread == LT!rewriteForTLP(op, blockSize, numThreads, minPolytopeSize)
           tiles == [d \in LT!Loops(op) |-> IF d = thread[1] THEN thread[2] ELSE 0]
<1>1. LT!FormVirtualThreads(op, blockSize, numThreads, minPolytopeSize)
        = IF thread = <<>> THEN LT!Untouched(op) ELSE LT!Plan(LT!Tiled(op.ranges, tiles), <<>>, 0)
  BY DEF LT!FormVirtualThreads
<1>2. IsRanges(op.ranges) /\ LT!Loops(op) = DOMAIN op.ranges
  BY DEF IsOperation, IsRanges, LT!Loops
<1>3. thread \in (LT!Parallel(op) \X (Nat \ {0})) \cup {<<>>}
  BY ThreadLoop
<1> HIDE DEF thread
<1>4. CASE thread = <<>>
  <2>1. LT!RunsOnce(op, LT!Untouched(op))
    BY <1>2, WholeCuts, CutsRunOnce DEF LT!Untouched
  <2> QED BY <1>1, <1>4, <2>1 DEF LT!ThreadsApart, thread
<1>5. CASE thread # <<>>
  <2> PICK d \in LT!Parallel(op), size \in Nat \ {0} : thread = <<d, size>>
    BY <1>3, <1>5
  <2>1. tiles \in [DOMAIN op.ranges -> Nat]
    BY <1>2
  <2>2. Cuts(op.ranges, LT!Tiled(op.ranges, tiles))
    BY <1>2, <2>1, TiledCuts
  <2>3. LT!RunsOnce(op, LT!FormVirtualThreads(op, blockSize, numThreads, minPolytopeSize))
    BY <1>1, <1>2, <1>5, <2>2, CutsRunOnce
  <2>4. ASSUME NEW p \in LT!Points(op.ranges), NEW q \in LT!Points(op.ranges), p[d] \div size # q[d] \div size
        PROVE  LT!CellOf(op, p) # LT!CellOf(op, q)
    <3>1. p \in [LT!Loops(op) -> Nat] /\ q \in [LT!Loops(op) -> Nat]
      BY <1>2, PointsArePoints DEF IsPoint
    <3>2. p[d] # q[d]
      BY <2>4
    <3> QED BY <3>1, <3>2, CellsApart
  <2>5. LT!ThreadsApart(op, thread)
    BY <2>4 DEF LT!ThreadsApart
  <2> QED BY <2>3, <2>5 DEF thread
<1> QED BY <1>4, <1>5

\* A loop cut in two: the pieces of its first part and one piece for the rest.
LEMMA RestCuts ==
    ASSUME NEW ranges, IsRanges(ranges), NEW n \in DOMAIN ranges,
           NEW split \in Nat \ {0}, NEW rest \in Nat \ {0}, split + rest = ranges[n],
           NEW pieces, Cuts([ranges EXCEPT ![n] = split], pieces)
    PROVE  Cuts(ranges, pieces \cup {[offset |-> [d \in DOMAIN ranges |-> IF d = n THEN split ELSE 0],
                                      size |-> [ranges EXCEPT ![n] = rest]]})
<1> DEFINE front == [ranges EXCEPT ![n] = split]
           tail == [offset |-> [d \in DOMAIN ranges |-> IF d = n THEN split ELSE 0],
                    size |-> [ranges EXCEPT ![n] = rest]]
<1>1. \A d \in DOMAIN ranges : ranges[d] \in Nat \ {0}
  BY DEF IsRanges
<1>2. DOMAIN front = DOMAIN ranges /\ front[n] = split
      /\ \A d \in DOMAIN ranges : d # n => front[d] = ranges[d]
  BY DEF IsRanges
<1>3. \A d \in DOMAIN ranges :
          /\ tail.offset[d] = (IF d = n THEN split ELSE 0)
          /\ tail.size[d] = (IF d = n THEN rest ELSE ranges[d])
  BY DEF IsRanges
<1> HIDE DEF front, tail
<1>4. PieceInside(ranges, tail)
  BY <1>1, <1>3 DEF PieceInside
<1>5. \A piece \in pieces : PieceInside(front, piece)
  BY DEF Cuts, front
<1>6. \A d \in DOMAIN ranges : front[d] \in Nat /\ front[d] <= ranges[d]
  BY <1>1, <1>2
<1>7. \A piece \in pieces : PieceInside(ranges, piece)
  BY <1>1, <1>2, <1>5, <1>6 DEF PieceInside
<1>8. ASSUME NEW p, IsPoint(ranges, p)
      PROVE  \E piece \in pieces \cup {tail} :
                 LT!Holds(piece, p)
                 /\ \A other \in pieces \cup {tail} : LT!Holds(other, p) => other = piece
  <2>1. /\ DOMAIN p = DOMAIN ranges
        /\ \A d \in DOMAIN ranges : p[d] \in Nat /\ p[d] < ranges[d]
    BY <1>8 DEF IsPoint
  <2>2. CASE p[n] < split
    <3>1. IsPoint(front, p)
      BY <1>2, <1>8, <2>1, <2>2 DEF IsPoint
    <3>2. PICK piece \in pieces :
              LT!Holds(piece, p) /\ \A other \in pieces : LT!Holds(other, p) => other = piece
      BY <3>1 DEF Cuts, front
    <3>3. ~LT!Holds(tail, p)
      BY <1>3, <2>1, <2>2 DEF LT!Holds
    <3> QED BY <3>2, <3>3
  <2>3. CASE split <= p[n]
    <3>1. LT!Holds(tail, p)
      BY <1>1, <1>3, <2>1, <2>3 DEF LT!Holds
    <3>2. ASSUME NEW piece \in pieces
          PROVE  ~LT!Holds(piece, p)
      <4>1. /\ piece.offset[n] \in Nat /\ piece.size[n] \in Nat
            /\ piece.offset[n] + piece.size[n] <= split
        BY <1>2, <1>5 DEF PieceInside
      <4> QED BY <2>1, <2>3, <4>1 DEF LT!Holds
    <3> QED BY <3>1, <3>2
  <2> QED BY <2>1, <2>2, <2>3
<1>9. Cuts(ranges, pieces \cup {tail})
  BY <1>4, <1>7, <1>8 DEF Cuts
<1> QED BY <1>9 DEF tail

\* TilingPass.cpp: what does not divide may be padded to a vector; padding
\* belongs to no element when the innermost loop is a parallel one.
LEMMA PaddingRunsOnce ==
    ASSUME NEW op, IsOperation(op), IndexesOutput(op), NEW n \in LT!Loops(op),
           op.combiner = "addf" \/ n \notin op.red,
           NEW more \in Nat, op.ranges[n] <= more,
           NEW pieces, Cuts([op.ranges EXCEPT ![n] = more], pieces)
    PROVE  LT!RunsOnce(op, LT!Plan(pieces, <<>>, 0))
<1> PICK padded : padded = [op.ranges EXCEPT ![n] = more]
  OBVIOUS
<1>1. IsRanges(op.ranges) /\ LT!Loops(op) = DOMAIN op.ranges /\ \A d \in LT!Loops(op) : op.ranges[d] \in Nat \ {0}
  BY DEF IsOperation, IsRanges, LT!Loops
<1>2. /\ DOMAIN padded = LT!Loops(op) /\ padded[n] = more
      /\ \A d \in LT!Loops(op) : d # n => padded[d] = op.ranges[d]
  BY <1>1
<1>3. IsRanges(padded)
  <2>1. op.ranges \in Seq(Nat \ {0}) /\ more \in Nat \ {0}
    BY <1>1 DEF IsRanges
  <2> QED BY <1>1, <2>1 DEF IsRanges
<1>4. Cuts(padded, pieces)
  OBVIOUS
<1> PICK plan : plan = LT!Plan(pieces, <<>>, 0)
  OBVIOUS
<1>5. plan.pieces = pieces /\ plan.dims = <<>> /\ plan.inits = 0
  BY DEF LT!Plan
<1>6. LT!EachOnce(op, plan)
  <2>1. ASSUME NEW p \in LT!Points(op.ranges)
        PROVE  Cardinality({piece \in pieces : LT!Holds(piece, p)}) = 1
    <3>1. IsPoint(op.ranges, p)
      BY PointsArePoints
    <3>2. \A d \in LT!Loops(op) : p[d] \in Nat /\ p[d] < padded[d]
      BY <1>1, <1>2, <3>1 DEF IsPoint
    <3>3. IsPoint(padded, p)
      BY <1>1, <1>2, <3>1, <3>2 DEF IsPoint
    <3>4. PICK piece \in pieces :
              LT!Holds(piece, p) /\ \A other \in pieces : LT!Holds(other, p) => other = piece
      BY <1>4, <3>3 DEF Cuts
    <3>5. {other \in pieces : LT!Holds(other, p)} = {piece}
      BY <3>4
    <3> QED BY <3>5, FS_Singleton
  <2>2. \A T : LT!Cardinality(T) = Cardinality(T)
    BY DEF LT!Cardinality, Cardinality
  <2> QED BY <1>5, <2>1, <2>2 DEF LT!EachOnce
<1>7. LT!PaddedPoints(op, plan) = LT!Points(padded) \ LT!Points(op.ranges)
  <2> DEFINE reach == [d \in LT!Loops(op) |-> LT!Max({piece.offset[d] + piece.size[d] : piece \in plan.pieces})]
  <2>1. LT!PaddedPoints(op, plan)
          = LT!Points([d \in LT!Loops(op) |-> LT!Largest(reach[d], op.ranges[d])]) \ LT!Points(op.ranges)
    BY DEF LT!PaddedPoints
  <2>2. \A d \in LT!Loops(op) : reach[d] = padded[d]
    <3>1. \A d \in DOMAIN padded : LT!Max({piece.offset[d] + piece.size[d] : piece \in pieces}) = padded[d]
      BY <1>3, <1>4, CutsReachTheEnd
    <3> QED BY <1>2, <1>5, <3>1
  <2>3. \A d \in LT!Loops(op) : LT!Largest(padded[d], op.ranges[d]) = padded[d]
    BY <1>1, <1>2 DEF LT!Largest
  <2>4. padded = [d \in LT!Loops(op) |-> padded[d]]
    BY <1>1, <1>2
  <2> HIDE DEF reach
  <2>5. [d \in LT!Loops(op) |-> LT!Largest(reach[d], op.ranges[d])] = padded
    BY <2>2, <2>3, <2>4
  <2> QED BY <2>1, <2>5
<1>8. ASSUME NEW p \in LT!Points(padded) \ LT!Points(op.ranges), op.combiner # "addf", NEW q \in LT!Points(op.ranges)
      PROVE  LT!CellOf(op, p) # LT!CellOf(op, q)
  <2>1. /\ p \in [LT!Loops(op) -> Nat] /\ q \in [LT!Loops(op) -> Nat]
        /\ \A d \in LT!Loops(op) : p[d] < padded[d] /\ q[d] < op.ranges[d]
    BY <1>1, <1>2, PointsArePoints DEF IsPoint
  <2>2. n \in LT!Parallel(op)
    BY <1>8 DEF LT!Parallel
  <2>3. ~(p[n] < op.ranges[n])
    <3> SUFFICES ASSUME p[n] < op.ranges[n] PROVE FALSE
      OBVIOUS
    <3>1. \A d \in LT!Loops(op) : p[d] < op.ranges[d]
      BY <1>2, <2>1
    <3> PICK l \in Nat : l = Len(op.ranges) /\ DOMAIN op.ranges = 1 .. l
      BY <1>1 DEF IsRanges
    <3>2. op.ranges \in [1 .. l -> Nat] /\ p \in [1 .. l -> Nat]
      <4>1. op.ranges \in Seq(Nat \ {0})
        BY <1>1 DEF IsRanges
      <4>2. op.ranges = [d \in 1 .. l |-> op.ranges[d]]
        BY <4>1
      <4> QED BY <1>1, <2>1, <4>2
    <3>3. p \in LT!Points(op.ranges)
      BY <1>1, <3>1, <3>2, PointsOfShape
    <3> QED BY <3>3
  <2>4. p[n] # q[n]
    BY <2>1, <2>3
  <2>5. p \in [LT!Loops(op) -> Nat] /\ q \in [LT!Loops(op) -> Nat]
    BY ONLY <2>1
  <2>6. IsOperation(op) /\ IndexesOutput(op)
    OBVIOUS
  <2> QED BY ONLY <2>2, <2>4, <2>5, <2>6, CellsApart
<1> QED BY <1>5, <1>6, <1>7, <1>8 DEF LT!RunsOnce

\* TilingPass.cpp: an operation tiled by vectors of its innermost loop runs every
\* iteration once, whether what does not divide is cut off or padded.
LEMMA VectorTilingRunsOnce ==
    ASSUME NEW op, IsOperation(op), IndexesOutput(op), NEW splitTilingRange \in BOOLEAN,
           splitTilingRange \/ op.combiner = "addf" \/ LT!Innermost(op) \notin op.red
    PROVE  LT!RunsOnce(op, LT!tileLinalgOp(op, splitTilingRange))
<1>0. IsRanges(op.ranges) /\ op.ranges # <<>> /\ LT!computeDataTileSize(op) \in Nat \ {0}
  BY VectorHasElements DEF IsOperation, IsRanges
<1> USE <1>0
<1> PICK n \in Nat, tile \in Nat \ {0}, range \in Nat \ {0}, rest \in Nat :
        /\ n = LT!Innermost(op) /\ n \in DOMAIN op.ranges
        /\ tile = LT!computeDataTileSize(op) /\ range = op.ranges[n] /\ rest = range % tile
  <2>1. Len(op.ranges) \in DOMAIN op.ranges
    BY DEF IsRanges
  <2>2. op.ranges[Len(op.ranges)] \in Nat \ {0}
    BY <2>1 DEF IsRanges
  <2>3. op.ranges[Len(op.ranges)] % LT!computeDataTileSize(op) \in Nat
    BY <2>2
  <2> QED BY <2>1, <2>2, <2>3 DEF LT!Innermost, IsRanges
<1> DEFINE sizes == [d \in LT!Loops(op) |-> IF d = n THEN tile ELSE 1]
           Steps(r) == LT!Tiled([op.ranges EXCEPT ![n] = r], sizes)
           split == range - rest
           tail == [offset |-> [d \in LT!Loops(op) |-> IF d = n THEN split ELSE 0],
                    size |-> [op.ranges EXCEPT ![n] = rest]]
<1>1. \A r \in Nat \ {0} : Cuts([op.ranges EXCEPT ![n] = r], Steps(r))
  <2> SUFFICES ASSUME NEW r \in Nat \ {0}
               PROVE  Cuts([op.ranges EXCEPT ![n] = r], Steps(r))
    OBVIOUS
  <2> DEFINE ranges == [op.ranges EXCEPT ![n] = r]
  <2>1. IsRanges(ranges) /\ DOMAIN ranges = DOMAIN op.ranges
    BY DEF IsRanges
  <2>2. sizes \in [DOMAIN ranges -> Nat]
    BY <2>1 DEF LT!Loops
  <2> HIDE DEF ranges, sizes
  <2>3. Cuts(ranges, LT!Tiled(ranges, sizes))
    BY <2>1, <2>2, TiledCuts
  <2> QED BY <2>3 DEF ranges
<1>2. LT!Vectors(op, splitTilingRange)
        = IF rest = 0 THEN Steps(range)
          ELSE IF splitTilingRange THEN Steps(split) \cup {tail}
          ELSE Steps(split + tile)
  BY DEF LT!Vectors
<1> DEFINE small == range < tile \/ (range = tile /\ Len(op.ranges) = 1)
<1>3. LT!tileLinalgOp(op, splitTilingRange)
        = IF small THEN LT!Untouched(op) ELSE LT!Plan(LT!Vectors(op, splitTilingRange), <<>>, 0)
  BY DEF LT!tileLinalgOp
<1>4. CASE small
  BY <1>3, <1>4, WholeCuts, CutsRunOnce DEF LT!Untouched
<1>5. CASE ~small
  <2>1. CASE rest = 0
    <3>1. [op.ranges EXCEPT ![n] = range] = op.ranges
      <4>1. op.ranges \in Seq(Nat \ {0}) /\ range = op.ranges[n]
        BY DEF IsRanges
      <4>2. op.ranges = [d \in DOMAIN op.ranges |-> op.ranges[d]]
        BY ONLY <4>1
      <4> QED BY ONLY <4>1, <4>2
    <3>2. Cuts(op.ranges, Steps(range))
      BY <1>1, <3>1
    <3>3. LT!Vectors(op, splitTilingRange) = Steps(range)
      BY <1>2, <2>1
    <3> HIDE DEF Steps
    <3> QED BY <1>3, <1>5, <3>2, <3>3, CutsRunOnce
  <2>2. CASE rest # 0 /\ splitTilingRange
    <3>1. splitTilingRange
      BY <2>2
    <3>2. rest < tile /\ tile <= range
      BY <1>5
    <3>3. split \in Nat \ {0} /\ split + rest = range /\ rest \in Nat \ {0}
      <4>1. rest < range
        BY <3>2
      <4> HIDE DEF small
      <4> QED BY <2>2, <4>1
    <3>4. LT!Vectors(op, splitTilingRange) = Steps(split) \cup {tail}
      BY <1>2, <2>2, <3>1
    <3>5. Cuts([op.ranges EXCEPT ![n] = split], Steps(split))
      BY <1>1, <3>3
    <3> PICK front, pieces : front = split /\ pieces = Steps(split)
      OBVIOUS
    <3>6. tail = [offset |-> [d \in DOMAIN op.ranges |-> IF d = n THEN front ELSE 0],
                  size |-> [op.ranges EXCEPT ![n] = rest]]
      BY DEF LT!Loops
    <3> HIDE DEF Steps, split, tail
    <3>7. Cuts(op.ranges, pieces \cup {tail})
      <4> PICK ranges : ranges = op.ranges
        OBVIOUS
      <4>1. front \in Nat \ {0} /\ rest \in Nat \ {0} /\ front + rest = ranges[n]
        BY <3>3
      <4>2. Cuts([ranges EXCEPT ![n] = front], pieces)
        BY <3>5
      <4>3. IsRanges(ranges) /\ n \in DOMAIN ranges
        OBVIOUS
      <4>4. Cuts(ranges, pieces \cup
                 {[offset |-> [d \in DOMAIN ranges |-> IF d = n THEN front ELSE 0],
                   size |-> [ranges EXCEPT ![n] = rest]]})
        BY ONLY <4>1, <4>2, <4>3, RestCuts
      <4> QED BY <3>6, <4>4
    <3> QED BY <1>3, <1>5, <3>4, <3>7, CutsRunOnce
  <2>3. CASE rest # 0 /\ ~splitTilingRange
    <3> PICK more \in Nat \ {0} : more = split + tile /\ range <= more
      <4>1. rest < tile /\ tile <= range /\ rest <= range
        BY <1>5
      <4>2. range - rest + tile \in Nat \ {0} /\ range <= range - rest + tile
        BY <4>1
      <4> QED BY <4>2
    <3>1. Cuts([op.ranges EXCEPT ![n] = more], Steps(more))
      BY <1>1
    <3>2. LT!Vectors(op, splitTilingRange) = Steps(more)
      BY <1>2, <2>3
    <3> PICK pieces : pieces = Steps(more)
      OBVIOUS
    <3>3. LT!RunsOnce(op, LT!Plan(pieces, <<>>, 0))
      <4>1. op.combiner = "addf" \/ n \notin op.red
        BY <2>3
      <4>2. n \in LT!Loops(op) /\ op.ranges[n] <= more /\ more \in Nat
        BY DEF LT!Loops
      <4>3. Cuts([op.ranges EXCEPT ![n] = more], pieces)
        BY <3>1
      <4>4. IsOperation(op) /\ IndexesOutput(op)
        OBVIOUS
      <4> QED BY ONLY <4>1, <4>2, <4>3, <4>4, PaddingRunsOnce
    <3> HIDE DEF Steps
    <3> QED BY <1>3, <1>5, <3>2, <3>3
  <2> QED BY <2>1, <2>2, <2>3
<1> QED BY <1>4, <1>5

\* SplitReductionUtils.cpp: a reduction over the innermost loop that is split in
\* lanes adds every iteration once.
LEMMA SplitReductionRunsOnce ==
    ASSUME NEW op, IsOperation(op), IndexesOutput(op), op.red = {LT!Innermost(op)}
    PROVE  LT!RunsOnce(op, LT!SplitReductionLinalgOp(op))
<1> PICK n \in Nat \ {0}, tile \in Nat \ {0} :
        n = LT!Innermost(op) /\ LT!Loops(op) = 1 .. n /\ tile = LT!computeDataTileSize(op)
  <2>1. op.ranges \in Seq(Nat \ {0}) /\ op.ranges # <<>>
    BY DEF IsOperation
  <2> QED BY <2>1, VectorHasElements DEF LT!Innermost, LT!Loops
<1>1. IsRanges(op.ranges) /\ DOMAIN op.ranges = 1 .. n /\ n \in LT!Loops(op) /\ op.red = {n}
  BY DEF IsOperation, IsRanges, LT!Loops
<1> PICK tiles : tiles = [d \in LT!Loops(op) |-> IF d = n THEN tile ELSE 0]
  OBVIOUS
<1>2. tiles \in [1 .. n -> Nat] /\ \A d \in 1 .. n : tiles[d] # 0 <=> d = n
  OBVIOUS
<1>3. LT!getUserTileSizesAndNumThreads(op, tiles) = tiles
  <2>1. tiles \in Seq(Nat) /\ Len(tiles) = n
    BY <1>2
  <2>2. LT!getUserTileSizesAndNumThreads(op, tiles) = [d \in 1 .. n |-> tiles[d]]
    BY <2>1 DEF LT!getUserTileSizesAndNumThreads
  <2> QED BY <1>2, <2>2
<1>4. LT!checkTileSizes(op, tiles)
  BY <1>1, <1>2 DEF LT!checkTileSizes
<1>5. LT!getSanitizedReductionDims(op, tiles) = <<n>>
  <2> PICK weight : weight = [d \in 1 .. n |-> d]
    OBVIOUS
  <2>1. {d \in op.red : tiles[d] # 0} = {n}
    BY <1>1, <1>2
  <2>2. LT!getSanitizedReductionDims(op, tiles) = LT!InOrder({n}, weight)
    BY <2>1 DEF LT!getSanitizedReductionDims
  <2>3. {n} \in SUBSET (1 .. n) /\ weight \in [1 .. n -> Nat]
    OBVIOUS
  <2>4. LT!InOrder({n}, weight) \in Seq({n}) /\ Len(LT!InOrder({n}, weight)) = Cardinality({n})
    BY <2>3, OrderedLoops
  <2> PICK dims : dims = LT!InOrder({n}, weight)
    OBVIOUS
  <2>5. dims \in Seq({n}) /\ Len(dims) = 1
    BY <2>4, FS_Singleton
  <2>6. dims = <<n>>
    BY ONLY <2>5
  <2> QED BY <2>2, <2>6
<1> PICK pieces : pieces = LT!Tiled(op.ranges, tiles)
  OBVIOUS
<1>6. LT!SplitReductionLinalgOp(op) = LT!Plan(pieces, <<n>>, 0)
  BY <1>3, <1>4, <1>5 DEF LT!SplitReductionLinalgOp, LT!TileReductionLoop
<1>7. Cuts(op.ranges, pieces)
  BY <1>1, <1>2, TiledCuts
<1>8. LT!EachOnce(op, LT!Plan(pieces, <<n>>, 0))
  <2>1. IsOperation(op) /\ IndexesOutput(op)
    OBVIOUS
  <2> QED BY ONLY <1>1, <1>7, <2>1, LanesRunOnce
<1>9. LT!PaddedPoints(op, LT!Plan(pieces, <<n>>, 0)) = {}
  BY <1>1, <1>7, CutsReachNoPadding
<1>10. LT!Plan(pieces, <<n>>, 0).inits = 0
  BY DEF LT!Plan
<1> QED BY <1>6, <1>8, <1>9, <1>10 DEF LT!RunsOnce

\* TilingPass.cpp: however an operation is tiled, every iteration runs once.  A
\* reduction is split when the innermost loop is its only one, and the
\* innermost loop is padded when it is parallel or the body adds.
THEOREM TilingRunsOnce ==
    ASSUME NEW op, IsOperation(op), IndexesOutput(op),
           NEW enableSplitReduction \in BOOLEAN, NEW splitTilingRange \in BOOLEAN,
           LT!SplitsReduction(op, enableSplitReduction) => op.red = {LT!Innermost(op)},
           splitTilingRange \/ op.combiner = "addf" \/ LT!Innermost(op) \notin op.red
    PROVE  LT!RunsOnce(op, LT!HexagonTiling(op, enableSplitReduction, splitTilingRange))
BY SplitReductionRunsOnce, VectorTilingRunsOnce DEF LT!HexagonTiling

\* SplitReduceGenericPass.cpp: a reduction that becomes one of vectors adds
\* every iteration once, and a constant it starts from once, unless the body
\* adds.
THEOREM SplitReduceRunsOnce ==
    ASSUME NEW op, IsOperation(op), IndexesOutput(op), op.init = "constant" => op.combiner # "addf"
    PROVE  LT!RunsOnce(op, LT!SplitReduceGeneric(op))
<1> DEFINE lanes == LT!computeDataTileSize(op)
           splits == Len(op.ranges) = 1 /\ op.red = {1} /\ op.ranges[1] % lanes = 0
<1>1. IsRanges(op.ranges) /\ lanes \in Nat \ {0}
  BY VectorHasElements DEF IsOperation, IsRanges
<1>2. CASE ~splits
  <2>1. LT!SplitReduceGeneric(op) = LT!Untouched(op)
    BY <1>2 DEF LT!SplitReduceGeneric
  <2> QED BY <1>1, <2>1, WholeCuts, CutsRunOnce DEF LT!Untouched
<1>3. CASE splits
  <2> PICK tile \in Nat \ {0} : tile = lanes
    BY <1>1
  <2> PICK tiles, inits : tiles = <<tile>> /\ inits = IF op.init = "constant" THEN tile ELSE 0
    OBVIOUS
  <2> PICK pieces : pieces = LT!Tiled(op.ranges, tiles)
    OBVIOUS
  <2>1. LT!SplitReduceGeneric(op) = LT!Plan(pieces, <<1>>, inits)
    BY <1>3 DEF LT!SplitReduceGeneric
  <2>2. DOMAIN op.ranges = 1 .. 1 /\ 1 \in LT!Loops(op) /\ op.red = {1}
    BY <1>1, <1>3 DEF IsRanges, LT!Loops
  <2>3. tiles \in [DOMAIN op.ranges -> Nat]
    <3>1. tiles = [d \in 1 .. 1 |-> tile]
      OBVIOUS
    <3> QED BY <2>2, <3>1
  <2>4. Cuts(op.ranges, pieces)
    BY <1>1, <2>3, TiledCuts
  <2>5. LT!EachOnce(op, LT!Plan(pieces, <<1>>, inits))
    <3>1. IsOperation(op) /\ IndexesOutput(op)
      OBVIOUS
    <3> QED BY ONLY <2>2, <2>4, <3>1, LanesRunOnce
  <2>6. LT!PaddedPoints(op, LT!Plan(pieces, <<1>>, inits)) = {}
    BY <1>1, <2>4, CutsReachNoPadding
  <2>7. LT!Plan(pieces, <<1>>, inits).inits = inits
    BY DEF LT!Plan
  <2>8. inits = 0 \/ op.combiner # "addf"
    OBVIOUS
  <2> QED BY <2>1, <2>5, <2>6, <2>7, <2>8 DEF LT!RunsOnce
<1> QED BY <1>2, <1>3
=============================================================================
