---------------------------- MODULE AffineTiling ----------------------------
(***************************************************************************)
(* Tile sizes of a band of perfectly nested loops                            *)
(* (AffineToLLVM/AffineTilingPass.cpp).  Footprints are in bytes and come     *)
(* from the memref regions; a trip count is 0 when it is not a constant.      *)
(***************************************************************************)
EXTENDS Integers, Sequences, FiniteSets, SequencesExt

defaultTileSize == 32

PowerOf2(n) == Max({e \in 0 .. 6 : n % (2 ^ e) = 0})
Log2(n) == Max({e \in 0 .. 6 : 2 ^ e <= n})

\* Candidates r * 2^e of a trip count, with r stepping down by two.  A count
\* above the tile size starts at the even number at or below the tile size.
DivisorCandidates(count, size) ==
    LET odd == count \div (2 ^ PowerOf2(count))
        start == IF odd > size THEN size - (size % 2) ELSE odd
        Shifted(r) == r * 2 ^ Min({PowerOf2(count), Log2(size \div r)})
    IN  {Shifted(r) : r \in {r \in 1 .. start : (start - r) % 2 = 0}}

\* Mutant: a candidate need not divide the trip count.
adjustToDivisorAny(count, size) ==
    Max({1} \cup {c \in DivisorCandidates(count, size) : c <= size})

\* adjustToDivisorsOfTripCounts, for one loop.
adjustToDivisor(count, size) ==
    IF count = 0 THEN size
    ELSE Max({1} \cup {c \in 1 .. size : c \in DivisorCandidates(count, size) /\ count % c = 0})

Product(s) == FoldLeft(LAMBDA a, b : a * b, 1, s)
Power(t, n) == Product([i \in 1 .. n |-> t])

\* n-th root of the quotient of cache and footprint, rounded down.
Root(n, cache, footprint) == Max({t \in 0 .. cache : footprint * Power(t, n) <= cache})

\* Mutant: the last loop gets the balance without regard to the others.
BalancedSizesFull(n, cache, inner) ==
    [i \in 1 .. n |-> IF i < n THEN Root(n, cache, inner) ELSE Max({1, cache \div inner})]

\* Equal sizes, and the last loop covers the balance.
BalancedSizes(n, cache, inner) ==
    LET size == Root(n, cache, inner)
    IN  [i \in 1 .. n |->
            IF i < n THEN size ELSE Max({1, cache \div (inner * Power(size, n - 1))})]

\* getTileSizes: inner and total are the footprints, 0 when unknown.
getTileSizes(counts, cache, inner, total) ==
    LET n == Len(counts)
        Adjusted(sizes) == [i \in 1 .. n |-> adjustToDivisor(counts[i], sizes[i])]
    IN  CASE cache = 0 -> [i \in 1 .. n |-> 1]
          [] cache # 0 /\ inner = 0 -> Adjusted([i \in 1 .. n |-> defaultTileSize])
          [] cache # 0 /\ inner # 0 /\ total # 0 /\ total <= cache -> [i \in 1 .. n |-> 1]
          [] OTHER -> Adjusted(BalancedSizes(n, cache, inner))

-----------------------------------------------------------------------------
\* When the body fits the cache so does a tile, and no tile is partial.
TilesFit(counts, cache, inner, total) ==
    LET sizes == getTileSizes(counts, cache, inner, total)
    IN  /\ (0 < inner /\ inner <= cache) => inner * Product(sizes) <= cache
        /\ \A i \in DOMAIN counts : sizes[i] >= 1 /\ counts[i] % sizes[i] = 0

=============================================================================
