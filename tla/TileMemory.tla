----------------------------- MODULE TileMemory -----------------------------
(***************************************************************************)
(* Caching of the memrefs a tiled loop touches                               *)
(* (AffineToLLVM/AffineTileMemoryPass.cpp): which memrefs are cached, tiled    *)
(* or in full, and the copies around the body of a tile.                      *)
(***************************************************************************)
EXTENDS Integers, Sequences, FiniteSets, SequencesExt

-----------------------------------------------------------------------------
\* What to cache.  A memref is a record: accesses (for each, the trip counts of
\* the loops below the band), elements of its tile (dim) and
\* of the whole (full), shift of the tile per innermost iteration, element
\* size, whether some use disqualifies it, and the memrefs it may alias.

Memref ==
    [accesses : Seq(Seq(Nat)), dim : Nat \ {0}, full : Nat \ {0}, shift : Int, elt : Nat \ {0},
     escapes : BOOLEAN, object : Nat]

Total(s) == FoldLeft(LAMBDA a, b : a + b, 0, s)
Product(s) == FoldLeft(LAMBDA a, b : a * b, 1, s)

\* An access inside further loops counts once per iteration of these loops; a
\* trip count that is not a constant counts as 4.
Reuse(accesses) ==
    LET Trips(loops) == Product([k \in DOMAIN loops |-> IF loops[k] = 0 THEN 4 ELSE loops[k]])
    IN  Total([k \in DOMAIN accesses |-> Trips(accesses[k])])

tileSize(m) == m.elt * m.dim
fullSize(m) == m.elt * m.full

\* Only dereferenced, and aliased by no other memref of the loop.
Valid(ms, i) ==
    /\ ~ms[i].escapes
    /\ \A j \in DOMAIN ms : j # i => ms[i].object # ms[j].object

\* Bytes that a tile does not share with the tile before it.
freshDataBytes(m) ==
    LET overlap == m.dim - (IF m.shift < 0 THEN -m.shift ELSE m.shift)
    IN  tileSize(m) - m.elt * Max({0, overlap})

\* What can be cached in the order of a comparison; equals stay in their order.
Sorted(ms, Before(_, _)) ==
    LET valid == {i \in DOMAIN ms : Valid(ms, i)}
        Earlier(i) == {j \in valid : Before(ms[j], ms[i]) \/ (~Before(ms[i], ms[j]) /\ j < i)}
    IN  [k \in 1 .. Cardinality(valid) |-> CHOOSE i \in valid : Cardinality(Earlier(i)) = k - 1]

ByReuse(a, b) == Reuse(a.accesses) * tileSize(b) > Reuse(b.accesses) * tileSize(a)

\* A tile of one element divides by zero and goes first; the others divide by
\* the same wrapped number.
BySortKey(a, b) ==
    IF a.dim = 1 \/ b.dim = 1 THEN a.dim = 1 /\ b.dim # 1
    ELSE freshDataBytes(a) > freshDataBytes(b)

\* Greedily fit by decreasing reuse per byte.  A tile larger than its memref is
\* counted as the memref; the elements of its cache (tileDims) stay the tile's.
Fit(ms, cache, st, i) ==
    LET bytes == Min({tileSize(ms[i]), fullSize(ms[i])})
    IN  IF bytes <= cache - st.used
        THEN [st EXCEPT !.used = @ + bytes,
                        !.state[i] = IF bytes >= fullSize(ms[i]) THEN "Full" ELSE "Tiled"]
        ELSE st

\* Promote tiles to the full memref while the extra bytes fit.
Promote(ms, cache, st, i) ==
    LET extra == fullSize(ms[i]) - tileSize(ms[i])
    IN  IF st.state[i] = "Tiled" /\ extra <= cache - st.used
        THEN [used |-> st.used + extra,
              state |-> [st.state EXCEPT ![i] = "Full"],
              tileDims |-> [st.tileDims EXCEPT ![i] = ms[i].full]]
        ELSE st

Cached(ms, cache) ==
    LET none == [used |-> 0, state |-> [i \in DOMAIN ms |-> "NotCached"],
                 tileDims |-> [i \in DOMAIN ms |-> ms[i].dim]]
        fitted == FoldLeft(LAMBDA st, i : Fit(ms, cache, st, i), none, Sorted(ms, ByReuse))
    IN  FoldLeft(LAMBDA st, i : Promote(ms, cache, st, i), fitted, Sorted(ms, BySortKey))

\* The bytes of the cache that is allocated for a memref, and whether the copies
\* of a whole memref are between two buffers of its size.
Allocated(ms, st, i) == IF st.state[i] = "NotCached" THEN 0 ELSE ms[i].elt * st.tileDims[i]
SameSize(ms, st, i) == st.state[i] = "Full" => st.tileDims[i] = ms[i].full

-----------------------------------------------------------------------------
\* The copies.  A tiled access ta is a record: n, the sizes of the memref; dim,
\* the sizes of its tile; lbs, per dimension the coefficients of the loops of
\* the band and the constant; div, the divisors; steps and trips of the band;
\* write.

Band(ta) == Len(ta.steps)
Rank(ta) == Len(ta.n)

Tiles(ta) ==
    SetToSortSeq({v \in [1 .. Band(ta) -> 0 .. 6] :
                    \A k \in 1 .. Band(ta) : v[k] % ta.steps[k] = 0 /\ v[k] < ta.trips[k]},
                 LAMBDA a, b : \E k \in DOMAIN a : a[k] < b[k] /\ \A l \in 1 .. k - 1 : a[l] = b[l])

Linear(row, v) == FoldLeft(LAMBDA s, k : s + row[k] * v[k], 0, [k \in 1 .. Len(v) |-> k])
LowerBound(ta, v, i) == (Linear(ta.lbs[i], v) + ta.lbs[i][Band(ta) + 1]) \div ta.div[i]

Window(ta, v) ==
    {x \in [1 .. Rank(ta) -> 0 .. Max(ToSet(ta.n)) - 1] :
        \A i \in 1 .. Rank(ta) : /\ x[i] < ta.n[i]
                                 /\ LowerBound(ta, v, i) <= x[i]
                                 /\ x[i] < LowerBound(ta, v, i) + ta.dim[i]}

\* The remap of an access: the operands are the band and then the indices;
\* coefficients from position Rank on are cleared.
Remap(ta, v, x) ==
    LET Coeff(i, k) == IF k <= Rank(ta) /\ k <= Band(ta) + 1 THEN ta.lbs[i][k] ELSE 0
        Lb(i) == Linear([k \in 1 .. Band(ta) + Rank(ta) |-> Coeff(i, k)], v \o x)
                    + ta.lbs[i][Band(ta) + 1]
    IN  [i \in 1 .. Rank(ta) |-> x[i] - Lb(i) \div ta.div[i]]

\* Mutant: a window that ends after the memref is not cut.
CopySizeUncut(ta, i, offset, cachedOffset) == ta.dim[i] - cachedOffset

\* Cut to what is left of the dimension when some tile ends after it.
CopySize(ta, i, offset, cachedOffset) ==
    LET ends == {LowerBound(ta, w, i) + ta.dim[i] : w \in ToSet(Tiles(ta))}
        size == ta.dim[i] - cachedOffset
    IN  IF Max(ends) > ta.n[i] THEN Min({size, ta.n[i] - offset}) ELSE size

\* The subviews of the memref and of the cache, one record per dimension.
Subview(ta, v, i) ==
    LET negative == \E w \in ToSet(Tiles(ta)) : LowerBound(ta, w, i) < 0
        At(offset, cachedOffset) ==
            [offset |-> offset, cachedOffset |-> cachedOffset, size |-> CopySize(ta, i, offset, cachedOffset)]
        Clamped(offset) == At(offset, offset - 0)
        From(sum) == IF negative THEN Clamped(Max({0, sum})) ELSE At(sum, 0)
    IN  From(Linear(ta.lbs[i], v) + ta.lbs[i][Band(ta) + 1])

\* Pairs of elements the copies move, of the memref and of the cache.
Moved(ta, v) ==
    LET Box(sub) == {k \in [1 .. Rank(ta) -> 0 .. Max(ToSet(ta.dim))] :
                       \A i \in 1 .. Rank(ta) : k[i] < sub[i].size}
        Pairs(sub) == {<<[i \in 1 .. Rank(ta) |-> sub[i].offset + k[i]],
                         [i \in 1 .. Rank(ta) |-> sub[i].cachedOffset + k[i]]>> : k \in Box(sub)}
    IN  Pairs([i \in 1 .. Rank(ta) |-> Subview(ta, v, i)])

-----------------------------------------------------------------------------
\* One tile of the cached loop: copy in, the body on the cache, copy out.  An
\* element holds the tile that wrote it last, or where it is at the start.

\* f after the pairs <<from, to>> were copied to it from g.
Overwritten(f, pairs, g) ==
    [y \in DOMAIN f |->
        LET From == {p[1] : p \in {p \in pairs : p[2] = y}} \cap DOMAIN g
        IN  IF From = {} THEN f[y] ELSE g[CHOOSE x \in From : TRUE]]

CopyIn(cache, moved, mem) == Overwritten(cache, moved, mem)
CopyOut(ta, mem, moved, cache) ==
    IF ta.write THEN Overwritten(mem, {<<p[2], p[1]>> : p \in moved}, cache) ELSE mem

\* The body on a cache that holds loaded: window is what it accesses.
CachedBody(ta, st, v, moved, window, loaded) ==
    LET Remapped(x) == Remap(ta, v, x)
        Load(c) == IF c \in DOMAIN loaded THEN loaded[c] ELSE <<>>
        Stored(touched) == [c \in DOMAIN loaded |-> IF ta.write /\ c \in touched THEN v ELSE loaded[c]]
        Done(touched, after) ==
            [mem |-> CopyOut(ta, st.mem, moved, after),
             cache |-> after,
             read |-> Append(st.read, [x \in window |-> Load(Remapped(x))]),
             inside |-> /\ st.inside
                        /\ touched \subseteq DOMAIN st.cache
                        /\ \A p \in moved : p[1] \in DOMAIN st.mem /\ p[2] \in DOMAIN st.cache]
        Body(touched) == Done(touched, Stored(touched))
    IN  Body({Remapped(x) : x \in window})

CachedTile(ta, st, v) ==
    LET Run(moved) == CachedBody(ta, st, v, moved, Window(ta, v), CopyIn(st.cache, moved, st.mem))
    IN  Run(Moved(ta, v))

\* The same tile without the cache.
PlainTile(ta, st, v) ==
    LET window == Window(ta, v)
    IN  [st EXCEPT !.mem = [x \in DOMAIN st.mem |-> IF ta.write /\ x \in window THEN v ELSE st.mem[x]],
                   !.read = Append(@, [x \in window |-> st.mem[x]])]

Start(ta) ==
    LET Cells(n) == {x \in [1 .. Rank(ta) -> 0 .. Max(ToSet(n)) - 1] : \A i \in DOMAIN n : x[i] < n[i]}
    IN  [mem |-> [x \in Cells(ta.n) |-> [i \in 1 .. Rank(ta) |-> -1 - x[i]]],
         cache |-> [x \in Cells(ta.dim) |-> <<>>],
         read |-> <<>>, inside |-> TRUE]

-----------------------------------------------------------------------------
\* The caches of a loop that can be copied fit together.
CachesFit(ms, cache) ==
    LET Held(st) == Total([i \in DOMAIN ms |-> IF SameSize(ms, st, i) THEN Allocated(ms, st, i) ELSE 0])
    IN  Held(Cached(ms, cache)) <= cache

\* The cached loop stays inside the memref and the cache, reads what the plain
\* loop reads, and leaves the same memref.
CachingPreservesResult(ta) ==
    LET Same(c, p) == c.inside /\ c.mem = p.mem /\ c.read = p.read
    IN  Same(FoldLeft(LAMBDA st, v : CachedTile(ta, st, v), Start(ta), Tiles(ta)),
             FoldLeft(LAMBDA st, v : PlainTile(ta, st, v), Start(ta), Tiles(ta)))

=============================================================================
