------------------------- MODULE BufferManagerProofs -------------------------
(***************************************************************************)
(* Proofs about the VTCM pool, for every pool size, every pair of           *)
(* alignments and every set of request sizes, and about the buffers of the  *)
(* C API, for every set of clients, of heap addresses and of buffer shapes:  *)
(* the map of the session and the lists of the pool never come apart.       *)
(***************************************************************************)
EXTENDS BufferManager, VectorLemmas

(***************************************************************************)
(* The pool.                                                                *)
(***************************************************************************)

\* A size rounded up to a granule is not below it.
LEMMA RoundUpBounds ==
    ASSUME NEW n \in Nat, NEW a \in Nat \ {0}
    PROVE  RoundUp(n, a) \in Nat /\ RoundUp(n, a) >= n
<1>1. n + (a - 1) \in Nat
  OBVIOUS
<1>2. /\ (n + (a - 1)) \div a \in Nat
      /\ n + (a - 1) < ((n + (a - 1)) \div a) * a + a
  BY <1>1, DivBounds
<1> QED BY <1>2 DEF RoundUp

\* The rounded size of a request is not below it.
LEMMA AlignSizeBounds ==
    ASSUME NEW n \in Nat
    PROVE  alignSize(n) \in Nat /\ alignSize(n) >= n
  BY RoundUpBounds, PoolAssumption DEF alignSize

(***************************************************************************)
(* The part of the invariant about the two lists, for any live set A and    *)
(* free list s.                                                             *)
(***************************************************************************)
LiveApart(A) ==
    /\ \A a \in A : InPool(a)
    /\ \A a, b \in A : a # b => Disjoint(a, b)

Ordered(s) ==
    /\ \A i \in 1 .. Len(s) : InPool(s[i])
    /\ \A i, j \in 1 .. Len(s) : i < j => EndOf(s[i]) < s[j].first

LiveNotFree(A, s) == \A a \in A, i \in 1 .. Len(s) : Disjoint(a, s[i])

Covered(A, s) ==
    \A x \in 0 .. vtcmAllocatedSize - 1 :
        \/ \E a \in A : Holds(a, x)
        \/ \E i \in 1 .. Len(s) : Holds(s[i], x)

Layout(A, s) == LiveApart(A) /\ Ordered(s) /\ LiveNotFree(A, s) /\ Covered(A, s)

\* The entries of a block are natural numbers.
LEMMA BlockFields ==
    ASSUME NEW b \in Block
    PROVE  b.first \in Nat /\ b.second \in Nat
  BY DEF Block

\* The size of the pool is a natural number.
LEMMA SizeNat == vtcmAllocatedSize \in Nat
  BY PoolAssumption

\* A block within another is disjoint from what the other is disjoint from.
LEMMA WithinDisjoint ==
    ASSUME NEW a \in Block, NEW b \in Block, NEW c \in Block,
           b.first <= a.first, EndOf(a) <= EndOf(b), Disjoint(c, b)
    PROVE  Disjoint(c, a) /\ Disjoint(a, c)
  BY BlockFields DEF EndOf, Disjoint

\* The end of a block stays below the start of the next one when the first
\* shrinks at its end and the second at its start.
LEMMA StillBelow ==
    ASSUME NEW e \in Int, NEW e1 \in Int, NEW p \in Int, NEW p1 \in Int,
           e1 <= e, e < p, p <= p1
    PROVE  e1 < p1
  OBVIOUS

\* The parts of a block that is cut in two lie within it, apart.
LEMMA CutParts ==
    ASSUME NEW whole \in Block, NEW a \in Block, NEW b \in Block,
           a.second + b.second = whole.second,
           \/ a.first = whole.first /\ b.first = EndOf(a)
           \/ b.first = whole.first /\ a.first = EndOf(b)
    PROVE  /\ whole.first <= a.first /\ EndOf(a) <= EndOf(whole)
           /\ whole.first <= b.first /\ EndOf(b) <= EndOf(whole)
           /\ Disjoint(a, b)
  BY BlockFields DEF EndOf, Disjoint

\* A part of a block of the pool that is not empty is a block of the pool.
LEMMA PartInPool ==
    ASSUME NEW whole \in Block, NEW p \in Block, InPool(whole),
           p.second > 0, EndOf(p) <= EndOf(whole)
    PROVE  InPool(p)
  BY BlockFields, SizeNat DEF EndOf, InPool

\* An address in a block that is cut in two lies in one of the parts.
LEMMA CutHolds ==
    ASSUME NEW whole \in Block, NEW a \in Block, NEW b \in Block, NEW x \in Nat,
           a.second + b.second = whole.second,
           \/ a.first = whole.first /\ b.first = EndOf(a)
           \/ b.first = whole.first /\ a.first = EndOf(b),
           Holds(whole, x)
    PROVE  Holds(a, x) \/ (Holds(b, x) /\ b.second # 0)
  BY BlockFields DEF Holds, EndOf

\* Free list t is free list s with entry i replaced by b, or erased when b is
\* empty.
CutTo(t, s, i, b) ==
    /\ b.second = 0 =>
          /\ Len(t) = Len(s) - 1
          /\ \A j \in 1 .. Len(t) : t[j] = IF j < i THEN s[j] ELSE s[j + 1]
    /\ b.second # 0 =>
          /\ Len(t) = Len(s)
          /\ \A j \in 1 .. Len(t) : t[j] = IF j = i THEN b ELSE s[j]

\* Replacing entry i of a good free list by block b, or erasing it when b is
\* empty, and making the other end of the entry live keeps the lists good.
LEMMA CarveKeepsLayout ==
    ASSUME NEW A \in SUBSET Block, NEW s \in Seq(Block), Layout(A, s),
           NEW i \in 1 .. Len(s), NEW a \in Block, NEW b \in Block,
           a.second > 0,
           a.second + b.second = s[i].second,
           \/ a.first = s[i].first /\ b.first = EndOf(a)
           \/ b.first = s[i].first /\ a.first = EndOf(b),
           NEW t \in Seq(Block), CutTo(t, s, i, b)
    PROVE  Layout(A \cup {a}, t)
<1> /\ b.second = 0 =>
          /\ Len(t) = Len(s) - 1
          /\ \A j \in 1 .. Len(t) : t[j] = IF j < i THEN s[j] ELSE s[j + 1]
    /\ b.second # 0 =>
          /\ Len(t) = Len(s)
          /\ \A j \in 1 .. Len(t) : t[j] = IF j = i THEN b ELSE s[j]
  BY DEF CutTo
<1>0. Len(s) \in Nat /\ Len(t) \in Nat
  OBVIOUS
<1>1. \A j \in 1 .. Len(s) : /\ s[j] \in Block /\ InPool(s[j])
                             /\ s[j].first \in Nat /\ s[j].second \in Nat
  BY BlockFields DEF Layout, Ordered
<1>2. /\ a.first \in Nat /\ a.second \in Nat /\ b.first \in Nat /\ b.second \in Nat
  BY BlockFields
<1>3. \A c \in A : c.first \in Nat /\ c.second \in Nat /\ InPool(c)
  BY BlockFields DEF Layout, LiveApart
<1>i. /\ s[i].first \in Nat /\ s[i].second \in Nat
      /\ EndOf(s[i]) <= vtcmAllocatedSize
  BY <1>1 DEF InPool
\* Both parts lie within the entry that was cut.
<1>4. /\ s[i].first <= a.first /\ EndOf(a) <= EndOf(s[i])
      /\ s[i].first <= b.first /\ EndOf(b) <= EndOf(s[i])
      /\ Disjoint(a, b)
  BY <1>1, CutParts
<1>5. InPool(a) /\ (b.second # 0 => InPool(b))
  <2>1. s[i] \in Block /\ InPool(s[i])
    BY <1>1
  <2>2. b.second # 0 => b.second > 0
    BY <1>2
  <2> QED BY <1>4, <2>1, <2>2, PartInPool
<1>6. \A c \in A : Disjoint(c, a) /\ Disjoint(a, c) /\ Disjoint(c, b)
  <2> TAKE c \in A
  <2>1. Disjoint(c, s[i])
    BY DEF Layout, LiveNotFree
  <2>2. c \in Block /\ s[i] \in Block
    BY <1>1
  <2> QED BY <2>1, <2>2, <1>4, WithinDisjoint
<1>7. LiveApart(A \cup {a})
  BY <1>5, <1>6 DEF LiveApart, Layout
\* Where the entries of the new list come from.
<1>8. \A j \in 1 .. Len(t) : \/ t[j] = b /\ b.second # 0
                             \/ \E k \in 1 .. Len(s) : k # i /\ t[j] = s[k]
  <2>1. CASE b.second = 0
    <3> TAKE j \in 1 .. Len(t)
    <3>1. CASE j < i
      BY <1>0, <2>1, <3>1
    <3>2. CASE ~(j < i)
      <4>1. j + 1 \in 1 .. Len(s) /\ j + 1 # i
        BY <1>0, <2>1, <3>2
      <4>2. t[j] = s[j + 1]
        BY <2>1, <3>2
      <4> QED BY <4>1, <4>2
    <3> QED BY <3>1, <3>2
  <2>2. CASE b.second # 0
    BY <2>2
  <2> QED BY <2>1, <2>2
<1>9. \A k \in 1 .. Len(s) : k # i => \E j \in 1 .. Len(t) : t[j] = s[k]
  <2> SUFFICES ASSUME NEW k \in 1 .. Len(s), k # i
               PROVE  \E j \in 1 .. Len(t) : t[j] = s[k]
    OBVIOUS
  <2>1. CASE b.second # 0
    BY <2>1
  <2>2. CASE b.second = 0 /\ k < i
    <3>1. k \in 1 .. Len(t) /\ t[k] = s[k]
      BY <1>0, <2>2
    <3> QED BY <3>1
  <2>3. CASE b.second = 0 /\ k > i
    <3>1. Len(t) = Len(s) - 1
      BY <2>3
    <3>2. /\ k - 1 \in 1 .. Len(t) /\ ~(k - 1 < i) /\ (k - 1) + 1 = k
      BY <1>0, <2>3, <3>1
    <3>3. t[k - 1] = s[(k - 1) + 1]
      BY <2>3, <3>2
    <3> QED BY <3>2, <3>3
  <2> QED BY <2>1, <2>2, <2>3
<1>10. \A k \in 1 .. Len(s) : k # i => Disjoint(a, s[k])
  <2> SUFFICES ASSUME NEW k \in 1 .. Len(s), k # i
               PROVE  Disjoint(a, s[k])
    OBVIOUS
  <2>1. k < i => EndOf(s[k]) < s[i].first
    BY DEF Layout, Ordered
  <2>2. i < k => EndOf(s[i]) < s[k].first
    BY DEF Layout, Ordered
  <2>3. /\ s[k].first \in Nat /\ s[k].second \in Nat
        /\ s[k] \in Block /\ s[i] \in Block
    BY <1>1
  <2>4. Disjoint(s[k], s[i])
    BY <2>1, <2>2, <2>3, <1>i DEF EndOf, Disjoint
  <2> QED BY <2>3, <2>4, <1>4, WithinDisjoint
<1>11. LiveNotFree(A \cup {a}, t)
  <2> SUFFICES ASSUME NEW c \in A \cup {a}, NEW j \in 1 .. Len(t)
               PROVE  Disjoint(c, t[j])
    BY DEF LiveNotFree
  <2>1. CASE t[j] = b
    BY <2>1, <1>4, <1>6
  <2>2. ASSUME NEW k \in 1 .. Len(s), k # i, t[j] = s[k]
        PROVE  Disjoint(c, t[j])
    BY <2>2, <1>10 DEF Layout, LiveNotFree
  <2> QED BY <2>1, <2>2, <1>8
<1>12. Ordered(t)
  <2>1. \A j \in 1 .. Len(t) : InPool(t[j])
    BY <1>1, <1>5, <1>8
  <2>2. ASSUME NEW j \in 1 .. Len(t), NEW k \in 1 .. Len(t), j < k
        PROVE  EndOf(t[j]) < t[k].first
    <3>0. \A p, q \in 1 .. Len(s) : p < q => EndOf(s[p]) < s[q].first
      BY DEF Layout, Ordered
    <3>1. CASE b.second = 0
      <4> DEFINE p == IF j < i THEN j ELSE j + 1
                 q == IF k < i THEN k ELSE k + 1
      <4>1. p \in 1 .. Len(s) /\ q \in 1 .. Len(s) /\ p < q
        BY <2>2, <3>1, <1>0
      <4>2. t[j] = s[p] /\ t[k] = s[q]
        BY <3>1
      <4> QED BY <4>1, <4>2, <3>0
    <3>2. CASE b.second # 0
      <4>1. j \in 1 .. Len(s) /\ k \in 1 .. Len(s)
        BY <3>2
      <4>2. EndOf(s[j]) < s[k].first
        BY <3>0, <4>1, <2>2
      <4>3. /\ s[j].first \in Nat /\ s[j].second \in Nat /\ s[k].first \in Nat
        BY <1>1, <4>1
      <4>4. /\ t[j] = s[j] \/ (j = i /\ t[j] = b)
            /\ t[k] = s[k] \/ (k = i /\ t[k] = b)
        BY <3>2
      <4>5. EndOf(t[j]) <= EndOf(s[j]) /\ EndOf(t[j]) \in Int
        <5>1. CASE t[j] = s[j]
          BY <5>1, <4>3 DEF EndOf
        <5>2. CASE j = i /\ t[j] = b
          BY <5>2, <1>2, <1>4 DEF EndOf
        <5> QED BY <5>1, <5>2, <4>4
      <4>6. s[k].first <= t[k].first /\ t[k].first \in Nat
        <5>1. CASE t[k] = s[k]
          BY <5>1, <4>3
        <5>2. CASE k = i /\ t[k] = b
          BY <5>2, <1>2, <1>4
        <5> QED BY <5>1, <5>2, <4>4
      <4>7. EndOf(s[j]) \in Int
        BY <4>3 DEF EndOf
      <4>8. s[k].first \in Int /\ t[k].first \in Int
        BY <4>3, <4>6
      <4> QED BY ONLY <4>2, <4>5, <4>6, <4>7, <4>8, StillBelow
    <3> QED BY <3>1, <3>2
  <2> QED BY <2>1, <2>2 DEF Ordered
<1>13. Covered(A \cup {a}, t)
  <2> SUFFICES ASSUME NEW x \in 0 .. vtcmAllocatedSize - 1
               PROVE  \/ \E c \in A \cup {a} : Holds(c, x)
                      \/ \E j \in 1 .. Len(t) : Holds(t[j], x)
    BY DEF Covered
  <2>1. \/ \E c \in A : Holds(c, x)
        \/ \E k \in 1 .. Len(s) : Holds(s[k], x)
    BY DEF Layout, Covered
  <2>2. CASE \E c \in A : Holds(c, x)
    BY <2>2
  <2>3. ASSUME NEW k \in 1 .. Len(s), Holds(s[k], x), k # i
        PROVE  \E j \in 1 .. Len(t) : Holds(t[j], x)
    BY <1>9, <2>3
  <2>4. CASE Holds(s[i], x)
    <3>1. Holds(a, x) \/ (Holds(b, x) /\ b.second # 0)
      BY <2>4, <1>1, SizeNat, CutHolds
    <3>2. b.second # 0 => i \in 1 .. Len(t) /\ t[i] = b
      OBVIOUS
    <3> QED BY <3>1, <3>2
  <2> QED BY <2>1, <2>2, <2>3, <2>4
<1> QED BY <1>7, <1>11, <1>12, <1>13 DEF Layout

(***************************************************************************)
(* Free: the freed block and the neighbours it touches become one block m   *)
(* that takes the place of the entries l .. r - 1.                           *)
(***************************************************************************)
Splice(s, l, r, m, t) ==
    /\ t \in Seq(Block)
    /\ Len(t) = Len(s) - (r - l) + 1
    /\ \A j \in 1 .. Len(t) :
          t[j] = IF j < l THEN s[j] ELSE IF j = l THEN m ELSE s[j + (r - l) - 1]

\* Splicing in the merged block keeps the lists good.
LEMMA SpliceKeepsLayout ==
    ASSUME NEW A \in SUBSET Block, NEW s \in Seq(Block), Layout(A, s),
           NEW b \in A, NEW m \in Block, InPool(m),
           NEW l \in 1 .. Len(s) + 1, NEW r \in l .. Len(s) + 1,
           NEW t, Splice(s, l, r, m, t),
           \A j \in 1 .. l - 1 : EndOf(s[j]) < m.first,
           \A j \in r .. Len(s) : EndOf(m) < s[j].first,
           \A c \in A \ {b} : Disjoint(c, m),
           \A x \in 0 .. vtcmAllocatedSize - 1 :
              Holds(b, x) \/ (\E k \in l .. r - 1 : Holds(s[k], x)) => Holds(m, x)
    PROVE  Layout(A \ {b}, t)
<1>0. /\ Len(s) \in Nat /\ Len(t) \in Nat /\ t \in Seq(Block)
      /\ Len(t) = Len(s) - (r - l) + 1
  BY DEF Splice
<1>t. l \in Nat /\ r \in Nat /\ 1 <= l /\ l <= r /\ r <= Len(s) + 1
  BY <1>0
<1>1. \A j \in 1 .. Len(s) : s[j] \in Block /\ InPool(s[j])
  BY DEF Layout, Ordered
\* Every entry of t is m or an old entry outside l .. r - 1, in order.
<1>2. ASSUME NEW j \in 1 .. Len(t)
      PROVE  \/ j = l /\ t[j] = m
             \/ j < l /\ j \in 1 .. l - 1 /\ j \in 1 .. Len(s) /\ t[j] = s[j]
             \/ /\ j > l /\ j + (r - l) - 1 \in r .. Len(s)
                /\ j + (r - l) - 1 \in 1 .. Len(s) /\ t[j] = s[j + (r - l) - 1]
  <2>1. t[j] = IF j < l THEN s[j] ELSE IF j = l THEN m ELSE s[j + (r - l) - 1]
    BY DEF Splice
  <2>2. j \in Nat /\ j >= 1 /\ j <= Len(s) - (r - l) + 1
    BY <1>0, <1>t
  <2>3. CASE j < l
    BY <2>1, <2>2, <2>3, <1>t, <1>0
  <2>4. CASE j = l
    BY <2>1, <2>4
  <2>5. CASE j > l
    <3>1. j + (r - l) - 1 \in r .. Len(s) /\ j + (r - l) - 1 \in 1 .. Len(s)
      BY <2>2, <2>5, <1>t, <1>0
    <3>2. t[j] = s[j + (r - l) - 1]
      BY <2>1, <2>2, <2>5, <1>t
    <3> QED BY <2>5, <3>1, <3>2
  <2> QED BY <2>2, <2>3, <2>4, <2>5, <1>t
<1>3. l \in 1 .. Len(t) /\ t[l] = m
  <2>1. l \in 1 .. Len(t)
    BY <1>0, <1>t
  <2> QED BY <2>1, <1>t DEF Splice
<1>4. ASSUME NEW k \in 1 .. Len(s), k < l \/ k >= r
      PROVE  \E j \in 1 .. Len(t) : t[j] = s[k]
  <2>1. CASE k < l
    <3>1. k \in 1 .. Len(t) /\ t[k] = s[k]
      BY <1>0, <2>1 DEF Splice
    <3> QED BY <3>1
  <2>2. CASE k >= r
    <3>1. k \in Nat /\ k <= Len(s)
      BY <1>0
    <3>2. PICK j \in Nat : j = k - (r - l) + 1
      BY <3>1, <2>2, <1>t
    <3>3. j \in 1 .. Len(t) /\ ~(j < l) /\ j # l /\ j + (r - l) - 1 = k
      BY <3>1, <3>2, <2>2, <1>0, <1>t
    <3>4. t[j] = s[k]
      BY <3>3 DEF Splice
    <3> QED BY <3>3, <3>4
  <2> QED BY <1>4, <2>1, <2>2
<1>5. LiveApart(A \ {b})
  BY DEF Layout, LiveApart
<1>6. LiveNotFree(A \ {b}, t)
  <2> SUFFICES ASSUME NEW c \in A \ {b}, NEW j \in 1 .. Len(t)
               PROVE  Disjoint(c, t[j])
    BY DEF LiveNotFree
  <2>1. \A k \in 1 .. Len(s) : Disjoint(c, s[k])
    BY DEF Layout, LiveNotFree
  <2> QED BY <1>2, <2>1
<1>7. Ordered(t)
  <2>1. \A j \in 1 .. Len(t) : InPool(t[j])
    BY <1>1, <1>2
  <2>2. ASSUME NEW j \in 1 .. Len(t), NEW k \in 1 .. Len(t), j < k
        PROVE  EndOf(t[j]) < t[k].first
    <3>0. \A p, q \in 1 .. Len(s) : p < q => EndOf(s[p]) < s[q].first
      BY DEF Layout, Ordered
    <3>1. CASE j = l
      <4>1. k + (r - l) - 1 \in r .. Len(s) /\ t[k] = s[k + (r - l) - 1] /\ t[j] = m
        BY <1>2, <2>2, <3>1
      <4> QED BY <4>1
    <3>2. CASE k = l
      <4>1. j \in 1 .. l - 1 /\ t[j] = s[j] /\ t[k] = m
        BY <1>2, <2>2, <3>2
      <4> QED BY <4>1
    <3>3. CASE j # l /\ k # l
      <4> DEFINE p == IF j < l THEN j ELSE j + (r - l) - 1
                 q == IF k < l THEN k ELSE k + (r - l) - 1
      <4>1. p \in 1 .. Len(s) /\ t[j] = s[p]
        BY <1>2, <3>3
      <4>2. q \in 1 .. Len(s) /\ t[k] = s[q]
        BY <1>2, <3>3
      <4>3. p < q
        BY <2>2, <3>3, <1>0
      <4> QED BY <3>0, <4>1, <4>2, <4>3
    <3> QED BY <3>1, <3>2, <3>3
  <2> QED BY <2>1, <2>2 DEF Ordered
<1>8. Covered(A \ {b}, t)
  <2> SUFFICES ASSUME NEW x \in 0 .. vtcmAllocatedSize - 1
               PROVE  \/ \E c \in A \ {b} : Holds(c, x)
                      \/ \E j \in 1 .. Len(t) : Holds(t[j], x)
    BY DEF Covered
  <2>1. \/ \E c \in A : Holds(c, x)
        \/ \E k \in 1 .. Len(s) : Holds(s[k], x)
    BY DEF Layout, Covered
  <2>2. CASE \E c \in A \ {b} : Holds(c, x)
    BY <2>2
  <2>3. CASE Holds(b, x)
    BY <2>3, <1>3
  <2>4. ASSUME NEW k \in 1 .. Len(s), Holds(s[k], x)
        PROVE  \E j \in 1 .. Len(t) : Holds(t[j], x)
    <3>1. CASE k < l \/ k >= r
      BY <3>1, <2>4, <1>4
    <3>2. CASE k \in l .. r - 1
      BY <3>2, <2>4, <1>3
    <3> QED BY <3>1, <3>2
  <2> QED BY <2>1, <2>2, <2>3, <2>4
<1> QED BY <1>5, <1>6, <1>7, <1>8 DEF Layout

\* The freed block b lies between the entries before its lower bound i and
\* the entries from i on.
LEMMA FreedBetween ==
    ASSUME NEW A \in SUBSET Block, NEW s \in Seq(Block), Layout(A, s),
           NEW b \in A, NEW i \in 1 .. Len(s) + 1,
           \A j \in 1 .. i - 1 : s[j].first < b.first,
           i <= Len(s) => s[i].first >= b.first
    PROVE  /\ \A j \in 1 .. i - 1 : EndOf(s[j]) <= b.first
           /\ \A j \in i .. Len(s) : EndOf(b) <= s[j].first
<1>0. Len(s) \in Nat /\ i \in Nat /\ b \in Block
  OBVIOUS
<1>1. \A j \in 1 .. Len(s) : /\ s[j] \in Block /\ s[j].second > 0
                             /\ Disjoint(b, s[j])
  BY DEF Layout, Ordered, LiveNotFree, InPool
<1>2. b.second > 0
  BY DEF Layout, LiveApart, InPool
<1>3. ASSUME NEW j \in 1 .. i - 1
      PROVE  EndOf(s[j]) <= b.first
  <2>1. j \in 1 .. Len(s) /\ s[j].first < b.first
    BY <1>0
  <2> QED BY <2>1, <1>0, <1>1, <1>2, BlockFields DEF Disjoint, EndOf
<1>4. ASSUME NEW j \in i .. Len(s)
      PROVE  EndOf(b) <= s[j].first
  <2>1. i \in 1 .. Len(s) /\ j \in 1 .. Len(s) /\ s[i].first >= b.first
    BY <1>0
  <2>2. s[j].first >= b.first
    <3>1. CASE i = j
      BY <2>1, <3>1
    <3>2. CASE i < j
      <4>1. EndOf(s[i]) < s[j].first
        BY <2>1, <3>2 DEF Layout, Ordered
      <4> QED BY <4>1, <2>1, <1>0, <1>1, BlockFields DEF EndOf
    <3> QED BY <2>1, <3>1, <3>2
  <2> QED BY <2>1, <2>2, <1>0, <1>1, <1>2, BlockFields DEF Disjoint, EndOf
<1> QED BY <1>3, <1>4

\* A block disjoint from two adjacent blocks is disjoint from their union.
LEMMA JoinDisjoint ==
    ASSUME NEW a \in Block, NEW b \in Block, EndOf(a) = b.first
    PROVE  /\ Join(a, b) \in Block
           /\ Join(a, b).first = a.first /\ EndOf(Join(a, b)) = EndOf(b)
           /\ Join(a, b).second = a.second + b.second
           /\ \A x \in Int : Holds(a, x) \/ Holds(b, x) => Holds(Join(a, b), x)
           /\ \A c \in Block : c.second > 0 /\ Disjoint(c, a) /\ Disjoint(c, b)
                                  => Disjoint(c, Join(a, b))
<1>1. /\ Join(a, b).first = a.first
      /\ Join(a, b).second = a.second + b.second
      /\ Join(a, b) \in Block
  BY DEF Join, Block
<1> QED BY <1>1, BlockFields DEF EndOf, Holds, Disjoint

JoinsNext(s, b, i) == i <= Len(s) /\ EndOf(b) = s[i].first
JoinsPrevious(s, b, i) == i > 1 /\ EndOf(s[i - 1]) = b.first

\* The freed block with the next entry, and with the previous one too.
WithNext(s, b, i) == IF JoinsNext(s, b, i) THEN Join(b, s[i]) ELSE b
Merged(s, b, i) ==
    IF JoinsPrevious(s, b, i) THEN Join(s[i - 1], WithNext(s, b, i))
    ELSE WithNext(s, b, i)

\* The first half of coalesceAndAddToFreeList, as a splice.
LEMMA NextSplice ==
    ASSUME NEW s \in Seq(Block), NEW b \in Block, NEW i \in 1 .. Len(s) + 1
    PROVE  Splice(s, i, IF JoinsNext(s, b, i) THEN i + 1 ELSE i, WithNext(s, b, i),
                  IF JoinsNext(s, b, i) THEN ReplaceAt(s, i, Join(b, s[i]))
                  ELSE InsertAt(s, i, b))
<1>0. Len(s) \in Nat /\ i \in Nat
  OBVIOUS
<1>1. CASE JoinsNext(s, b, i)
  <2>1. i \in 1 .. Len(s) /\ s[i] \in Block
    BY <1>0, <1>1 DEF JoinsNext
  <2>2. Join(b, s[i]) \in Block
    BY <1>1, <2>1, JoinDisjoint DEF JoinsNext
  <2> DEFINE t == ReplaceAt(s, i, Join(b, s[i]))
  <2>3. /\ t \in Seq(Block) /\ Len(t) = Len(s)
        /\ \A j \in 1 .. Len(s) : t[j] = IF j = i THEN Join(b, s[i]) ELSE s[j]
    BY <2>1, <2>2, ReplaceAtEntries
  <2> HIDE DEF t
  <2>4. Splice(s, i, i + 1, Join(b, s[i]), t)
    BY <1>0, <2>3 DEF Splice
  <2> QED BY <1>1, <2>4 DEF t, WithNext
<1>2. CASE ~JoinsNext(s, b, i)
  <2>i. /\ InsertAt(s, i, b) \in Seq(Block)
        /\ Len(InsertAt(s, i, b)) = Len(s) + 1
        /\ \A j \in 1 .. Len(s) + 1 :
              InsertAt(s, i, b)[j] = IF j < i THEN s[j]
                                     ELSE IF j = i THEN b ELSE s[j - 1]
    <3> DEFINE U == Block
    <3>1. /\ s \in Seq(U) /\ i \in 1 .. Len(s) + 1 /\ b \in U
      OBVIOUS
    <3> HIDE DEF U
    <3>2. /\ InsertAt(s, i, b) \in Seq(U)
          /\ Len(InsertAt(s, i, b)) = Len(s) + 1
          /\ \A j \in 1 .. Len(s) + 1 :
              InsertAt(s, i, b)[j] = IF j < i THEN s[j]
                                     ELSE IF j = i THEN b ELSE s[j - 1]
      BY <3>1, InsertAtEntries
    <3> QED BY <3>2 DEF U
  <2> DEFINE t == InsertAt(s, i, b)
  <2>1. /\ t \in Seq(Block) /\ Len(t) = Len(s) + 1
        /\ \A j \in 1 .. Len(s) + 1 :
              t[j] = IF j < i THEN s[j] ELSE IF j = i THEN b ELSE s[j - 1]
    BY <2>i, Zenon
  <2> HIDE DEF t
  <2>2. Len(t) = Len(s) - (i - i) + 1
    BY <1>0, <2>1
  <2>3. ASSUME NEW j \in 1 .. Len(t)
        PROVE  t[j] = IF j < i THEN s[j] ELSE IF j = i THEN b ELSE s[j + (i - i) - 1]
    <3>1. j + (i - i) - 1 = j - 1 /\ j \in 1 .. Len(s) + 1
      BY <1>0, <2>1
    <3> QED BY <2>1, <3>1
  <2>4. Splice(s, i, i, b, t)
    BY <2>1, <2>2, <2>3 DEF Splice
  <2> QED BY <1>2, <2>4 DEF t, WithNext
<1> QED BY <1>1, <1>2

\* Both halves: the merged block takes the place of what it absorbed.
LEMMA CoalescedSplice ==
    ASSUME free \in Seq(Block), NEW b \in Block, NEW i \in 1 .. Len(free) + 1
    PROVE  Splice(free, IF JoinsPrevious(free, b, i) THEN i - 1 ELSE i,
                  IF JoinsNext(free, b, i) THEN i + 1 ELSE i,
                  Merged(free, b, i), Coalesced(b, i))
<1> DEFINE r == IF JoinsNext(free, b, i) THEN i + 1 ELSE i
           w == WithNext(free, b, i)
           u == IF JoinsNext(free, b, i) THEN ReplaceAt(free, i, Join(b, free[i]))
                ELSE InsertAt(free, i, b)
<1>0. Len(free) \in Nat /\ i \in Nat /\ r \in Nat /\ i <= r /\ r <= Len(free) + 1
  BY DEF JoinsNext
<1>1. Splice(free, i, r, w, u)
  BY NextSplice
<1>2. Coalesced(b, i) = JoinPrevious(u, i)
  BY DEF Coalesced, JoinsNext
<1>3. w \in Block /\ w.first = b.first
  BY JoinDisjoint, <1>0 DEF WithNext, JoinsNext
<1> HIDE DEF r, w, u
<1>4. /\ u \in Seq(Block) /\ Len(u) = Len(free) - (r - i) + 1
      /\ \A j \in 1 .. Len(u) :
            u[j] = IF j < i THEN free[j] ELSE IF j = i THEN w ELSE free[j + (r - i) - 1]
  BY <1>1 DEF Splice
<1>5. i \in 1 .. Len(u) /\ u[i] = w
  BY <1>0, <1>4
<1>6. i > 1 => i - 1 \in 1 .. Len(u) /\ u[i - 1] = free[i - 1] /\ free[i - 1] \in Block
  <2> HAVE i > 1
  <2>1. i - 1 \in 1 .. Len(u) /\ i - 1 < i /\ i - 1 \in 1 .. Len(free)
    BY <1>0, <1>5
  <2> QED BY <2>1, <1>4
<1>7. CASE JoinsPrevious(free, b, i)
  <2> DEFINE j2 == Join(free[i - 1], w)
             v == ReplaceAt(u, i - 1, j2)
             t == RemoveAt(v, i)
  <2>0. i > 1 /\ EndOf(free[i - 1]) = w.first /\ free[i - 1] \in Block
    BY <1>7, <1>3, <1>6 DEF JoinsPrevious
  <2>1. j2 \in Block /\ i > 1
    BY <2>0, <1>3, JoinDisjoint
  <2>9. JoinPrevious(u, i) = t
    BY <2>0, <1>5, <1>6 DEF JoinPrevious
  <2> HIDE DEF j2
  <2>2. /\ v \in Seq(Block) /\ Len(v) = Len(u)
        /\ \A j \in 1 .. Len(u) : v[j] = IF j = i - 1 THEN j2 ELSE u[j]
    <3>1. ASSUME NEW k \in 1 .. Len(u)
          PROVE  /\ ReplaceAt(u, k, j2) \in Seq(Block)
                 /\ Len(ReplaceAt(u, k, j2)) = Len(u)
                 /\ \A j \in 1 .. Len(u) :
                       ReplaceAt(u, k, j2)[j] = IF j = k THEN j2 ELSE u[j]
      <4>1. u \in Seq(Block) /\ j2 \in Block
        BY <2>1, <1>4
      <4> QED BY <4>1, ReplaceAtEntries, SMTT(30)
    <3>2. i - 1 \in 1 .. Len(u)
      BY <2>1, <1>6
    <3> HIDE DEF j2
    <3> QED BY <3>1, <3>2
  <2> HIDE DEF v
  <2>3. i \in 1 .. Len(v)
    BY <2>2, <1>5
  <2>4. /\ t \in Seq(Block) /\ Len(t) = Len(v) - 1
        /\ \A j \in 1 .. Len(v) - 1 : t[j] = IF j < i THEN v[j] ELSE v[j + 1]
    BY <2>2, <2>3, RemoveAtEntries
  <2> HIDE DEF t
  <2>5. Len(t) = Len(free) - (r - (i - 1)) + 1
    BY <2>2, <2>4, <1>4, <1>0
  <2>6. ASSUME NEW j \in 1 .. Len(t)
        PROVE  t[j] = IF j < i - 1 THEN free[j] ELSE IF j = i - 1 THEN j2
                      ELSE free[j + (r - (i - 1)) - 1]
    <3>0. j \in Nat /\ j \in 1 .. Len(u) /\ j + 1 \in 1 .. Len(u)
          /\ j \in 1 .. Len(v) - 1
      BY <2>2, <2>4, <1>4, <1>0
    <3>1. CASE j < i - 1
      BY <3>0, <3>1, <2>2, <2>4, <1>4, <1>0
    <3>2. CASE j = i - 1
      BY <3>0, <3>2, <2>2, <2>4, <1>0
    <3>3. CASE j > i - 1
      <4>1. t[j] = v[j + 1] /\ j + 1 # i - 1
        BY <3>0, <3>3, <2>4, <1>0
      <4>2. v[j + 1] = u[j + 1]
        BY <4>1, <3>0, <2>2
      <4>3. u[j + 1] = free[(j + 1) + (r - i) - 1]
        <5>1. j + 1 \in 1 .. Len(u) /\ ~(j + 1 < i) /\ j + 1 # i
          BY <3>0, <3>3, <1>0
        <5> QED BY <5>1, <1>4
      <4>4. (j + 1) + (r - i) - 1 = j + (r - (i - 1)) - 1
        BY <3>0, <1>0
      <4> QED BY <3>0, <3>3, <4>1, <4>2, <4>3, <4>4, <1>0
    <3> QED BY <3>0, <3>1, <3>2, <3>3, <1>0
  <2>7. Splice(free, i - 1, r, j2, t)
    BY <2>4, <2>5, <2>6 DEF Splice
  <2>8. Merged(free, b, i) = j2
    BY <1>7 DEF Merged, j2, w
  <2> QED BY <2>9, <2>7, <2>8, <1>2, <1>7 DEF r
<1>8. CASE ~JoinsPrevious(free, b, i)
  <2>1. JoinPrevious(u, i) = u
    BY <1>8, <1>3, <1>5, <1>6 DEF JoinPrevious, JoinsPrevious
  <2>2. Merged(free, b, i) = w
    BY <1>8 DEF Merged, w
  <2> QED BY <2>1, <2>2, <1>1, <1>2, <1>8 DEF r
<1> QED BY <1>7, <1>8

\* Free of a live block passes the CHECKs and keeps the lists good.
LEMMA FreeKeepsLayout ==
    ASSUME allocations \in SUBSET Block, free \in Seq(Block),
           Layout(allocations, free),
           NEW b \in allocations, NEW i \in LowerBound(b.first)
    PROVE  /\ CoalesceCheck(b, i) = "ok"
           /\ Coalesced(b, i) \in Seq(Block)
           /\ Layout(allocations \ {b}, Coalesced(b, i))
<1> DEFINE A == allocations
           s == free
           w == WithNext(s, b, i)
           m == Merged(s, b, i)
           l == IF JoinsPrevious(s, b, i) THEN i - 1 ELSE i
           r == IF JoinsNext(s, b, i) THEN i + 1 ELSE i
<1>0. /\ Len(s) \in Nat /\ i \in 1 .. Len(s) + 1 /\ b \in Block
      /\ \A j \in 1 .. i - 1 : s[j].first < b.first
      /\ i <= Len(s) => s[i].first >= b.first
  BY DEF LowerBound
<1>1. /\ \A j \in 1 .. i - 1 : EndOf(s[j]) <= b.first
      /\ \A j \in i .. Len(s) : EndOf(b) <= s[j].first
  BY <1>0, FreedBetween
<1>2. \A j \in 1 .. Len(s) : /\ s[j] \in Block /\ InPool(s[j])
                             /\ s[j].first \in Nat /\ s[j].second \in Nat
  BY BlockFields DEF Layout, Ordered
<1>3. InPool(b) /\ b.first \in Nat /\ b.second \in Nat
  BY BlockFields, <1>0 DEF Layout, LiveApart
<1>4. CoalesceCheck(b, i) = "ok"
  <2>1. i <= Len(s) => EndOf(b) <= s[i].first /\ s[i].first \in Nat
    BY <1>0, <1>1, <1>2
  <2>2. i > 1 => EndOf(s[i - 1]) <= b.first /\ EndOf(s[i - 1]) \in Int
    <3> HAVE i > 1
    <3>1. i - 1 \in 1 .. i - 1 /\ i - 1 \in 1 .. Len(s)
      BY <1>0
    <3> QED BY <3>1, <1>1, <1>2 DEF EndOf
  <2>3. /\ ~(i <= Len(free) /\ b.first = free[i].first)
        /\ ~(i <= Len(free) /\ EndOf(b) > free[i].first)
        /\ ~(i > 1 /\ EndOf(free[i - 1]) > b.first)
    BY <2>1, <2>2, <1>3 DEF EndOf, InPool
  <2> QED BY <2>3 DEF CoalesceCheck
\* The block that absorbed the next entry.
<1>5. /\ w \in Block /\ w.first = b.first /\ InPool(w)
      /\ \A j \in r .. Len(s) : EndOf(w) < s[j].first
      /\ \A c \in A \ {b} : Disjoint(c, w)
      /\ \A x \in Int : Holds(b, x) => Holds(w, x)
      /\ JoinsNext(s, b, i) => \A x \in Int : Holds(s[i], x) => Holds(w, x)
  <2>c. \A c \in A \ {b} : /\ c \in Block /\ c.second > 0 /\ Disjoint(c, b)
                            /\ \A j \in 1 .. Len(s) : Disjoint(c, s[j])
    BY DEF Layout, LiveApart, InPool, LiveNotFree
  <2>1. CASE JoinsNext(s, b, i)
    <3>1. i \in 1 .. Len(s) /\ EndOf(b) = s[i].first /\ w = Join(b, s[i]) /\ r = i + 1
      BY <2>1, <1>0 DEF JoinsNext, WithNext
    <3>2. /\ w \in Block /\ w.first = b.first /\ EndOf(w) = EndOf(s[i])
          /\ w.second = b.second + s[i].second
          /\ \A x \in Int : Holds(b, x) \/ Holds(s[i], x) => Holds(w, x)
          /\ \A c \in Block : c.second > 0 /\ Disjoint(c, b) /\ Disjoint(c, s[i])
                                 => Disjoint(c, w)
      BY <3>1, <1>0, <1>2, JoinDisjoint
    <3> HIDE DEF w, r
    <3>3. InPool(w)
      BY <3>1, <3>2, <1>2, <1>3 DEF InPool
    <3>4. \A j \in r .. Len(s) : EndOf(w) < s[j].first
      <4> TAKE j \in r .. Len(s)
      <4>1. j \in 1 .. Len(s) /\ i < j
        BY <3>1, <1>0
      <4> QED BY <4>1, <3>1, <3>2 DEF Layout, Ordered
    <3> QED BY <3>1, <3>2, <3>3, <3>4, <2>c
  <2>2. CASE ~JoinsNext(s, b, i)
    <3>1. w = b /\ r = i
      BY <2>2 DEF WithNext
    <3> HIDE DEF w, r
    <3>2. \A j \in i .. Len(s) : EndOf(b) < s[j].first
      <4> TAKE j \in i .. Len(s)
      <4>0. i \in 1 .. Len(s) /\ j \in 1 .. Len(s) /\ i <= Len(s)
        BY <1>0
      <4>1. EndOf(b) < s[i].first
        <5>1. EndOf(b) # s[i].first
          BY <4>0, <2>2 DEF JoinsNext
        <5>2. EndOf(b) <= s[i].first
          BY <4>0, <1>1, <1>0
        <5>3. EndOf(b) \in Int /\ s[i].first \in Int
          BY <4>0, <1>2, <1>3 DEF EndOf
        <5> QED BY <5>1, <5>2, <5>3
      <4>2. i < j => EndOf(s[i]) < s[j].first
        BY <4>0 DEF Layout, Ordered
      <4>3. s[i].first \in Nat /\ s[i].second \in Nat /\ s[j].first \in Nat
        BY <4>0, <1>2
      <4> QED BY <4>0, <4>1, <4>2, <4>3, <1>3 DEF EndOf
    <3> QED BY <3>1, <3>2, <2>2, <2>c, <1>0, <1>3
  <2> QED BY <2>1, <2>2
<1>6. /\ m \in Block /\ InPool(m)
      /\ \A j \in 1 .. l - 1 : EndOf(s[j]) < m.first
      /\ EndOf(m) = EndOf(w)
      /\ \A c \in A \ {b} : Disjoint(c, m)
      /\ \A x \in Int : Holds(w, x) => Holds(m, x)
      /\ JoinsPrevious(s, b, i) => \A x \in Int : Holds(s[i - 1], x) => Holds(m, x)
  <2> HIDE DEF w
  <2>c. \A c \in A \ {b} : /\ c \in Block /\ c.second > 0
                            /\ \A j \in 1 .. Len(s) : Disjoint(c, s[j])
    BY DEF Layout, LiveApart, InPool, LiveNotFree
  <2>1. CASE JoinsPrevious(s, b, i)
    <3>1. /\ i > 1 /\ EndOf(s[i - 1]) = w.first /\ m = Join(s[i - 1], w) /\ l = i - 1
      BY <2>1, <1>5 DEF JoinsPrevious, Merged, w
    <3>2. i - 1 \in 1 .. Len(s) /\ s[i - 1] \in Block
      BY <3>1, <1>0, <1>2
    <3>3. /\ m \in Block /\ m.first = s[i - 1].first /\ EndOf(m) = EndOf(w)
          /\ m.second = s[i - 1].second + w.second
          /\ \A x \in Int : Holds(s[i - 1], x) \/ Holds(w, x) => Holds(m, x)
          /\ \A c \in Block : c.second > 0 /\ Disjoint(c, s[i - 1]) /\ Disjoint(c, w)
                                 => Disjoint(c, m)
      BY <3>1, <3>2, <1>5, JoinDisjoint
    <3> HIDE DEF m, l
    <3>4. InPool(m)
      BY <3>2, <3>3, <1>2, <1>5, BlockFields DEF InPool
    <3>5. \A j \in 1 .. l - 1 : EndOf(s[j]) < m.first
      <4> TAKE j \in 1 .. l - 1
      <4>1. j \in 1 .. Len(s) /\ j < i - 1
        BY <3>1, <1>0
      <4> QED BY <4>1, <3>2, <3>3 DEF Layout, Ordered
    <3> QED BY <3>1, <3>2, <3>3, <3>4, <3>5, <2>c, <1>5
  <2>2. CASE ~JoinsPrevious(s, b, i)
    <3>1. m = w /\ l = i
      BY <2>2 DEF Merged, w
    <3> HIDE DEF m, l
    <3>2. \A j \in 1 .. i - 1 : EndOf(s[j]) < b.first
      <4> TAKE j \in 1 .. i - 1
      <4>0. i > 1 /\ i - 1 \in 1 .. Len(s) /\ j \in 1 .. Len(s) /\ i - 1 \in 1 .. i - 1
        BY <1>0
      <4>1. EndOf(s[i - 1]) < b.first
        <5>1. EndOf(s[i - 1]) # b.first
          BY <4>0, <2>2 DEF JoinsPrevious
        <5>2. EndOf(s[i - 1]) <= b.first
          BY <4>0, <1>1
        <5>3. EndOf(s[i - 1]) \in Int /\ b.first \in Int
          BY <4>0, <1>2, <1>3 DEF EndOf
        <5> QED BY <5>1, <5>2, <5>3
      <4>2. j < i - 1 => EndOf(s[j]) < s[i - 1].first
        BY <4>0 DEF Layout, Ordered
      <4>3. /\ s[i - 1].first \in Nat /\ s[i - 1].second \in Nat
            /\ s[j].first \in Nat /\ s[j].second \in Nat
        BY <4>0, <1>2
      <4>4. j < i - 1 \/ j = i - 1
        BY <1>0
      <4>5. CASE j < i - 1
        <5>1. EndOf(s[j]) < s[i - 1].first
          BY <4>2, <4>5
        <5>2. s[i - 1].first <= EndOf(s[i - 1]) /\ EndOf(s[i - 1]) \in Int
              /\ EndOf(s[j]) \in Int
          BY <4>3 DEF EndOf
        <5> QED BY <5>1, <5>2, <4>1, <4>3, <1>3
      <4> QED BY <4>1, <4>4, <4>5
    <3> QED BY <3>1, <3>2, <2>2, <1>5
  <2> QED BY <2>1, <2>2
<1>7. l \in 1 .. Len(s) + 1 /\ r \in l .. Len(s) + 1
  BY <1>0 DEF JoinsPrevious, JoinsNext
<1>8. ASSUME NEW x \in 0 .. vtcmAllocatedSize - 1,
             Holds(b, x) \/ (\E k \in l .. r - 1 : Holds(s[k], x))
      PROVE  Holds(m, x)
  <2> HIDE DEF w, m
  <2>1. x \in Int
    OBVIOUS
  <2>2. CASE Holds(b, x)
    BY <2>1, <2>2, <1>5, <1>6
  <2>3. ASSUME NEW k \in l .. r - 1, Holds(s[k], x)
        PROVE  Holds(m, x)
    <3>0. i \in Int /\ k \in Int /\ l <= k /\ k <= r - 1
      BY <1>0, <1>7
    <3>1. (k = i /\ JoinsNext(s, b, i)) \/ (k = i - 1 /\ JoinsPrevious(s, b, i))
      <4>1. CASE JoinsNext(s, b, i) /\ JoinsPrevious(s, b, i)
        <5>1. l = i - 1 /\ r = i + 1
          BY <4>1
        <5> HIDE DEF l, r
        <5>2. k = i \/ k = i - 1
          BY <3>0, <5>1
        <5> QED BY <4>1, <5>2
      <4>2. CASE JoinsNext(s, b, i) /\ ~JoinsPrevious(s, b, i)
        <5>1. l = i /\ r = i + 1
          BY <4>2
        <5> HIDE DEF l, r
        <5>2. k = i
          BY <3>0, <5>1
        <5> QED BY <4>2, <5>2
      <4>3. CASE ~JoinsNext(s, b, i) /\ JoinsPrevious(s, b, i)
        <5>1. l = i - 1 /\ r = i
          BY <4>3
        <5> HIDE DEF l, r
        <5>2. k = i - 1
          BY <3>0, <5>1
        <5> QED BY <4>3, <5>2
      <4>4. CASE ~JoinsNext(s, b, i) /\ ~JoinsPrevious(s, b, i)
        <5>1. l = i /\ r = i
          BY <4>4
        <5> HIDE DEF l, r
        <5>2. FALSE
          BY <3>0, <5>1
        <5> QED BY <4>4, <5>2
      <4> QED BY <4>1, <4>2, <4>3, <4>4
    <3> QED BY <2>1, <2>3, <3>1, <1>5, <1>6
  <2> QED BY <1>8, <2>2, <2>3
<1>9. Splice(s, l, r, m, Coalesced(b, i))
  BY <1>0, CoalescedSplice
<1>10. EndOf(m) = EndOf(w) /\ \A j \in r .. Len(s) : EndOf(m) < s[j].first
  <2> HIDE DEF m, w
  <2> QED BY <1>5, <1>6
<1> HIDE DEF w, m, l, r
<1>11. Layout(A \ {b}, Coalesced(b, i))
  <2> DEFINE t == Coalesced(b, i)
  <2>1. Splice(s, l, r, m, t)
    BY <1>9
  <2> HIDE DEF t
  <2>2. Layout(A \ {b}, t)
    BY <2>1, <1>6, <1>7, <1>8, <1>10, SpliceKeepsLayout
  <2> QED BY <2>2 DEF t
<1> QED BY <1>4, <1>9, <1>11 DEF Splice

-----------------------------------------------------------------------------
(***************************************************************************)
(* The invariant of the pool.                                               *)
(***************************************************************************)
\* The list part of PoolInv is Layout of the two lists.
LEMMA PoolInvLayout ==
    PoolInv <=> /\ TypeOK
                /\ FreeListChecksUnreachable
                /\ Layout(allocations, free)
<1> SUFFICES ASSUME free \in Seq(Block)
             PROVE  Layout(allocations, free) <=>
                        /\ AllocationsDisjoint
                        /\ FreeSortedCoalesced
                        /\ AllocationsNotFree
                        /\ EveryByteAccounted
  BY DEF PoolInv, TypeOK
<1>1. DOMAIN free = 1 .. Len(free)
  OBVIOUS
<1> QED BY <1>1 DEF Layout, LiveApart, Ordered, LiveNotFree, Covered,
              AllocationsDisjoint, FreeSortedCoalesced, AllocationsNotFree,
              EveryByteAccounted

\* Same, of the next state.
LEMMA PoolInvLayoutNext ==
    PoolInv' <=> /\ TypeOK'
                 /\ FreeListChecksUnreachable'
                 /\ Layout(allocations', free')
<1> SUFFICES ASSUME free' \in Seq(Block)
             PROVE  Layout(allocations', free') <=>
                        /\ AllocationsDisjoint'
                        /\ FreeSortedCoalesced'
                        /\ AllocationsNotFree'
                        /\ EveryByteAccounted'
  BY DEF PoolInv, TypeOK
<1>1. DOMAIN free' = 1 .. Len(free')
  OBVIOUS
<1> QED BY <1>1 DEF Layout, LiveApart, Ordered, LiveNotFree, Covered,
              AllocationsDisjoint, FreeSortedCoalesced, AllocationsNotFree,
              EveryByteAccounted, InPool, Disjoint, Holds, EndOf

\* The pool starts as one free block.
LEMMA InitEstablishesPoolInv == Init => PoolInv
<1> SUFFICES ASSUME Init PROVE PoolInv
  OBVIOUS
<1> DEFINE b == [first |-> 0, second |-> vtcmAllocatedSize]
<1>1. b \in Block /\ b.first = 0 /\ b.second = vtcmAllocatedSize
  BY SizeNat DEF Block
<1>2. free = <<b>> /\ allocations = {}
  BY DEF Init
<1> HIDE DEF b
<1>3. /\ free \in Seq(Block) /\ Len(free) = 1 /\ free[1] = b
  BY <1>1, <1>2
<1>4. TypeOK /\ FreeListChecksUnreachable
  BY <1>2, <1>3 DEF Init, TypeOK, Status, FreeListChecksUnreachable
<1>5. InPool(b) /\ \A x \in 0 .. vtcmAllocatedSize - 1 : Holds(b, x)
  BY <1>1, PoolAssumption DEF InPool, EndOf, Holds
<1>6. Layout(allocations, free)
  BY <1>2, <1>3, <1>5 DEF Layout, LiveApart, Ordered, LiveNotFree, Covered
<1> QED BY <1>4, <1>6, PoolInvLayout

\* Cutting entry i of the free list down to b, as CarveKeepsLayout wants it.
LEMMA ShrunkEntries ==
    ASSUME free \in Seq(Block), NEW i \in 1 .. Len(free), NEW b \in Block
    PROVE  Shrunk(i, b) \in Seq(Block) /\ CutTo(Shrunk(i, b), free, i, b)
<1>2. CASE b.second = 0
  <2>1. Shrunk(i, b) = RemoveAt(free, i)
    BY <1>2 DEF Shrunk
  <2>2. /\ RemoveAt(free, i) \in Seq(Block)
        /\ Len(RemoveAt(free, i)) = Len(free) - 1
        /\ \A j \in 1 .. Len(free) - 1 :
              RemoveAt(free, i)[j] = IF j < i THEN free[j] ELSE free[j + 1]
    <3>1. free \in Seq(Block) /\ i \in 1 .. Len(free)
      OBVIOUS
    <3> QED BY ONLY <3>1, RemoveAtEntries
  <2> QED BY <1>2, <2>1, <2>2 DEF CutTo
<1>3. CASE b.second # 0
  <2>1. Shrunk(i, b) = ReplaceAt(free, i, b)
    BY <1>3 DEF Shrunk
  <2>2. /\ ReplaceAt(free, i, b) \in Seq(Block)
        /\ Len(ReplaceAt(free, i, b)) = Len(free)
        /\ \A j \in 1 .. Len(free) :
              ReplaceAt(free, i, b)[j] = IF j = i THEN b ELSE free[j]
    BY ReplaceAtEntries, SMTT(30)
  <2> QED BY <1>3, <2>1, <2>2 DEF CutTo
<1> QED BY <1>2, <1>3

\* Taking block a off one end of free entry i, leaving b, keeps the invariant.
LEMMA TakeKeepsPoolInv ==
    ASSUME PoolInv, status = "ok", NEW n \in Nat, n # 0,
           NEW i \in 1 .. Len(free), NEW b \in Block, NEW ptr \in Nat,
           alignSize(n) + b.second = free[i].second,
           \/ ptr = free[i].first /\ b.first = ptr + alignSize(n)
           \/ b.first = free[i].first /\ ptr = EndOf(b),
           Take(n, ptr), free' = Shrunk(i, b)
    PROVE  PoolInv'
<1> DEFINE a == [first |-> ptr, second |-> alignSize(n)]
<1>1. a \in Block /\ a.first = ptr /\ a.second = alignSize(n) /\ a.second > 0
  BY AlignSizeBounds DEF Block
<1>2. TypeOK /\ Layout(allocations, free)
  BY PoolInvLayout
<1>3. allocations \in SUBSET Block /\ free \in Seq(Block)
  BY <1>2 DEF TypeOK
<1>4. allocations' = allocations \cup {a}
  BY DEF Take
<1> HIDE DEF a
<1>5. PICK t : t = Shrunk(i, b)
  OBVIOUS
<1>6. t \in Seq(Block) /\ CutTo(t, free, i, b)
  BY <1>3, <1>5, ShrunkEntries
<1>7. Layout(allocations \cup {a}, t)
  <2>1. \/ a.first = free[i].first /\ b.first = EndOf(a)
        \/ b.first = free[i].first /\ a.first = EndOf(b)
    BY <1>1 DEF EndOf
  <2>2. a.second + b.second = free[i].second
    BY <1>1
  <2> QED BY <2>1, <2>2, <1>1, <1>2, <1>3, <1>6, CarveKeepsLayout
<1>8. TypeOK'
  BY <1>1, <1>2, <1>3, <1>4, <1>5, <1>6 DEF Take, TypeOK
<1>9. FreeListChecksUnreachable'
  BY DEF Take, FreeListChecksUnreachable
<1> QED BY <1>4, <1>5, <1>7, <1>8, <1>9, PoolInvLayoutNext

\* Allocate of any size keeps the invariant, and what it returns is nullptr or
\* the start of a new block.
LEMMA AllocateKeepsPoolInv ==
    ASSUME PoolInv, status = "ok", NEW n \in Nat, Allocate(n)
    PROVE  /\ PoolInv' /\ status' = "ok"
           /\ \/ ret'.ptr = NullPtr /\ allocations' = allocations
              \/ /\ ret'.ptr \in Addr
                 /\ allocations' =
                       allocations \cup {[first |-> ret'.ptr, second |-> alignSize(n)]}
                 /\ \A a \in allocations : a.first # ret'.ptr
<1>0. TypeOK /\ FreeListChecksUnreachable /\ Layout(allocations, free)
  BY PoolInvLayout
<1>1. /\ allocations \in SUBSET Block /\ free \in Seq(Block)
      /\ Len(free) \in Nat /\ DOMAIN free = 1 .. Len(free)
      /\ \A j \in 1 .. Len(free) : free[j] \in Block
  BY <1>0 DEF TypeOK
<1>2. PICK size : size = alignSize(n)
  OBVIOUS
<1>3. size \in Nat /\ size >= n
  BY <1>2, AlignSizeBounds
<1>4. ASSUME n # 0, NEW i \in 1 .. Len(free), NEW b \in Block, NEW ptr \in Nat,
             size + b.second = free[i].second,
             \/ ptr = free[i].first /\ b.first = ptr + size
             \/ b.first = free[i].first /\ ptr = EndOf(b),
             Take(n, ptr), free' = Shrunk(i, b)
      PROVE  /\ PoolInv' /\ status' = "ok"
             /\ ret'.ptr \in Addr
             /\ allocations' =
                   allocations \cup {[first |-> ret'.ptr, second |-> alignSize(n)]}
             /\ \A a \in allocations : a.first # ret'.ptr
  <2>1. PoolInv'
    BY <1>2, <1>4, TakeKeepsPoolInv
  <2>2. /\ status' = "ok" /\ ret'.ptr = ptr
        /\ allocations' = allocations \cup {[first |-> ptr, second |-> alignSize(n)]}
    BY <1>4 DEF Take
  <2>3. /\ free[i] \in Block /\ free[i].first <= ptr /\ ptr < EndOf(free[i])
        /\ EndOf(free[i]) \in Nat /\ EndOf(free[i]) <= vtcmAllocatedSize
    <3>1. /\ free[i] \in Block /\ free[i].first \in Nat /\ free[i].second \in Nat
          /\ b.first \in Nat /\ b.second \in Nat
      BY <1>1, BlockFields
    <3>2. size > 0
      BY <1>3, <1>4
    <3>3. EndOf(free[i]) <= vtcmAllocatedSize
      BY <1>0 DEF Layout, Ordered, InPool
    <3>4. PICK from \in Nat, length \in Nat, rest \in Nat :
             from = free[i].first /\ length = free[i].second /\ rest = b.second
      BY <3>1
    <3>5. (ptr = from \/ ptr = from + rest) /\ size + rest = length
      BY <1>4, <3>4 DEF EndOf
    <3>6. size \in Nat /\ from \in Nat /\ length \in Nat /\ rest \in Nat
      BY <1>3, <3>4
    <3>7. from <= ptr /\ ptr < from + length /\ from + length \in Nat
      BY ONLY <3>2, <3>5, <3>6
    <3>8. EndOf(free[i]) = from + length
      BY <3>4 DEF EndOf
    <3> QED BY <3>1, <3>3, <3>4, <3>7, <3>8
  <2>4. ptr \in Addr
    BY <2>3, SizeNat DEF Addr
  <2>5. ASSUME NEW a \in allocations PROVE a.first # ptr
    <3>1. a \in Block /\ a.second > 0 /\ Disjoint(a, free[i])
      BY <1>0, <1>1, <1>4 DEF Layout, LiveApart, LiveNotFree, InPool
    <3> QED BY <2>3, <3>1, BlockFields DEF Disjoint, EndOf
  <2> QED BY <2>1, <2>2, <2>4, <2>5
<1>5. CASE AllocateFromEnd(n)
  <2> DEFINE last == free[Len(free)]
             b == [last EXCEPT !.second = @ - size]
  <2>1. n # 0
    BY <1>5 DEF AllocateFromEnd
  <2>2. Len(free) \in 1 .. Len(free) /\ last \in Block /\ size <= last.second
    BY <1>1, <1>2, <1>5 DEF AllocateFromEnd, EndFits
  <2>3. /\ b \in Block /\ b.first = last.first /\ b.second = last.second - size
    BY <1>3, <2>2 DEF Block
  <2>4. PICK ptr \in Nat : ptr = last.first + (last.second - size)
    BY <1>3, <2>2, BlockFields
  <2>5. /\ Take(n, ptr)
        /\ free' = Shrunk(Len(free), b)
    BY <1>2, <1>5, <2>4 DEF AllocateFromEnd
  <2> HIDE DEF b
  <2>6. ptr = EndOf(b) /\ size + b.second = last.second
    BY <1>3, <2>2, <2>3, <2>4, BlockFields DEF EndOf
  <2> QED BY <2>1, <2>2, <2>3, <2>5, <2>6, <1>4
<1>6. CASE AllocateBestFit(n)
  <2>1. n # 0
    BY <1>6 DEF AllocateBestFit
  <2>2. PICK i \in findBestFit(size) :
           /\ Take(n, free[i].first)
           /\ free' = Shrunk(i, [first |-> free[i].first + size,
                                 second |-> free[i].second - size])
    BY <1>2, <1>6 DEF AllocateBestFit
  <2>3. i \in 1 .. Len(free) /\ free[i] \in Block /\ free[i].second >= size
    BY <1>1 DEF findBestFit, Fits
  <2> DEFINE b == [first |-> free[i].first + size, second |-> free[i].second - size]
  <2>4. /\ b \in Block /\ b.first = free[i].first + size
        /\ b.second = free[i].second - size
    BY <1>3, <2>3, BlockFields DEF Block
  <2>5. free' = Shrunk(i, b)
    BY <2>2
  <2> HIDE DEF b
  <2>6. size + b.second = free[i].second /\ free[i].first \in Nat
    BY <1>3, <2>3, <2>4, BlockFields
  <2> QED BY <2>1, <2>2, <2>3, <2>4, <2>5, <2>6, <1>4
<1>7. CASE AllocateFails(n)
  <2>1. PoolInv'
    BY <1>0, <1>7, PoolInvLayoutNext
       DEF AllocateFails, TypeOK, FreeListChecksUnreachable
  <2> QED BY <1>7, <2>1 DEF AllocateFails
<1> QED BY <1>5, <1>6, <1>7 DEF Allocate

\* Free of a live block with its size keeps the invariant and passes the CHECKs.
LEMMA FreeAcceptedKeepsPoolInv ==
    ASSUME PoolInv, NEW ptr, NEW n, FreeAccepted(ptr, n)
    PROVE  PoolInv' /\ status' = "ok"
<1>0. TypeOK /\ FreeListChecksUnreachable /\ Layout(allocations, free)
  BY PoolInvLayout
<1>1. allocations \in SUBSET Block /\ free \in Seq(Block)
  BY <1>0 DEF TypeOK
<1> DEFINE b == [first |-> ptr, second |-> alignSize(n)]
<1>2. b \in allocations /\ b.first = ptr /\ allocations' = allocations \ {b}
  BY DEF FreeAccepted
<1>3. PICK i \in LowerBound(ptr) :
         /\ status' = CoalesceCheck(b, i)
         /\ free' = IF status' = "ok" THEN Coalesced(b, i) ELSE free
  BY DEF FreeAccepted
<1> HIDE DEF b
<1>4. i \in LowerBound(b.first)
  BY <1>2, <1>3
<1>5. /\ CoalesceCheck(b, i) = "ok"
      /\ Coalesced(b, i) \in Seq(Block)
      /\ Layout(allocations \ {b}, Coalesced(b, i))
  BY <1>0, <1>1, <1>2, <1>4, FreeKeepsLayout
<1>6. status' = "ok" /\ free' = Coalesced(b, i)
  BY <1>3, <1>5
<1>7. ret' = ret
  BY DEF FreeAccepted
<1>8. TypeOK' /\ FreeListChecksUnreachable'
  BY <1>0, <1>2, <1>5, <1>6, <1>7 DEF TypeOK, FreeListChecksUnreachable, Status
<1> QED BY <1>2, <1>5, <1>6, <1>8, PoolInvLayoutNext

\* Every step of the pool keeps the invariant.
LEMMA NextKeepsPoolInv == PoolInv /\ [Next]_vars => PoolInv'
<1> SUFFICES ASSUME PoolInv, [Next]_vars PROVE PoolInv'
  OBVIOUS
<1>0. TypeOK /\ FreeListChecksUnreachable /\ Layout(allocations, free)
  BY PoolInvLayout
<1>1. CASE UNCHANGED vars
  BY <1>0, <1>1, PoolInvLayoutNext DEF vars, TypeOK, FreeListChecksUnreachable
<1>2. ASSUME status = "ok", NEW n \in Requests, Allocate(n)
      PROVE  PoolInv'
  BY <1>2, AllocateKeepsPoolInv, PoolAssumption
<1>3. ASSUME NEW ptr \in Addr \cup {NullPtr}, NEW n \in Requests, FreeAccepted(ptr, n)
      PROVE  PoolInv'
  BY <1>3, FreeAcceptedKeepsPoolInv
<1>4. ASSUME NEW ptr \in Addr \cup {NullPtr}, NEW n \in Requests, FreeRejected(ptr, n)
      PROVE  PoolInv'
  BY <1>0, <1>4, PoolInvLayoutNext
     DEF FreeRejected, TypeOK, FreeListChecksUnreachable, Status, Aborts
<1>5. CASE Destroy
  BY <1>0, <1>5, PoolInvLayoutNext DEF Destroy, TypeOK, FreeListChecksUnreachable, Status
<1> QED BY <1>1, <1>2, <1>3, <1>4, <1>5 DEF Next, Free, FreeNothing

\* The lists of the pool are right after any sequence of Allocate and Free
\* calls, and none of the self-checks of coalesceAndAddToFreeList aborts.
THEOREM PoolInvariant == Spec => []PoolInv
  BY InitEstablishesPoolInv, NextKeepsPoolInv, PTL DEF Spec

\* With no live block, the free list is the whole pool as one block.
LEMMA EmptyLayout ==
    ASSUME NEW s \in Seq(Block), Layout({}, s)
    PROVE  s = <<[first |-> 0, second |-> vtcmAllocatedSize]>>
<1>0. vtcmAllocatedSize \in Nat /\ vtcmAllocatedSize > 0 /\ Len(s) \in Nat
  BY PoolAssumption
<1>1. \A j \in 1 .. Len(s) : /\ s[j] \in Block
                             /\ s[j].first \in Nat /\ s[j].second \in Nat
                             /\ s[j].second > 0 /\ EndOf(s[j]) <= vtcmAllocatedSize
  BY BlockFields DEF Layout, Ordered, InPool
<1>2. \A p, q \in 1 .. Len(s) : p < q => EndOf(s[p]) < s[q].first
  BY DEF Layout, Ordered
<1>3. \A x \in 0 .. vtcmAllocatedSize - 1 : \E j \in 1 .. Len(s) : Holds(s[j], x)
  BY DEF Layout, Covered
<1>4. PICK k \in 1 .. Len(s) : Holds(s[k], 0)
  BY <1>0, <1>3
<1>5. s[k].first = 0 /\ EndOf(s[k]) \in Nat
  BY <1>1, <1>4 DEF Holds, EndOf
<1>6. EndOf(s[k]) = vtcmAllocatedSize
  <2> SUFFICES ASSUME EndOf(s[k]) < vtcmAllocatedSize PROVE FALSE
    BY <1>0, <1>1, <1>5
  <2>1. PICK j \in 1 .. Len(s) : Holds(s[j], EndOf(s[k]))
    BY <1>0, <1>3, <1>5
  <2>2. k < j => EndOf(s[k]) < s[j].first
    BY <1>2
  <2>3. j < k => EndOf(s[j]) < s[k].first
    BY <1>2
  <2>4. j < k \/ j = k \/ k < j
    OBVIOUS
  <2>5. s[j].first <= EndOf(s[k]) /\ EndOf(s[k]) < EndOf(s[j])
    BY <2>1 DEF Holds
  <2>6. s[j].first \in Nat /\ EndOf(s[j]) \in Nat
    BY <1>1 DEF EndOf
  <2> QED BY <2>2, <2>3, <2>4, <2>5, <2>6, <1>5
<1>7. ASSUME NEW j \in 1 .. Len(s), j # k PROVE FALSE
  <2>1. k < j => EndOf(s[k]) < s[j].first
    BY <1>2
  <2>2. j < k => EndOf(s[j]) < s[k].first
    BY <1>2
  <2>3. j < k \/ k < j
    BY <1>7
  <2>4. /\ s[j].first \in Nat /\ EndOf(s[j]) \in Nat
        /\ s[j].first <= EndOf(s[j]) /\ EndOf(s[j]) <= vtcmAllocatedSize
    BY <1>1 DEF EndOf
  <2> QED BY <2>1, <2>2, <2>3, <2>4, <1>0, <1>5, <1>6
<1>8. Len(s) = 1 /\ k = 1
  <2>1. 1 \in 1 .. Len(s) /\ Len(s) \in 1 .. Len(s)
    BY <1>0
  <2> QED BY <2>1, <1>7
<1>9. s[1] = [first |-> 0, second |-> vtcmAllocatedSize]
  BY <1>0, <1>1, <1>5, <1>6, <1>8 DEF Block, EndOf
<1> QED BY <1>8, <1>9

\* However the calls interleaved, freeing everything undoes all fragmentation.
THEOREM NoFragmentationLeft == Spec => []EmptyPoolIsOneBlock
<1>1. PoolInv => EmptyPoolIsOneBlock
  <2> SUFFICES ASSUME PoolInv, allocations = {}
               PROVE  free = <<[first |-> 0, second |-> vtcmAllocatedSize]>>
    BY DEF EmptyPoolIsOneBlock
  <2>1. Layout({}, free) /\ free \in Seq(Block)
    BY PoolInvLayout DEF TypeOK
  <2> QED BY <2>1, EmptyLayout
<1> QED BY PoolInvariant, <1>1, PTL

-----------------------------------------------------------------------------
(***************************************************************************)
(* The pool implements the abstract allocator.                              *)
(***************************************************************************)
\* A hole between the live blocks lies inside one free block: the list is
\* coalesced, so a request fails only when no hole is large enough.
LEMMA HoleInFreeBlock ==
    ASSUME NEW A \in SUBSET Block, NEW s \in Seq(Block), Layout(A, s),
           NEW h \in Block, InPool(h), \A a \in A : Disjoint(h, a)
    PROVE  \E i \in 1 .. Len(s) : s[i].second >= h.second
<1>0. h.first \in Nat /\ h.second \in Nat /\ h.second > 0
      /\ EndOf(h) <= vtcmAllocatedSize /\ EndOf(h) \in Nat
  BY BlockFields DEF InPool, EndOf
<1>1. \A j \in 1 .. Len(s) : s[j].first \in Nat /\ EndOf(s[j]) \in Nat
                             /\ s[j].second \in Nat
  BY BlockFields DEF EndOf
<1>2. ASSUME NEW x \in 0 .. vtcmAllocatedSize - 1, Holds(h, x)
      PROVE  \E j \in 1 .. Len(s) : Holds(s[j], x)
  <2>1. \A a \in A : ~Holds(a, x)
    <3> SUFFICES ASSUME NEW a \in A, Holds(a, x) PROVE FALSE
      OBVIOUS
    <3>1. a.first \in Nat /\ a.second \in Nat /\ Disjoint(h, a)
      BY BlockFields
    <3> QED BY <3>1, <1>0, <1>2 DEF Holds, Disjoint, EndOf
  <2> QED BY <2>1 DEF Layout, Covered
<1>3. h.first \in 0 .. vtcmAllocatedSize - 1 /\ Holds(h, h.first)
  BY <1>0, SizeNat DEF EndOf, Holds
<1>4. PICK k \in 1 .. Len(s) : Holds(s[k], h.first)
  BY <1>2, <1>3
<1>5. EndOf(h) <= EndOf(s[k])
  <2> SUFFICES ASSUME EndOf(s[k]) < EndOf(h) PROVE FALSE
    BY <1>0, <1>1
  <2>1. EndOf(s[k]) \in 0 .. vtcmAllocatedSize - 1 /\ Holds(h, EndOf(s[k]))
    BY <1>0, <1>1, <1>4, SizeNat DEF Holds
  <2>2. PICK j \in 1 .. Len(s) : Holds(s[j], EndOf(s[k]))
    BY <1>2, <2>1
  <2>3. k < j => EndOf(s[k]) < s[j].first
    BY DEF Layout, Ordered
  <2>4. j < k => EndOf(s[j]) < s[k].first
    BY DEF Layout, Ordered
  <2>5. j < k \/ j = k \/ k < j
    OBVIOUS
  <2>6. /\ s[j].first <= EndOf(s[k]) /\ EndOf(s[k]) < EndOf(s[j])
        /\ s[k].first <= h.first /\ h.first < EndOf(s[k])
    BY <2>2, <1>4 DEF Holds
  <2> QED BY <2>3, <2>4, <2>5, <2>6, <1>0, <1>1
<1>6. s[k].second >= h.second
  <2>1. s[k].first <= h.first
    BY <1>4 DEF Holds
  <2> QED BY <2>1, <1>0, <1>1, <1>5 DEF EndOf
<1> QED BY <1>6

\* Every step of the pool is a step of the abstract allocator, or changes
\* nothing it can see.
LEMMA NextImplements ==
    PoolInv /\ [Next]_vars => [Abstract!Next]_(Abstract!vars)
<1> SUFFICES ASSUME PoolInv, [Next]_vars
             PROVE  [Abstract!Next]_(Abstract!vars)
  OBVIOUS
<1>0. /\ allocations \in SUBSET Block /\ free \in Seq(Block)
      /\ Layout(allocations, free) /\ DOMAIN free = 1 .. Len(free)
      /\ \A j \in 1 .. Len(free) : free[j] \in Block
  BY PoolInvLayout DEF TypeOK
<1>1. CASE UNCHANGED vars
  BY <1>1 DEF vars, Abstract!vars
\* The part of a free entry that is handed out is a hole.
<1>2. ASSUME status = "ok", NEW n \in Requests, n # 0,
             NEW i \in 1 .. Len(free), NEW ptr \in Nat,
             free[i].first <= ptr, ptr + alignSize(n) <= EndOf(free[i]),
             Take(n, ptr)
      PROVE  Abstract!Next
  <2>1. alignSize(n) \in Nat /\ alignSize(n) > 0
    BY <1>2, PoolAssumption, AlignSizeBounds
  <2> DEFINE h == [first |-> ptr, second |-> alignSize(n)]
  <2>2. h \in Block /\ h.first = ptr /\ h.second = alignSize(n)
    BY <2>1 DEF Block
  <2>3. EndOf(free[i]) <= vtcmAllocatedSize /\ EndOf(free[i]) \in Nat
    BY <1>0, BlockFields DEF Layout, Ordered, InPool, EndOf
  <2>4. ASSUME NEW a \in allocations
        PROVE  Disjoint(h, a)
    <3>1. Disjoint(a, free[i])
      BY <1>0 DEF Layout, LiveNotFree
    <3>2. free[i].first <= h.first /\ EndOf(h) <= EndOf(free[i])
      BY <1>2, <2>2 DEF EndOf
    <3> HIDE DEF h
    <3> QED BY <1>0, <2>2, <3>1, <3>2, WithinDisjoint
  <2>5. ptr \in 0 .. vtcmAllocatedSize - alignSize(n) /\ ptr \in 0 .. vtcmAllocatedSize
    BY <1>2, <2>1, <2>3, SizeNat
  <2>6. ptr \in Abstract!Holes(alignSize(n))
    BY <2>4, <2>5 DEF Abstract!Holes, Abstract!Apart, Disjoint, EndOf
  <2>7. Abstract!Succeed(n, ptr)
    BY <1>2, <2>6 DEF Abstract!Succeed, Take
  <2> QED BY <1>2, <2>5, <2>7 DEF Abstract!Next
<1>3. ASSUME status = "ok", NEW n \in Requests, AllocateFromEnd(n)
      PROVE  Abstract!Next
  <2> DEFINE last == free[Len(free)]
             ptr == last.first + (last.second - alignSize(n))
  <2>1. n \in Nat /\ n # 0 /\ alignSize(n) \in Nat
    BY <1>3, PoolAssumption, AlignSizeBounds DEF AllocateFromEnd
  <2>2. Len(free) \in 1 .. Len(free) /\ last \in Block /\ alignSize(n) <= last.second
    BY <1>0, <1>3 DEF AllocateFromEnd, EndFits
  <2>3. Take(n, ptr)
    BY <1>3 DEF AllocateFromEnd
  <2>4. ptr \in Nat /\ last.first <= ptr /\ ptr + alignSize(n) <= EndOf(last)
    BY <2>1, <2>2, BlockFields DEF EndOf
  <2> QED BY <1>2, <1>3, <2>1, <2>2, <2>3, <2>4
<1>4. ASSUME status = "ok", NEW n \in Requests, AllocateBestFit(n)
      PROVE  Abstract!Next
  <2>1. n \in Nat /\ n # 0 /\ alignSize(n) \in Nat
    BY <1>4, PoolAssumption, AlignSizeBounds DEF AllocateBestFit
  <2>2. PICK i \in findBestFit(alignSize(n)) : Take(n, free[i].first)
    BY <1>4 DEF AllocateBestFit
  <2>3. i \in 1 .. Len(free) /\ free[i] \in Block /\ free[i].second >= alignSize(n)
    BY <1>0 DEF findBestFit, Fits
  <2>4. free[i].first \in Nat /\ free[i].first + alignSize(n) <= EndOf(free[i])
    BY <2>1, <2>3, BlockFields DEF EndOf
  <2> QED BY <1>2, <1>4, <2>1, <2>2, <2>3, <2>4
<1>5. ASSUME status = "ok", NEW n \in Requests, AllocateFails(n)
      PROVE  Abstract!Next
  <2>1. n \in Nat /\ alignSize(n) \in Nat
    BY PoolAssumption, AlignSizeBounds
  <2>2. n # 0 => Abstract!Holes(alignSize(n)) = {}
    <3> SUFFICES ASSUME n # 0, NEW p \in Abstract!Holes(alignSize(n)) PROVE FALSE
      OBVIOUS
    <3>1. alignSize(n) > 0
      BY <2>1, AlignSizeBounds
    <3>2. /\ p \in 0 .. vtcmAllocatedSize - alignSize(n)
          /\ \A a \in allocations : Disjoint([first |-> p, second |-> alignSize(n)], a)
      BY DEF Abstract!Holes, Abstract!Apart, Disjoint, EndOf
    <3>3. p \in Nat /\ p + alignSize(n) <= vtcmAllocatedSize
      BY <2>1, <3>2, SizeNat
    <3> DEFINE h == [first |-> p, second |-> alignSize(n)]
    <3>4. h \in Block /\ h.second = alignSize(n) /\ InPool(h)
      BY <2>1, <3>1, <3>3 DEF Block, InPool, EndOf
    <3>5. \A a \in allocations : Disjoint(h, a)
      BY <3>2
    <3> HIDE DEF h
    <3>6. PICK i \in 1 .. Len(free) : free[i].second >= alignSize(n)
      BY <1>0, <3>4, <3>5, HoleInFreeBlock
    <3>7. Fits(alignSize(n)) # {}
      BY <1>0, <3>6 DEF Fits
    <3>8. ~(alignSize(n) > vtcmAllocatedSize)
      BY <2>1, <3>3, SizeNat
    <3> QED BY <1>5, <3>7, <3>8 DEF AllocateFails
  <2>3. Abstract!Fail(n)
    BY <1>5, <2>2 DEF AllocateFails, Abstract!Fail
  <2> QED BY <1>5, <2>3 DEF Abstract!Next
<1>6. ASSUME status = "ok", NEW ptr \in Addr \cup {NullPtr}, NEW n \in Requests,
             FreeAccepted(ptr, n)
      PROVE  Abstract!Next
  <2> DEFINE b == [first |-> ptr, second |-> alignSize(n)]
  <2>1. b \in allocations /\ b.first = ptr /\ allocations' = allocations \ {b}
        /\ ret' = ret
    BY <1>6 DEF FreeAccepted
  <2>2. PICK i \in LowerBound(ptr) : status' = CoalesceCheck(b, i)
    BY <1>6 DEF FreeAccepted
  <2> HIDE DEF b
  <2>3. i \in LowerBound(b.first)
    BY <2>1, <2>2
  <2>4. status' = "ok"
    BY <1>0, <2>1, <2>2, <2>3, FreeKeepsLayout
  <2> QED BY <1>6, <2>1, <2>4 DEF Abstract!Next, Abstract!Release
<1>7. ASSUME status = "ok", NEW ptr \in Addr \cup {NullPtr}, NEW n \in Requests,
             FreeRejected(ptr, n)
      PROVE  Abstract!Next
  BY <1>7 DEF FreeRejected, Abstract!Next, Abstract!Misuse
<1>8. ASSUME status = "ok", Destroy
      PROVE  Abstract!Next
  BY <1>8 DEF Destroy, Abstract!Next, Abstract!Shutdown
<1> QED BY <1>1, <1>3, <1>4, <1>5, <1>6, <1>7, <1>8
        DEF Next, Allocate, Free, FreeNothing

\* The pool is a correct implementation of the allocator its clients see: an
\* Allocate returns nullptr only when no contiguous hole is large enough.
THEOREM PoolRefinesAllocator == Spec => ImplementsAllocator
<1>1. Init => Abstract!Init
  BY DEF Init, Abstract!Init
<1> QED BY <1>1, PoolInvariant, NextImplements, PTL
        DEF Spec, ImplementsAllocator, Abstract!Spec


-----------------------------------------------------------------------------
(***************************************************************************)
(* Sizes: the two roundings of a request leave room for every row.          *)
(***************************************************************************)
\* What the constructor of a buffer asks for and what it gets, and the place of
\* its rows in that.
LEMMA BufferSizes ==
    ASSUME NEW r \in Shapes
    PROVE  /\ nbytesAligned(r) \in Nat /\ r.nbytes \in Nat
           /\ allocatedBytes(r) \in Nat
           /\ \A i \in Rows(r) :
                 /\ i * nbytesAligned(r) \in Nat
                 /\ i * nbytesAligned(r) + r.nbytes <= allocatedBytes(r)
<1>1. /\ r.rows \in Nat /\ r.nbytes \in Nat /\ r.alignment \in Nat \ {0}
  BY BufferAssumption DEF Shape
<1>2. PICK w : w = nbytesAligned(r)
  OBVIOUS
<1>3. w \in Nat /\ w >= r.nbytes
  BY <1>1, <1>2, RoundUpBounds DEF nbytesAligned
<1>4. PICK m : m = nbytesMonolithic(r)
  OBVIOUS
<1>5. m \in Nat
  BY <1>1, <1>2, <1>3, <1>4 DEF nbytesMonolithic
<1>6. allocatedBytes(r) \in Nat /\ allocatedBytes(r) >= m
  BY <1>4, <1>5, RoundUpBounds, PoolAssumption DEF allocatedBytes
<1>7. ASSUME NEW i \in Rows(r)
      PROVE  i * w \in Nat /\ i * w + r.nbytes <= m
  <2>1. CASE r.rows = 0
    <3>1. i = 0 /\ m = r.nbytes
      BY <1>4, <2>1 DEF Rows, nbytesMonolithic
    <3>2. i * w = 0
      BY <1>3, <3>1
    <3> QED BY <1>1, <3>1, <3>2
  <2>2. CASE r.rows # 0
    <3>1. i \in Nat /\ r.rows - 1 - i \in Nat /\ m = r.rows * w
      BY <1>1, <1>2, <1>4, <2>2 DEF Rows, nbytesMonolithic
    <3>2. PICK k \in Nat : k = r.rows - 1 - i
      BY <3>1
    <3>3. m = i * w + w + k * w
      BY <1>1, <1>3, <3>1, <3>2
    <3>4. k * w \in Nat /\ i * w \in Nat
      BY <1>3, <3>1, <3>2
    <3> QED BY <1>1, <1>3, <3>3, <3>4
  <2> QED BY <2>1, <2>2
<1> QED BY <1>1, <1>2, <1>3, <1>5, <1>6, <1>7

-----------------------------------------------------------------------------
(***************************************************************************)
(* The inductive invariant.                                                 *)
(***************************************************************************)
\* As long as nothing aborted, the lists of the pool are right.
PoolWhileRunning == status \in {"ok", "released"} => PoolInv

\* A buffer's memory comes from the allocator its shape names, a pointer into
\* the pool is the block itself, and a block is missing only after exhaustion.
KeysByKind ==
    \A p \in DOMAIN bufferMap :
        /\ bufferMap[p].shape.isVtcm => bufferMap[p].data \in Nat \cup {NullPtr}
        /\ ~bufferMap[p].shape.isVtcm => bufferMap[p].data \in HeapPtrs
        /\ p \in Nat => bufferMap[p].data = p
        /\ bufferMap[p].data = NullPtr => exhausted

\* The only CHECK that can fire is that of an unknown pointer; the pool is
\* gone when the session is closed; outside an open session nobody holds a
\* pointer.
SessionStatus ==
    /\ status \in {"ok", "released", "unknown allocation"}
    /\ status = "released" <=> session = "closed"
    /\ session # "open" => \A c \in Clients : held[c] = None

HeldTypeOK == held \in [Clients -> Pointer \cup {None}]

BufferIInv ==
    /\ BufferTypeOK /\ HeldTypeOK
    /\ SessionStatus
    /\ PoolWhileRunning
    /\ KeysByKind
    /\ MapMatchesPool
    /\ HandlesLive
    /\ ReleasedEmpty
    /\ OnlyExhaustionAborts

\* Blocks of different buffers are disjoint, so the rows in them are.
LEMMA RowsInBlocks ==
    BufferIInv => ExtentsDisjoint
<1> SUFFICES ASSUME BufferIInv, status = "ok"
             PROVE  /\ \A p \in VtcmBuffers :
                          Extent(bufferMap[p]) \subseteq 0 .. vtcmAllocatedSize - 1
                    /\ \A p, q \in VtcmBuffers :
                          p # q => Extent(bufferMap[p]) \cap Extent(bufferMap[q]) = {}
  BY DEF ExtentsDisjoint
<1>1. AllocationsDisjoint
  BY DEF BufferIInv, PoolWhileRunning, PoolInv
<1>2. ASSUME NEW p \in VtcmBuffers
      PROVE  /\ BlockOf(p) \in allocations
             /\ BlockOf(p).first \in Nat /\ BlockOf(p).second \in Nat
             /\ \A x \in Extent(bufferMap[p]) :
                   x \in Nat /\ BlockOf(p).first <= x /\ x < EndOf(BlockOf(p))
  <2> DEFINE b == bufferMap[p]
             r == b.shape
  <2>1. r \in Shapes /\ b.data \in Nat
    BY DEF VtcmBuffers, BufferIInv, BufferTypeOK, KeysByKind
  <2>2. /\ BlockOf(p) \in allocations
        /\ BlockOf(p).first = b.data
        /\ BlockOf(p).second = alignSize(allocatedBytes(r))
    BY DEF BufferIInv, MapMatchesPool, BlockOf
  <2>3. /\ alignSize(allocatedBytes(r)) \in Nat
        /\ allocatedBytes(r) \in Nat
        /\ alignSize(allocatedBytes(r)) >= allocatedBytes(r)
    BY <2>1, BufferSizes, AlignSizeBounds
  <2>4. ASSUME NEW x \in Extent(bufferMap[p])
        PROVE  x \in Nat /\ b.data <= x /\ x < b.data + allocatedBytes(r)
    <3>1. PICK i \in Rows(r) :
             x \in (b.data + i * nbytesAligned(r)) ..
                      (b.data + i * nbytesAligned(r)) + r.nbytes - 1
      BY DEF Extent
    <3>2. PICK d : d = i * nbytesAligned(r)
      OBVIOUS
    <3>3. d \in Nat /\ d + r.nbytes <= allocatedBytes(r) /\ r.nbytes \in Nat
      BY <2>1, <3>2, BufferSizes
    <3>4. x \in (b.data + d) .. (b.data + d) + r.nbytes - 1
      BY <3>1, <3>2
    <3> QED BY <2>1, <2>3, <3>3, <3>4
  <2> QED BY <2>1, <2>2, <2>3, <2>4 DEF EndOf
<1>3. ASSUME NEW p \in VtcmBuffers
      PROVE  Extent(bufferMap[p]) \subseteq 0 .. vtcmAllocatedSize - 1
  <2>1. EndOf(BlockOf(p)) <= vtcmAllocatedSize
    BY <1>1, <1>2 DEF AllocationsDisjoint, InPool
  <2>2. EndOf(BlockOf(p)) \in Nat
    BY <1>2 DEF EndOf
  <2> QED BY <1>2, <2>1, <2>2, SizeNat
<1>4. ASSUME NEW p \in VtcmBuffers, NEW q \in VtcmBuffers, p # q
      PROVE  Extent(bufferMap[p]) \cap Extent(bufferMap[q]) = {}
  <2>1. BlockOf(p) # BlockOf(q)
    BY <1>4 DEF BufferIInv, MapMatchesPool, BlockOf
  <2>2. Disjoint(BlockOf(p), BlockOf(q))
    BY <1>1, <1>2, <2>1 DEF AllocationsDisjoint
  <2>3. EndOf(BlockOf(p)) \in Nat /\ EndOf(BlockOf(q)) \in Nat
    BY <1>2 DEF EndOf
  <2> QED BY <1>2, <2>2, <2>3 DEF Disjoint
<1> QED BY <1>3, <1>4

\* The invariant says what the runs check.
LEMMA BufferIInvGivesMapInv == BufferIInv => MapInv
  BY RowsInBlocks DEF BufferIInv, MapInv

-----------------------------------------------------------------------------
\* The session starts with an empty map and a pool in one piece.
LEMMA InitEstablishesBuffers == BufferInit => BufferIInv
<1> SUFFICES ASSUME BufferInit PROVE BufferIInv
  OBVIOUS
<1>1. PoolInv
  BY InitEstablishesPoolInv DEF BufferInit
<1>2. /\ bufferMap = <<>> /\ session = "open" /\ held = [c \in Clients |-> None]
      /\ exhausted = FALSE /\ allocations = {} /\ status = "ok"
  BY DEF BufferInit, Init
<1>3. DOMAIN bufferMap = {} /\ VtcmBuffers = {}
  BY <1>2 DEF VtcmBuffers
<1>4. MapMatchesPool
  BY <1>2, <1>3 DEF MapMatchesPool
<1>5. BufferTypeOK /\ HeldTypeOK
  BY <1>2, <1>3 DEF BufferTypeOK, HeldTypeOK
<1> QED BY <1>1, <1>2, <1>3, <1>4, <1>5
        DEF BufferIInv, SessionStatus, PoolWhileRunning, KeysByKind, HandlesLive,
            ReleasedEmpty, OnlyExhaustionAborts

\* Whether p holds a block is a matter of its own entry.
LEMMA VtcmEntry ==
    /\ VtcmBuffers \subseteq DOMAIN bufferMap
    /\ \A p \in DOMAIN bufferMap :
          p \in VtcmBuffers <=> bufferMap[p].shape.isVtcm /\ bufferMap[p].data # NullPtr
  BY DEF VtcmBuffers

\* A pointer newly handed out is not in the map, unless there was no memory.
LEMMA KeyIsNew ==
    ASSUME BufferIInv, status = "ok", NEW r \in Shapes, NEW data, data # NullPtr,
           \/ /\ r.isVtcm /\ data \in Addr
              /\ \A a \in allocations : a.first # data
           \/ ~r.isVtcm /\ data \in HeapPtrs \ HeapInUse,
           NEW key \in IF r.rows = 0 THEN {data} ELSE HeapPtrs \ (HeapInUse \cup {data})
    PROVE  key \notin DOMAIN bufferMap
<1> SUFFICES ASSUME key \in DOMAIN bufferMap PROVE FALSE
  OBVIOUS
<1>1. key \in HeapPtrs => key \in HeapInUse
  BY DEF HeapInUse
<1>2. key = data /\ r.isVtcm /\ data \in Nat
  BY <1>1, SizeNat DEF Addr
<1>3. bufferMap[key].data = data
  BY <1>2 DEF BufferIInv, KeysByKind
<1>4. bufferMap[key].shape.isVtcm
  BY <1>2, <1>3, BufferAssumption DEF BufferIInv, KeysByKind
<1>5. key \in VtcmBuffers
  BY <1>3, <1>4, VtcmEntry
<1>6. BlockOf(key) \in allocations /\ BlockOf(key).first = data
  BY <1>3, <1>5 DEF BufferIInv, MapMatchesPool, BlockOf
<1> QED BY <1>2, <1>6

\* Handing a new buffer out keeps the invariant, whether it got memory or not.
LEMMA HandOutKeepsBuffers ==
    ASSUME BufferIInv, MayCall, NEW c \in Clients, NEW r \in Shapes, NEW data,
           HandOut(c, r, data), PoolInv', status' = "ok",
           \/ /\ r.isVtcm /\ data \in Addr
              /\ allocations' = allocations \cup
                    {[first |-> data, second |-> alignSize(allocatedBytes(r))]}
              /\ \A a \in allocations : a.first # data
           \/ ~r.isVtcm /\ data \in HeapPtrs \ HeapInUse /\ allocations' = allocations
           \/ r.isVtcm /\ data = NullPtr /\ allocations' = allocations
    PROVE  BufferIInv'
<1> DEFINE b == [data |-> data, shape |-> r]
           block == [first |-> data, second |-> alignSize(allocatedBytes(r))]
<1>0. status = "ok" /\ session = "open"
  BY DEF MayCall
<1>1. PICK key \in IF r.rows = 0 THEN {data} ELSE HeapPtrs \ (HeapInUse \cup {data}) :
         /\ Insert(key, b)
         /\ held' = [held EXCEPT ![c] = key]
         /\ exhausted' = (exhausted \/ data = NullPtr)
         /\ session' = session
  BY DEF HandOut
<1>2. data \in Pointer /\ key \in Pointer /\ b.data = data /\ b.shape = r
  BY <1>1 DEF Pointer, Addr
<1>3. /\ NullPtr \notin Nat /\ NullPtr \notin HeapPtrs
      /\ \A x \in HeapPtrs : x \notin Nat
      /\ \A x \in Addr : x \in Nat
  BY PoolAssumption, BufferAssumption, SizeNat DEF Addr
<1>4. data # NullPtr => key \notin DOMAIN bufferMap
  BY <1>0, <1>1, KeyIsNew
<1>5. \/ data = NullPtr /\ bufferMap' = bufferMap
      \/ key \notin DOMAIN bufferMap /\ bufferMap' = Put(bufferMap, key, b)
  BY <1>1, <1>4 DEF Insert
<1>6. /\ BufferTypeOK /\ HeldTypeOK /\ SessionStatus /\ KeysByKind
      /\ MapMatchesPool /\ HandlesLive
  BY DEF BufferIInv
<1> HIDE DEF b
<1>7. HeldTypeOK' /\ \A e \in Clients : held'[e] = IF e = c THEN key ELSE held[e]
  BY <1>1, <1>2, <1>6 DEF HeldTypeOK, Pointer
<1>8. SessionStatus' /\ PoolWhileRunning' /\ ReleasedEmpty' /\ OnlyExhaustionAborts'
  BY <1>0, <1>1, <1>6
     DEF SessionStatus, PoolWhileRunning, ReleasedEmpty, OnlyExhaustionAborts
<1>9. exhausted \in BOOLEAN /\ exhausted' \in BOOLEAN
  BY <1>1, <1>6 DEF BufferTypeOK
<1>10. CASE data = NullPtr /\ bufferMap' = bufferMap
  <2>1. exhausted' /\ allocations' = allocations
    BY <1>1, <1>3, <1>10
  <2>2. BufferTypeOK'
    BY <1>0, <1>1, <1>6, <1>7, <1>9, <1>10 DEF BufferTypeOK, HeldTypeOK, Pointer
  <2>3. KeysByKind'
    BY <1>6, <1>10, <2>1 DEF KeysByKind
  <2>4. MapMatchesPool'
    BY <1>0, <1>6, <1>10, <2>1 DEF MapMatchesPool, VtcmBuffers, BlockOf
  <2>5. HandlesLive'
    BY <2>1 DEF HandlesLive
  <2> QED BY <1>7, <1>8, <2>2, <2>3, <2>4, <2>5 DEF BufferIInv
<1>11. CASE key \notin DOMAIN bufferMap /\ bufferMap' = Put(bufferMap, key, b)
  <2>1. /\ DOMAIN bufferMap' = DOMAIN bufferMap \cup {key}
        /\ bufferMap'[key] = b
        /\ \A p \in DOMAIN bufferMap : p # key /\ bufferMap'[p] = bufferMap[p]
    BY <1>11 DEF Put
  <2>2. BufferTypeOK'
    <3>1. b \in [data : Pointer, shape : Shapes]
      BY <1>2 DEF b
    <3> QED BY <1>0, <1>1, <1>2, <1>6, <1>7, <1>9, <2>1, <3>1
            DEF BufferTypeOK, HeldTypeOK, Pointer
  <2>3. KeysByKind'
    <3>1. exhausted => exhausted'
      BY <1>1
    <3>2. /\ r.isVtcm => data \in Nat \cup {NullPtr}
          /\ ~r.isVtcm => data \in HeapPtrs
          /\ data = NullPtr => exhausted'
      BY <1>1, <1>3
    <3>3. key \in Nat => data = key
      BY <1>1, <1>3
    <3> QED BY <1>2, <1>6, <2>1, <3>1, <3>2, <3>3 DEF KeysByKind
  <2>4. VtcmBuffers' = VtcmBuffers \cup (IF r.isVtcm /\ data # NullPtr THEN {key} ELSE {})
    BY <1>2, <2>1 DEF VtcmBuffers
  <2>5. /\ key \notin VtcmBuffers
        /\ \A p \in VtcmBuffers : bufferMap'[p] = bufferMap[p]
    BY <1>11, <2>1, VtcmEntry
  <2>6. {BlockOf(p) : p \in VtcmBuffers} = allocations
    BY <1>0, <1>6 DEF MapMatchesPool
  <2>7. MapMatchesPool'
    <3>1. CASE r.isVtcm /\ data # NullPtr
      <4>1. /\ allocations' = allocations \cup {block}
            /\ \A a \in allocations : a.first # data
        BY <3>1
      <4>2. VtcmBuffers' = VtcmBuffers \cup {key}
        BY <2>4, <3>1
      <4>3. ASSUME NEW p \in VtcmBuffers PROVE bufferMap[p].data # data
        <5>1. BlockOf(p) \in allocations
          BY <2>6
        <5>2. BlockOf(p).first = bufferMap[p].data
          BY DEF BlockOf
        <5> QED BY <4>1, <5>1, <5>2
      <4>4. [first |-> bufferMap'[key].data,
             second |-> alignSize(allocatedBytes(bufferMap'[key].shape))] = block
        BY <1>2, <2>1
      <4>5. \A p \in VtcmBuffers :
               [first |-> bufferMap'[p].data,
                second |-> alignSize(allocatedBytes(bufferMap'[p].shape))] = BlockOf(p)
        BY <2>5 DEF BlockOf
      <4>6. {[first |-> bufferMap'[p].data,
              second |-> alignSize(allocatedBytes(bufferMap'[p].shape))] :
                 p \in VtcmBuffers \cup {key}} = allocations \cup {block}
        BY <2>6, <4>4, <4>5
      <4>7. \A p, q \in VtcmBuffers \cup {key} :
               p # q => bufferMap'[p].data # bufferMap'[q].data
        BY <1>0, <1>2, <1>6, <2>1, <2>5, <4>3 DEF MapMatchesPool
      <4> QED BY <4>1, <4>2, <4>6, <4>7 DEF MapMatchesPool, BlockOf
    <3>2. CASE ~(r.isVtcm /\ data # NullPtr)
      <4>1. allocations' = allocations /\ VtcmBuffers' = VtcmBuffers
        BY <1>3, <2>4, <3>2
      <4>2. {[first |-> bufferMap'[p].data,
              second |-> alignSize(allocatedBytes(bufferMap'[p].shape))] :
                 p \in VtcmBuffers} = allocations
        BY <2>5, <2>6 DEF BlockOf
      <4>3. \A p, q \in VtcmBuffers :
               p # q => bufferMap'[p].data # bufferMap'[q].data
        BY <1>0, <1>6, <2>5 DEF MapMatchesPool
      <4> QED BY <4>1, <4>2, <4>3 DEF MapMatchesPool, BlockOf
    <3> QED BY <3>1, <3>2
  <2>8. HandlesLive'
    <3> SUFFICES ASSUME ~exhausted', NEW e \in Clients, held'[e] # None
                 PROVE  /\ held'[e] \in DOMAIN bufferMap'
                        /\ \A d \in Clients : d # e => held'[d] # held'[e]
      BY DEF HandlesLive
    <3>1. \A f \in Clients : held[f] # None =>
             /\ held[f] \in DOMAIN bufferMap
             /\ \A d \in Clients : d # f => held[d] # held[f]
      BY <1>0, <1>1, <1>6 DEF HandlesLive
    <3>2. key # None
      BY <1>2, BufferAssumption, SizeNat DEF Pointer
    <3>3. \A f \in Clients : held[f] # key
      BY <1>11, <3>1, <3>2
    <3> QED BY <1>7, <2>1, <3>1, <3>3
  <2> QED BY <1>7, <1>8, <2>2, <2>3, <2>7, <2>8 DEF BufferIInv
<1> QED BY <1>5, <1>10, <1>11

\* A buffer that dies gives its block back: the pool accepts the pointer and the
\* size, and the map without the entry matches the lists again.
LEMMA RemoveKeepsBuffers ==
    ASSUME BufferIInv, status = "ok", NEW p \in DOMAIN bufferMap,
           FreeBlock(bufferMap[p]), bufferMap' = Without(bufferMap, p),
           exhausted' = exhausted
    PROVE  /\ PoolInv' /\ status' = "ok"
           /\ DOMAIN bufferMap' = DOMAIN bufferMap \ {p}
           /\ \A q \in DOMAIN bufferMap' : bufferMap'[q] = bufferMap[q]
           /\ KeysByKind' /\ MapMatchesPool'
<1> DEFINE n == allocatedBytes(bufferMap[p].shape)
<1>0. /\ PoolInv /\ KeysByKind /\ MapMatchesPool /\ BufferTypeOK
      /\ NullPtr \notin Nat /\ NullPtr \notin HeapPtrs
  BY PoolAssumption, BufferAssumption DEF BufferIInv, PoolWhileRunning
<1>1. /\ DOMAIN bufferMap' = DOMAIN bufferMap \ {p}
      /\ \A q \in DOMAIN bufferMap' : bufferMap'[q] = bufferMap[q]
  BY DEF Without
<1>2. KeysByKind'
  BY <1>0, <1>1 DEF KeysByKind
<1>3. VtcmBuffers' = VtcmBuffers \ {p}
  BY <1>1 DEF VtcmBuffers
<1>4. /\ PoolInv' /\ status' = "ok"
      /\ allocations' = IF p \in VtcmBuffers THEN allocations \ {BlockOf(p)}
                        ELSE allocations
  <2>1. CASE p \in VtcmBuffers
    <3>1. bufferMap[p].shape.isVtcm /\ bufferMap[p].data # NullPtr
      BY <2>1 DEF VtcmBuffers
    <3>2. n \in Nat
      BY <1>0, BufferSizes DEF BufferTypeOK
    <3>3. BlockOf(p) \in allocations /\ BlockOf(p).second = alignSize(n)
      BY <1>0, <2>1 DEF MapMatchesPool, BlockOf
    <3>4. n # 0
      <4>1. alignSize(n) > 0
        BY <1>0, <3>3 DEF PoolInv, AllocationsDisjoint, InPool
      <4>2. n = 0 => alignSize(n) = 0
        <5>1. \A a \in Nat \ {0} : ((0 + (a - 1)) \div a) * a = 0
          OBVIOUS
        <5> QED BY <5>1, PoolAssumption DEF alignSize, RoundUp
      <4> QED BY <4>1, <4>2
    <3>5. Free(bufferMap[p].data, n)
      BY <3>1 DEF FreeBlock
    <3>6. FreeAccepted(bufferMap[p].data, n)
      BY <3>1, <3>3, <3>4, <3>5 DEF Free, FreeRejected, FreeNothing, BlockOf
    <3>7. PoolInv' /\ status' = "ok"
      BY <1>0, <3>6, FreeAcceptedKeepsPoolInv
    <3>8. allocations' = allocations \ {BlockOf(p)}
      BY <3>6 DEF FreeAccepted, BlockOf
    <3> QED BY <2>1, <3>7, <3>8
  <2>2. CASE p \notin VtcmBuffers
    <3>1. UNCHANGED vars
      <4>1. CASE bufferMap[p].shape.isVtcm
        <5>1. bufferMap[p].data = NullPtr
          BY <2>2, <4>1, VtcmEntry
        <5> QED BY <4>1, <5>1 DEF FreeBlock, Free, FreeAccepted, FreeRejected, FreeNothing
      <4>2. CASE ~bufferMap[p].shape.isVtcm
        BY <4>2 DEF FreeBlock
      <4> QED BY <4>1, <4>2
    <3>2. PoolInv'
      BY <1>0, <3>1, NextKeepsPoolInv
    <3> QED BY <2>2, <3>1, <3>2 DEF vars
  <2> QED BY <2>1, <2>2
<1>5. /\ {BlockOf(q) : q \in VtcmBuffers} = allocations
      /\ \A q, r \in VtcmBuffers : q # r => bufferMap[q].data # bufferMap[r].data
  BY <1>0 DEF MapMatchesPool
<1>6. \A q \in VtcmBuffers \ {p} : bufferMap'[q] = bufferMap[q]
  BY <1>1, VtcmEntry
<1>7. {[first |-> bufferMap'[q].data,
        second |-> alignSize(allocatedBytes(bufferMap'[q].shape))] :
           q \in VtcmBuffers \ {p}} = allocations'
  <2>1. \A q \in VtcmBuffers \ {p} :
           [first |-> bufferMap'[q].data,
            second |-> alignSize(allocatedBytes(bufferMap'[q].shape))] = BlockOf(q)
    BY <1>6 DEF BlockOf
  <2>2. {[first |-> bufferMap'[q].data,
          second |-> alignSize(allocatedBytes(bufferMap'[q].shape))] :
             q \in VtcmBuffers \ {p}} = {BlockOf(q) : q \in VtcmBuffers \ {p}}
    BY <2>1
  <2>3. CASE p \in VtcmBuffers
    <3>1. \A q \in VtcmBuffers : BlockOf(q) = BlockOf(p) => q = p
      BY <1>5, <2>3 DEF BlockOf
    <3>2. {BlockOf(q) : q \in VtcmBuffers \ {p}} = allocations \ {BlockOf(p)}
      BY <1>5, <3>1
    <3> QED BY <1>4, <2>2, <2>3, <3>2
  <2>4. CASE p \notin VtcmBuffers
    BY <1>4, <1>5, <2>2, <2>4
  <2> QED BY <2>3, <2>4
<1>8. \A q, r \in VtcmBuffers \ {p} : q # r => bufferMap'[q].data # bufferMap'[r].data
  BY <1>5, <1>6
<1>9. MapMatchesPool'
  BY <1>3, <1>7, <1>8 DEF MapMatchesPool, BlockOf
<1> QED BY <1>1, <1>2, <1>4, <1>9

-----------------------------------------------------------------------------
\* Every step of the session keeps the invariant.
LEMMA NextKeepsBuffers == BufferIInv /\ [BufferNext]_allVars => BufferIInv'
<1> SUFFICES ASSUME BufferIInv, [BufferNext]_allVars PROVE BufferIInv'
  OBVIOUS
<1>0. /\ BufferTypeOK /\ HeldTypeOK /\ SessionStatus /\ PoolWhileRunning
      /\ KeysByKind /\ MapMatchesPool /\ HandlesLive /\ ReleasedEmpty
      /\ OnlyExhaustionAborts
  BY DEF BufferIInv
<1>1. ASSUME NEW c \in Clients, NEW r \in Shapes, AllocVtcm(c, r)
      PROVE  BufferIInv'
  <2>1. status = "ok" /\ PoolInv
    BY <1>0, <1>1 DEF AllocVtcm, MayCall, PoolWhileRunning
  <2>2. PICK data : data = ret'.ptr
    OBVIOUS
  <2>3. PICK n \in Nat : n = allocatedBytes(r)
    BY BufferSizes
  <2>4. Allocate(n)
    BY <1>1, <2>3 DEF AllocVtcm
  <2>5. /\ PoolInv' /\ status' = "ok"
        /\ \/ data = NullPtr /\ allocations' = allocations
           \/ /\ data \in Addr
              /\ allocations' =
                    allocations \cup {[first |-> data, second |-> alignSize(n)]}
              /\ \A a \in allocations : a.first # data
    BY <2>1, <2>2, <2>4, AllocateKeepsPoolInv
  <2>6. MayCall /\ HandOut(c, r, data) /\ r.isVtcm
    BY <1>1, <2>2 DEF AllocVtcm
  <2> QED BY <2>3, <2>5, <2>6, HandOutKeepsBuffers
<1>2. ASSUME NEW c \in Clients, NEW r \in Shapes, AllocDDR(c, r)
      PROVE  BufferIInv'
  <2>1. PICK data \in HeapPtrs \ HeapInUse : HandOut(c, r, data)
    BY <1>2 DEF AllocDDR
  <2>2. MayCall /\ ~r.isVtcm /\ UNCHANGED vars
    BY <1>2 DEF AllocDDR
  <2>3. status = "ok" /\ PoolInv
    BY <1>0, <2>2 DEF MayCall, PoolWhileRunning
  <2>4. PoolInv'
    BY <2>2, <2>3, NextKeepsPoolInv
  <2> QED BY <2>1, <2>2, <2>3, <2>4, HandOutKeepsBuffers DEF vars
<1>3. ASSUME NEW c \in Clients, FreeKnown(c)
      PROVE  BufferIInv'
  <2>1. PICK p : p = held[c]
    OBVIOUS
  <2>2. /\ status = "ok" /\ session = "open" /\ p \in DOMAIN bufferMap /\ p # None
        /\ FreeBlock(bufferMap[p]) /\ bufferMap' = Without(bufferMap, p)
        /\ held' = [held EXCEPT ![c] = None]
        /\ session' = session /\ exhausted' = exhausted
    BY <1>3, <2>1 DEF FreeKnown, MayCall
  <2>3. /\ PoolInv' /\ status' = "ok"
        /\ DOMAIN bufferMap' = DOMAIN bufferMap \ {p}
        /\ \A q \in DOMAIN bufferMap' : bufferMap'[q] = bufferMap[q]
        /\ KeysByKind' /\ MapMatchesPool'
    BY <2>2, RemoveKeepsBuffers
  <2>4. /\ HeldTypeOK'
        /\ \A e \in Clients : held'[e] = IF e = c THEN None ELSE held[e]
    BY <1>0, <2>2 DEF HeldTypeOK, Pointer
  <2>5. BufferTypeOK'
    BY <1>0, <2>2, <2>3, <2>4 DEF BufferTypeOK, HeldTypeOK, Pointer
  <2>6. HandlesLive'
    <3> SUFFICES ASSUME ~exhausted', NEW e \in Clients, held'[e] # None
                 PROVE  /\ held'[e] \in DOMAIN bufferMap'
                        /\ \A d \in Clients : d # e => held'[d] # held'[e]
      BY DEF HandlesLive
    <3>1. e # c /\ held'[e] = held[e]
      BY <2>4
    <3>2. \A f \in Clients : held[f] # None =>
             /\ held[f] \in DOMAIN bufferMap
             /\ \A d \in Clients : d # f => held[d] # held[f]
      BY <1>0, <2>2 DEF HandlesLive
    <3>3. held[e] \in DOMAIN bufferMap /\ held[e] # p
      BY <2>1, <3>1, <3>2
    <3> QED BY <2>3, <2>4, <3>1, <3>2, <3>3
  <2> QED BY <1>0, <2>2, <2>3, <2>4, <2>5, <2>6
          DEF BufferIInv, SessionStatus, PoolWhileRunning, ReleasedEmpty,
              OnlyExhaustionAborts
<1>4. ASSUME NEW c \in Clients, FreeUnknown(c)
      PROVE  BufferIInv'
  <2>1. /\ status' = "unknown allocation" /\ UNCHANGED bufferVars
        /\ allocations' = allocations
        /\ held[c] # None /\ held[c] \notin DOMAIN bufferMap /\ session = "open"
    BY <1>4 DEF FreeUnknown, MayCall
  <2>2. exhausted
    BY <1>0, <2>1 DEF HandlesLive
  <2>3. BufferTypeOK' /\ HeldTypeOK'
    BY <1>0, <2>1 DEF bufferVars, BufferTypeOK, HeldTypeOK, Pointer
  <2>4. KeysByKind'
    BY <1>0, <2>1 DEF bufferVars, KeysByKind
  <2> QED BY <1>0, <2>1, <2>2, <2>3, <2>4
          DEF bufferVars, BufferIInv, SessionStatus, PoolWhileRunning, HandlesLive,
              MapMatchesPool, ReleasedEmpty, OnlyExhaustionAborts
<1>5. CASE BeginRelease
  <2>1. /\ UNCHANGED vars /\ bufferMap' = bufferMap /\ exhausted' = exhausted
        /\ status = "ok" /\ session' = "releasing"
        /\ held' = [c \in Clients |-> None]
    BY <1>5 DEF BeginRelease
  <2>2. PoolInv'
    BY <1>0, <2>1, NextKeepsPoolInv DEF PoolWhileRunning
  <2>3. BufferTypeOK' /\ HeldTypeOK'
    BY <1>0, <2>1 DEF BufferTypeOK, HeldTypeOK, Pointer
  <2>4. KeysByKind' /\ MapMatchesPool'
    BY <1>0, <2>1 DEF vars, KeysByKind, MapMatchesPool, VtcmBuffers, BlockOf
  <2> QED BY <1>0, <2>1, <2>2, <2>3, <2>4
          DEF vars, BufferIInv, SessionStatus, PoolWhileRunning, HandlesLive,
              ReleasedEmpty, OnlyExhaustionAborts
<1>6. ASSUME NEW p \in DOMAIN bufferMap, DestroyBuffer(p)
      PROVE  BufferIInv'
  <2>1. /\ status = "ok" /\ session = "releasing" /\ FreeBlock(bufferMap[p])
        /\ bufferMap' = Without(bufferMap, p)
        /\ session' = session /\ held' = held /\ exhausted' = exhausted
    BY <1>6 DEF DestroyBuffer
  <2>2. /\ PoolInv' /\ status' = "ok"
        /\ DOMAIN bufferMap' = DOMAIN bufferMap \ {p}
        /\ \A q \in DOMAIN bufferMap' : bufferMap'[q] = bufferMap[q]
        /\ KeysByKind' /\ MapMatchesPool'
    BY <2>1, RemoveKeepsBuffers
  <2>3. BufferTypeOK' /\ HeldTypeOK'
    BY <1>0, <2>1, <2>2 DEF BufferTypeOK, HeldTypeOK, Pointer
  <2> QED BY <1>0, <2>1, <2>2, <2>3
          DEF BufferIInv, SessionStatus, PoolWhileRunning, HandlesLive, ReleasedEmpty,
              OnlyExhaustionAborts
<1>7. CASE ReleasePool
  <2>1. /\ status = "ok" /\ bufferMap = <<>> /\ session' = "closed"
        /\ status' = "released" /\ allocations' = allocations
        /\ free' = free /\ ret' = ret
        /\ bufferMap' = bufferMap /\ held' = held /\ exhausted' = exhausted
        /\ session = "releasing"
    BY <1>7 DEF ReleasePool, Destroy
  <2>2. PoolInv'
    <3>1. Next
      BY <1>7, <2>1 DEF ReleasePool, Next
    <3> QED BY <1>0, <2>1, <3>1, NextKeepsPoolInv DEF PoolWhileRunning
  <2>3. allocations = {}
    BY <1>0, <2>1, VtcmEntry DEF MapMatchesPool
  <2>4. BufferTypeOK' /\ HeldTypeOK' /\ KeysByKind'
    BY <1>0, <2>1 DEF BufferTypeOK, HeldTypeOK, Pointer, KeysByKind
  <2> QED BY <1>0, <2>1, <2>2, <2>3, <2>4
          DEF BufferIInv, SessionStatus, PoolWhileRunning, HandlesLive, MapMatchesPool,
              ReleasedEmpty, OnlyExhaustionAborts
<1>8. CASE Acquire
  <2>1. /\ session = "closed" /\ bufferMap' = <<>> /\ session' = "open"
        /\ exhausted' = FALSE /\ status' = "ok" /\ allocations' = {} /\ held' = held
    BY <1>8 DEF Acquire
  <2>2. PoolInv'
    <3>1. Init'
      BY <1>8 DEF Acquire, Init
    <3> QED BY <3>1, InitEstablishesPoolInv, PTL
  <2>3. DOMAIN bufferMap' = {} /\ VtcmBuffers' = {}
    BY <2>1 DEF VtcmBuffers
  <2>4. MapMatchesPool'
    BY <2>1, <2>3 DEF MapMatchesPool
  <2>5. \A c \in Clients : held[c] = None
    BY <1>0, <2>1 DEF SessionStatus
  <2>6. BufferTypeOK' /\ HeldTypeOK' /\ KeysByKind'
    BY <1>0, <2>1, <2>3 DEF BufferTypeOK, HeldTypeOK, Pointer, KeysByKind
  <2> QED BY <2>1, <2>2, <2>3, <2>4, <2>5, <2>6
          DEF BufferIInv, SessionStatus, PoolWhileRunning, HandlesLive,
              ReleasedEmpty, OnlyExhaustionAborts
<1>9. CASE UNCHANGED allVars
  <2>1. UNCHANGED vars /\ UNCHANGED bufferVars
    BY <1>9 DEF allVars
  <2>2. PoolWhileRunning'
    BY <1>0, <2>1, NextKeepsPoolInv DEF PoolWhileRunning, vars
  <2>3. BufferTypeOK' /\ HeldTypeOK' /\ KeysByKind'
    BY <1>0, <2>1 DEF bufferVars, BufferTypeOK, HeldTypeOK, Pointer, KeysByKind
  <2>4. MapMatchesPool'
    BY <1>0, <2>1 DEF vars, bufferVars, MapMatchesPool, VtcmBuffers, BlockOf
  <2> QED BY <1>0, <2>1, <2>2, <2>3, <2>4
          DEF vars, bufferVars, BufferIInv, SessionStatus, HandlesLive, ReleasedEmpty,
              OnlyExhaustionAborts
<1> QED BY <1>1, <1>2, <1>3, <1>4, <1>5, <1>6, <1>7, <1>8, <1>9 DEF BufferNext

\* The inductive invariant holds of every session.
LEMMA BufferInvariant == BufferSpec => []BufferIInv
  BY InitEstablishesBuffers, NextKeepsBuffers, PTL DEF BufferSpec

\* Through any order of allocations, frees and sessions the map holds exactly
\* the live blocks of the pool, the rows of the buffers are disjoint and in the
\* scratchpad, every pointer a client holds is its own, and nothing is left in
\* the pool when the session ends.
THEOREM BuffersMatchPool == BufferSpec => []MapInv
  BY BufferInvariant, BufferIInvGivesMapInv, PTL

\* A client that frees what it was given, once, never aborts the process
\* unless the scratchpad was exhausted before.
THEOREM AbortsOnlyAfterExhaustion == BufferSpec => []OnlyExhaustionAborts
<1>1. BufferIInv => OnlyExhaustionAborts
  BY DEF BufferIInv
<1> QED BY BufferInvariant, <1>1, PTL
=============================================================================
