---------------------------- MODULE VectorLemmas ----------------------------
(***************************************************************************)
(* What erasing, overwriting and emplacing do to the entries of a vector,   *)
(* what rounding up to a granule does to a size, and what a fold computes.  *)
(***************************************************************************)
EXTENDS Integers, Sequences, SequencesExt, SequenceTheorems, FiniteSetTheorems, TLAPS

\* Erasing an entry of a vector moves the later ones down.
LEMMA RemoveAtEntries ==
    ASSUME NEW S, NEW s \in Seq(S), NEW i \in 1 .. Len(s)
    PROVE  /\ RemoveAt(s, i) \in Seq(S)
           /\ Len(RemoveAt(s, i)) = Len(s) - 1
           /\ \A j \in 1 .. Len(s) - 1 :
                 RemoveAt(s, i)[j] = IF j < i THEN s[j] ELSE s[j + 1]
<1> DEFINE a == SubSeq(s, 1, i - 1)
           b == SubSeq(s, i + 1, Len(s))
<1>1. /\ a \in Seq(S) /\ Len(a) = i - 1
      /\ \A j \in 1 .. i - 1 : a[j] = s[j]
  OBVIOUS
<1>2. /\ b \in Seq(S) /\ Len(b) = Len(s) - i
      /\ \A j \in 1 .. Len(s) - i : b[j] = s[i + j]
  OBVIOUS
<1>3. RemoveAt(s, i) = a \o b
  BY DEF RemoveAt
<1> HIDE DEF a, b
<1>4. /\ a \o b \in Seq(S) /\ Len(a \o b) = Len(a) + Len(b)
      /\ \A j \in 1 .. Len(a) + Len(b) :
            (a \o b)[j] = IF j <= Len(a) THEN a[j] ELSE b[j - Len(a)]
  BY <1>1, <1>2, ConcatProperties
<1> QED
  BY <1>1, <1>2, <1>3, <1>4

\* Overwriting an entry changes that entry only.
LEMMA ReplaceAtEntries ==
    ASSUME NEW S, NEW s \in Seq(S), NEW i \in 1 .. Len(s), NEW e \in S
    PROVE  /\ ReplaceAt(s, i, e) \in Seq(S)
           /\ Len(ReplaceAt(s, i, e)) = Len(s)
           /\ \A j \in 1 .. Len(s) :
                 ReplaceAt(s, i, e)[j] = IF j = i THEN e ELSE s[j]
  BY DEF ReplaceAt

\* Emplacing an entry moves the entries from its place on up.
LEMMA InsertAtEntries ==
    ASSUME NEW S, NEW s \in Seq(S), NEW i \in 1 .. Len(s) + 1, NEW e \in S
    PROVE  /\ InsertAt(s, i, e) \in Seq(S)
           /\ Len(InsertAt(s, i, e)) = Len(s) + 1
           /\ \A j \in 1 .. Len(s) + 1 :
                 InsertAt(s, i, e)[j] = IF j < i THEN s[j]
                                        ELSE IF j = i THEN e ELSE s[j - 1]
<1> DEFINE a == SubSeq(s, 1, i - 1)
           c == SubSeq(s, i, Len(s))
           ae == a \o <<e>>
<1>1. /\ a \in Seq(S) /\ Len(a) = i - 1
      /\ \A j \in 1 .. i - 1 : a[j] = s[j]
  OBVIOUS
<1>2. /\ c \in Seq(S) /\ Len(c) = Len(s) - i + 1
      /\ \A j \in 1 .. Len(s) - i + 1 : c[j] = s[i + j - 1]
  OBVIOUS
<1>3. InsertAt(s, i, e) = ae \o c
  BY DEF InsertAt
<1> HIDE DEF a, c
<1>4. /\ ae \in Seq(S) /\ Len(ae) = i
      /\ \A j \in 1 .. i : ae[j] = IF j < i THEN a[j] ELSE e
  BY <1>1
<1> HIDE DEF ae
<1>5. /\ ae \o c \in Seq(S) /\ Len(ae \o c) = Len(ae) + Len(c)
      /\ \A j \in 1 .. Len(ae) + Len(c) :
            (ae \o c)[j] = IF j <= Len(ae) THEN ae[j] ELSE c[j - Len(ae)]
  BY <1>2, <1>4, ConcatProperties
<1> QED
  BY <1>1, <1>2, <1>3, <1>4, <1>5

\* A sequence s of n elements and one more.
Longer(s, n, e) == [j \in 1 .. n + 1 |-> IF j <= n THEN s[j] ELSE e]

\* Appending to a sequence gives one that is longer by the new element.
LEMMA AppendEntries ==
    ASSUME NEW S, NEW s \in Seq(S), NEW e \in S, NEW n \in Nat, Len(s) = n
    PROVE  s \o <<e>> = Longer(s, n, e)
  BY DEF Longer

\* The same of a function on 1 .. n, as the loops' points are written.
LEMMA AppendToFunction ==
    ASSUME NEW S, NEW n \in Nat, NEW u \in [1 .. n -> S], NEW e \in S
    PROVE  u \o <<e>> = Longer(u, n, e)
<1>1. u \in Seq(S) /\ Len(u) = n
  OBVIOUS
<1> QED BY <1>1, AppendEntries

\* Integer division by a positive granule, as two bounds.
LEMMA DivBounds ==
    ASSUME NEW x \in Nat, NEW a \in Nat \ {0}
    PROVE  /\ x \div a \in Nat
           /\ (x \div a) * a <= x
           /\ x < (x \div a) * a + a
  OBVIOUS

\* A multiple of a granule leaves no remainder.
LEMMA MultipleMod ==
    ASSUME NEW q \in Int, NEW a \in Nat \ {0}
    PROVE  (q * a) % a = 0
  OBVIOUS

\* Sums and differences of multiples of a granule are multiples.
LEMMA SumMod ==
    ASSUME NEW x \in Nat, NEW y \in Nat, NEW a \in Nat \ {0},
           x % a = 0, y % a = 0
    PROVE  /\ (x + y) % a = 0
           /\ (x - y) % a = 0
<1>1. PICK p \in Nat : x = p * a
  <2> WITNESS x \div a \in Nat
  <2> QED OBVIOUS
<1>2. PICK q \in Nat : y = q * a
  <2> WITNESS y \div a \in Nat
  <2> QED OBVIOUS
<1>3. x + y = (p + q) * a /\ x - y = (p - q) * a
  BY <1>1, <1>2
<1>4. ((p + q) * a) % a = 0 /\ ((p - q) * a) % a = 0
  <2>1. p + q \in Int /\ p - q \in Int
    OBVIOUS
  <2> QED BY <2>1, MultipleMod
<1> QED BY <1>3, <1>4

(***************************************************************************)
(* Counters that wrap, and ring slots: remainders of consecutive numbers.   *)
(***************************************************************************)
\* Quotient and remainder.
LEMMA DivMod ==
    ASSUME NEW x \in Nat, NEW m \in Nat \ {0}
    PROVE  /\ x \div m \in Nat
           /\ x % m \in 0 .. m - 1
           /\ x = m * (x \div m) + (x % m)
<1>1. x \div m \in Nat
  OBVIOUS
<1>2. x % m \in 0 .. m - 1
  OBVIOUS
<1>3. x = m * (x \div m) + (x % m)
  OBVIOUS
<1> QED BY <1>1, <1>2, <1>3

\* The same with names for both.
LEMMA DivModNames ==
    ASSUME NEW x \in Nat, NEW m \in Nat \ {0}
    PROVE  \E q \in Nat, r \in 0 .. m - 1 : r = x % m /\ x = m * q + r
<1> WITNESS x \div m \in Nat, x % m \in 0 .. m - 1
<1> QED BY DivMod

\* They are the only ones.
LEMMA ModUnique ==
    ASSUME NEW q \in Int, NEW r \in Nat, NEW m \in Nat \ {0}, r < m
    PROVE  (m * q + r) % m = r
  OBVIOUS

\* Small numbers are their own remainders.
LEMMA ModSmall ==
    ASSUME NEW m \in Nat \ {0}, NEW x \in 0 .. m - 1
    PROVE  x % m = x
  OBVIOUS

\* The step of a counter that wraps.
LEMMA WrapStep ==
    ASSUME NEW m \in Nat \ {0}, NEW x \in 0 .. m - 1
    PROVE  (x + 1) % m = IF x + 1 = m THEN 0 ELSE x + 1
  OBVIOUS

\* The next multiple.
LEMMA NextMultiple ==
    ASSUME NEW m \in Int, NEW q \in Int
    PROVE  m * (q + 1) = m * q + m
  OBVIOUS

\* The remainder of the next number.
LEMMA ModNext ==
    ASSUME NEW x \in Nat, NEW m \in Nat \ {0}
    PROVE  ((x % m) + 1) % m = (x + 1) % m
<1> PICK q \in Nat, r \in 0 .. m - 1 : r = x % m /\ x = m * q + r
  BY DivModNames
<1>1. CASE r + 1 < m
  <2>1. x + 1 = m * q + (r + 1)
    OBVIOUS
  <2> PICK s \in Nat : s = r + 1
    OBVIOUS
  <2>2. s < m /\ s \in 0 .. m - 1 /\ q \in Int
    BY <1>1
  <2>3. (m * q + s) % m = s
    BY <2>2, ModUnique
  <2>4. s % m = s
    BY <2>2, ModSmall
  <2> QED BY <2>1, <2>3, <2>4
<1>2. CASE r + 1 = m
  <2>1. q + 1 \in Int /\ m * (q + 1) = m * q + m
    BY NextMultiple
  <2>2. x + 1 = m * (q + 1) + 0
    BY <1>2, <2>1
  <2>3. (m * (q + 1) + 0) % m = 0
    BY <2>1, ModUnique
  <2> QED BY <1>2, <2>2, <2>3, WrapStep
<1> QED BY <1>1, <1>2

\* A remainder may be taken by a multiple first.
LEMMA ModOfMod ==
    ASSUME NEW x \in Nat, NEW m \in Nat \ {0}, NEW c \in Nat \ {0}, m % c = 0
    PROVE  (x % m) % c = x % c
<1> PICK q \in Nat, r \in 0 .. m - 1 : r = x % m /\ x = m * q + r
  BY DivModNames
<1> PICK k \in Nat, z \in 0 .. c - 1 : z = m % c /\ m = c * k + z
  BY DivModNames
<1>0. r \in Nat
  OBVIOUS
<1> PICK p \in Nat, s \in 0 .. c - 1 : s = r % c /\ r = c * p + s
  BY <1>0, DivModNames
<1>1. m = c * k
  OBVIOUS
<1> PICK u \in Int : u = k * q + p
  OBVIOUS
<1>2. c * u = (c * k) * q + c * p
  OBVIOUS
<1>3. x = c * u + s
  <2>1. x = (c * k) * q + (c * p + s)
    BY <1>1
  <2> QED BY <1>2, <2>1
<1>4. s \in Nat /\ s < c
  OBVIOUS
<1>5. (c * u + s) % c = s
  BY <1>4, ModUnique
<1> QED BY <1>3, <1>5

\* Numbers less than c apart have different remainders by c.
LEMMA ModApart ==
    ASSUME NEW x \in Nat, NEW y \in Nat, NEW c \in Nat \ {0}, x < y, y < x + c
    PROVE  x % c # y % c
<1> SUFFICES ASSUME x % c = y % c PROVE FALSE
  OBVIOUS
<1> PICK q \in Nat, r \in 0 .. c - 1 : r = x % c /\ x = c * q + r
  BY DivModNames
<1> PICK p \in Nat, s \in 0 .. c - 1 : s = y % c /\ y = c * p + s
  BY DivModNames
<1>1. /\ p - q \in Int
      /\ c * (p - q) = c * p - c * q
      /\ c * (p - q) > 0 /\ c * (p - q) < c
  OBVIOUS
<1>2. CASE p - q <= 0
  <2>1. c * (p - q) <= 0
    BY <1>2
  <2> QED BY <1>1, <2>1
<1>3. CASE p - q >= 1
  <2>1. c * (p - q) >= c
    BY <1>3
  <2> QED BY <1>1, <2>1
<1> QED BY <1>1, <1>2, <1>3

(***************************************************************************)
(* Folds.  A fold over 1 .. n is a recursion on the subsets of 1 .. n that   *)
(* takes the greatest index off; its proof is an induction on sets of        *)
(* numbers, so that no operator has to be given to a theorem.                *)
(***************************************************************************)
\* A set that has 0 and, with a number, the next has every number up to n.
LEMMA Induction ==
    ASSUME NEW n \in Nat, NEW S, 0 \in S, \A i \in 0 .. n - 1 : i \in S => i + 1 \in S
    PROVE  \A b \in 0 .. n : b \in S
<1> SUFFICES ASSUME NEW b \in 0 .. n, b \notin S PROVE FALSE
  OBVIOUS
<1> DEFINE B == {i \in 0 .. b : i \notin S}
           C == {i \in 0 .. b - 1 : i \notin S}
           f == [i \in B |-> i - 1]
<1>1. IsFiniteSet(B) /\ IsFiniteSet(C)
  <2>1. IsFiniteSet(0 .. b)
    BY FS_Interval
  <2>2. B \in SUBSET (0 .. b) /\ C \in SUBSET (0 .. b)
    OBVIOUS
  <2> QED BY <2>1, <2>2, FS_Subset
<1>2. f \in Injection(B, C)
  <2>1. f \in [B -> C]
    <3> SUFFICES ASSUME NEW i \in B PROVE i - 1 \in C
      OBVIOUS
    <3>1. i # 0 /\ i - 1 \in 0 .. b - 1
      OBVIOUS
    <3>2. i - 1 \in 0 .. n - 1 /\ (i - 1) + 1 = i
      BY <3>1
    <3> QED BY <3>1, <3>2
  <2>2. \A x, y \in B : f[x] = f[y] => x = y
    OBVIOUS
  <2> QED BY <2>1, <2>2 DEF Injection, IsInjective
<1>3. Cardinality(B) <= Cardinality(C)
  BY <1>1, <1>2, FS_Injection
<1>4. C \in SUBSET B /\ b \in B /\ b \notin C
  OBVIOUS
<1>5. Cardinality(C) <= Cardinality(B) /\ (Cardinality(B) = Cardinality(C) => B = C)
  BY <1>1, <1>4, FS_Subset
<1>6. Cardinality(B) \in Nat /\ Cardinality(C) \in Nat
  BY <1>1, FS_CardinalityType
<1> HIDE DEF B, C
<1> QED BY <1>3, <1>4, <1>5, <1>6

\* A set of numbers up to n that is not empty has a greatest element.
LEMMA GreatestExists ==
    ASSUME NEW n \in Nat, NEW s \in SUBSET (1 .. n), s # {}
    PROVE  Max(s) \in s /\ \A y \in s : Max(s) >= y
<1> DEFINE S == {k \in 0 .. n : \A t \in SUBSET (1 .. k) : t # {} => \E x \in t : \A y \in t : x >= y}
<1>1. 0 \in S
  <2>1. 0 \in 0 .. n /\ \A t \in SUBSET (1 .. 0) : t = {}
    OBVIOUS
  <2> QED BY <2>1
<1>2. ASSUME NEW k \in 0 .. n - 1, k \in S PROVE k + 1 \in S
  <2> SUFFICES ASSUME NEW t \in SUBSET (1 .. k + 1), t # {}
               PROVE  \E x \in t : \A y \in t : x >= y
    OBVIOUS
  <2>1. CASE k + 1 \in t
    BY <2>1
  <2>2. CASE k + 1 \notin t
    <3>1. t \in SUBSET (1 .. k)
      BY <2>2
    <3> QED BY <3>1, <1>2
  <2> QED BY <2>1, <2>2
<1> HIDE DEF S
<1>3. \A k \in 0 .. n : k \in S
  BY <1>1, <1>2, Induction
<1>4. \E x \in s : \A y \in s : x >= y
  BY <1>3 DEF S
<1> QED BY <1>4 DEF Max

\* A table of the results of a fold over the subsets of 1 .. n.
FoldsBy(it, n, V, base, step) ==
    /\ it \in [SUBSET (1 .. n) -> V]
    /\ \A s \in SUBSET (1 .. n) :
          it[s] = IF s = {} THEN base ELSE step[<<it[s \ {Max(s)}], Max(s)>>]

\* The recursion of a fold over 1 .. n has a solution, with values in V when
\* base is in V and a step stays there.
LEMMA FoldExists ==
    ASSUME NEW n \in Nat, NEW V, NEW base \in V, NEW step \in [V \X (1 .. n) -> V]
    PROVE  \E it : FoldsBy(it, n, V, base, step)
<1> DEFINE Solves(k, it) ==
             \A s \in SUBSET (1 .. k) :
                it[s] = IF s = {} THEN base ELSE step[<<it[s \ {Max(s)}], Max(s)>>]
           S == {k \in 0 .. n : \E it \in [SUBSET (1 .. k) -> V] : Solves(k, it)}
<1>1. 0 \in S
  <2> DEFINE none == [s \in SUBSET (1 .. 0) |-> base]
  <2>1. none \in [SUBSET (1 .. 0) -> V] /\ \A s \in SUBSET (1 .. 0) : s = {}
    OBVIOUS
  <2>2. Solves(0, none)
    BY <2>1
  <2>3. 0 \in 0 .. n
    OBVIOUS
  <2> HIDE DEF none, Solves
  <2> QED BY <2>1, <2>2, <2>3
<1>2. ASSUME NEW k \in 0 .. n - 1, k \in S PROVE k + 1 \in S
  <2> PICK it \in [SUBSET (1 .. k) -> V] : Solves(k, it)
    BY <1>2
  <2> DEFINE next == [s \in SUBSET (1 .. k + 1) |->
                        IF k + 1 \in s THEN step[<<it[s \ {k + 1}], k + 1>>] ELSE it[s]]
  <2>1. \A s \in SUBSET (1 .. k + 1) : s \ {k + 1} \in SUBSET (1 .. k)
    OBVIOUS
  <2>2. \A s \in SUBSET (1 .. k + 1) : k + 1 \notin s => s \in SUBSET (1 .. k)
    OBVIOUS
  <2>3. k + 1 \in 1 .. n
    OBVIOUS
  <2>4. next \in [SUBSET (1 .. k + 1) -> V]
    BY <2>1, <2>2, <2>3
  <2>5. Solves(k + 1, next)
    <3> SUFFICES ASSUME NEW s \in SUBSET (1 .. k + 1)
                 PROVE  next[s] = IF s = {} THEN base ELSE step[<<next[s \ {Max(s)}], Max(s)>>]
      OBVIOUS
    <3>1. CASE k + 1 \in s
      <4>1. Max(s) = k + 1
        <5>1. k + 1 \in Nat /\ s # {}
          BY <3>1
        <5>2. Max(s) \in s /\ \A y \in s : Max(s) >= y
          BY <5>1, GreatestExists
        <5>3. Max(s) >= k + 1 /\ Max(s) \in 1 .. k + 1
          BY <3>1, <5>2
        <5> QED BY <5>3
      <4>2. next[s \ {k + 1}] = it[s \ {k + 1}]
        BY <2>1
      <4>3. next[s] = step[<<it[s \ {k + 1}], k + 1>>]
        BY <3>1
      <4> QED BY <3>1, <4>1, <4>2, <4>3
    <3>2. CASE k + 1 \notin s
      <4>1. s \in SUBSET (1 .. k) /\ next[s] = it[s]
        BY <2>2, <3>2
      <4>2. k + 1 \notin s \ {Max(s)} /\ s \ {Max(s)} \in SUBSET (1 .. k + 1)
        BY <3>2
      <4>3. next[s \ {Max(s)}] = it[s \ {Max(s)}]
        BY <4>2
      <4> QED BY <4>1, <4>3
    <3> QED BY <3>1, <3>2
  <2>6. k + 1 \in 0 .. n
    OBVIOUS
  <2> QED BY <2>4, <2>5, <2>6
<1> HIDE DEF S
<1>3. \A k \in 0 .. n : k \in S
  BY <1>1, <1>2, Induction
<1>4. n \in S
  BY <1>3
<1>5. PICK it \in [SUBSET (1 .. n) -> V] : Solves(n, it)
  BY <1>4 DEF S
<1>6. FoldsBy(it, n, V, base, step)
  BY <1>5 DEF FoldsBy
<1> QED BY <1>6

\* The elements of 1 .. i other than the greatest.
LEMMA FoldIndices ==
    ASSUME NEW n \in Nat
    PROVE  /\ 1 .. 0 = {}
           /\ \A s \in SUBSET (1 .. n) : s # {} => Max(s) \in 1 .. n
           /\ \A i \in 1 .. n : /\ 1 .. i \in SUBSET (1 .. n)
                                /\ 1 .. i # {} /\ Max(1 .. i) = i
                                /\ (1 .. i) \ {i} = 1 .. (i - 1)
<1>1. \A s \in SUBSET (1 .. n) : s # {} => Max(s) \in 1 .. n
  BY GreatestExists
<1>2. ASSUME NEW i \in 1 .. n
      PROVE  /\ 1 .. i \in SUBSET (1 .. n) /\ 1 .. i # {}
             /\ Max(1 .. i) = i /\ (1 .. i) \ {i} = 1 .. (i - 1)
  <2>1. 1 .. i \in SUBSET (1 .. n) /\ 1 .. i # {} /\ i \in 1 .. i
    OBVIOUS
  <2>2. Max(1 .. i) \in 1 .. i /\ \A y \in 1 .. i : Max(1 .. i) >= y
    BY <2>1, GreatestExists
  <2>3. Max(1 .. i) >= i
    BY <2>1, <2>2
  <2>4. (1 .. i) \ {i} = 1 .. (i - 1)
    OBVIOUS
  <2> QED BY <2>1, <2>2, <2>3, <2>4
<1> QED BY <1>1, <1>2

(***************************************************************************)
(* Ranks.                                                                   *)
(***************************************************************************)
\* In a finite set with a strict total order there is, for every number below
\* its size, an element with as many before it.
LEMMA RankExists ==
    ASSUME NEW S, IsFiniteSet(S), NEW R,
           \A x \in S : <<x, x>> \notin R,
           \A x, y, z \in S : <<x, y>> \in R /\ <<y, z>> \in R => <<x, z>> \in R,
           \A x, y \in S : x # y => <<x, y>> \in R \/ <<y, x>> \in R
    PROVE  \A i \in 1 .. Cardinality(S) : \E x \in S : Cardinality({y \in S : <<y, x>> \in R}) = i - 1
<1> DEFINE Below(x) == {y \in S : <<y, x>> \in R}
           T == 0 .. Cardinality(S) - 1
           rank == [x \in S |-> Cardinality(Below(x))]
<1>1. Cardinality(S) \in Nat
  BY FS_CardinalityType
<1>2. \A x \in S : IsFiniteSet(Below(x)) /\ Cardinality(Below(x)) \in Nat
  <2> TAKE x \in S
  <2>1. Below(x) \in SUBSET S
    OBVIOUS
  <2>2. IsFiniteSet(Below(x))
    BY <2>1, FS_Subset
  <2> QED BY <2>2, FS_CardinalityType
<1>3. rank \in [S -> T]
  <2> SUFFICES ASSUME NEW x \in S PROVE Cardinality(Below(x)) \in T
    OBVIOUS
  <2>1. Below(x) \in SUBSET S /\ Below(x) # S
    OBVIOUS
  <2>2. Cardinality(Below(x)) <= Cardinality(S) /\ Cardinality(S) # Cardinality(Below(x))
    BY <2>1, FS_Subset
  <2> HIDE DEF Below
  <2> QED BY <1>1, <1>2, <2>2
<1>4. ASSUME NEW x \in S, NEW y \in S, <<x, y>> \in R PROVE rank[x] # rank[y]
  <2>1. Below(x) \in SUBSET Below(y) /\ Below(x) # Below(y)
    BY <1>4
  <2>2. Cardinality(Below(y)) # Cardinality(Below(x))
    <3> HIDE DEF Below
    <3> QED BY <1>2, <2>1, FS_Subset
  <2> QED BY <2>2
<1>5. rank \in Injection(S, T)
  <2>1. \A x, y \in S : rank[x] = rank[y] => x = y
    <3> HIDE DEF rank
    <3> QED BY <1>4
  <2> HIDE DEF rank
  <2> QED BY <1>3, <2>1 DEF Injection, IsInjective
<1>6. IsFiniteSet(T) /\ Cardinality(T) = Cardinality(S)
  <2>1. 0 \in Int /\ Cardinality(S) - 1 \in Int
    BY <1>1
  <2> QED BY <1>1, <2>1, FS_Interval
<1>7. rank \in Surjection(S, T)
  <2> HIDE DEF rank, T
  <2> QED BY <1>5, <1>6, FS_Injection
<1> SUFFICES ASSUME NEW i \in 1 .. Cardinality(S)
             PROVE  \E x \in S : Cardinality(Below(x)) = i - 1
  OBVIOUS
<1>8. i - 1 \in T
  BY <1>1
<1>9. \E x \in S : rank[x] = i - 1
  <2> HIDE DEF rank, T
  <2> QED BY <1>7, <1>8 DEF Surjection
<1> QED BY <1>9
=============================================================================
