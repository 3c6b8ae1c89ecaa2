----------------------------- MODULE CallLemmas -----------------------------
(***************************************************************************)
(* What the scans, the copies between buffers, the tile sizes and the caches *)
(* of affine loops compute, for every input.                                 *)
(***************************************************************************)
EXTENDS TilingLemmas

(***************************************************************************)
(* Scans (LowerTTX.cpp).                                                     *)
(***************************************************************************)
\* The loop of a scan as a function of the iterations that have run.
LEMMA ScanLoop ==
    ASSUME NEW size \in Nat \ {0}, NEW reverse \in BOOLEAN
    PROVE  SC!ScansInOrder(size, reverse)
<1> DEFINE m == size - 1
           input == [i \in 1 .. size |-> <<i>>]
           idx == [i \in 1 .. m |-> i]
           At(iv) == SC!ScanPlace(size, reverse, iv) + 1
           base == [acc |-> input[At(0)], tensor |-> input]
           ScanStep(s, iv) ==
               [acc |-> s.acc \o s.tensor[At(iv)],
                tensor |-> [s.tensor EXCEPT ![At(iv)] = s.acc \o s.tensor[At(iv)]]]
           V == [acc : Seq(Nat), tensor : [1 .. size -> Seq(Nat)]]
           step == [x \in V \X (1 .. m) |-> ScanStep(x[1], x[2])]
<1>1. m \in Nat /\ \A iv \in 0 .. m : At(iv) \in 1 .. size
  BY DEF SC!ScanPlace
<1>2. base \in V
  BY <1>1
<1>3. step \in [V \X (1 .. m) -> V]
  <2> SUFFICES ASSUME NEW s \in V, NEW iv \in 1 .. m PROVE ScanStep(s, iv) \in V
    OBVIOUS
  <2>1. At(iv) \in 1 .. size
    BY <1>1
  <2> HIDE DEF At
  <2> QED BY <2>1
<1>4. PICK it \in [SUBSET (1 .. m) -> V] :
        \A s \in SUBSET (1 .. m) :
            it[s] = IF s = {} THEN base ELSE step[<<it[s \ {Max(s)}], Max(s)>>]
  <2>1. PICK it : FoldsBy(it, m, V, base, step)
    <3>1. m \in Nat
      BY <1>1
    <3> HIDE DEF m, base, step, V
    <3> QED BY <1>2, <1>3, <3>1, FoldExists, Zenon
  <2> HIDE DEF m, base, step, V
  <2> QED BY <2>1 DEF FoldsBy
<1>5. it = [s \in SUBSET DOMAIN idx |->
              IF s = {} THEN base ELSE ScanStep(it[s \ {Max(s)}], idx[Max(s)])]
  <2> SUFFICES ASSUME NEW s \in SUBSET (1 .. m), s # {}
               PROVE  step[<<it[s \ {Max(s)}], Max(s)>>] = ScanStep(it[s \ {Max(s)}], idx[Max(s)])
    BY <1>4
  <2>1. Max(s) \in 1 .. m
    BY <1>1, FoldIndices
  <2>2. it[s \ {Max(s)}] \in V
    BY <1>4
  <2> HIDE DEF V, ScanStep, m
  <2> QED BY <2>1, <2>2
<1>6. PICK jt : /\ jt = [s \in SUBSET DOMAIN idx |->
                           IF s = {} THEN base ELSE ScanStep(jt[s \ {Max(s)}], idx[Max(s)])]
                /\ SC!LowerScan(input, reverse) = jt[DOMAIN idx].tensor
  <2>1. SC!LowerScan(input, reverse) =
          (CHOOSE jt : jt = [s \in SUBSET DOMAIN idx |->
                              IF s = {} THEN base ELSE ScanStep(jt[s \ {Max(s)}], idx[Max(s)])])[DOMAIN idx].tensor
    <3>1. Len(input) = size
      OBVIOUS
    <3> HIDE DEF input
    <3> QED BY <3>1 DEF SC!LowerScan, SC!Loop, SC!combine, SC!FoldLeft, SC!MapThenFoldSet, SC!Max, Max
  <2> HIDE DEF base, ScanStep, idx
  <2> QED BY <1>5, <2>1
<1> HIDE DEF V, step
<1> DEFINE Place(i) == IF reverse THEN size - i ELSE i - 1
           Seen(k) == [j \in 1 .. k + 1 |-> At(j - 1)]
           After(k) == [acc |-> Seen(k),
                        tensor |-> [i \in 1 .. size |-> IF Place(i) <= k THEN Seen(Place(i)) ELSE <<i>>]]
           S == {k \in 0 .. m : jt[1 .. k] = After(k)}
<1>7. \A i \in 1 .. size : Place(i) \in 0 .. m /\ At(Place(i)) = i
  BY DEF SC!ScanPlace
<1>8. \A k \in 0 .. m : Place(At(k)) = k
  BY DEF SC!ScanPlace
<1>9. 0 \in S
  <2>1. 1 .. 0 \in SUBSET DOMAIN idx /\ 1 .. 0 = {}
    OBVIOUS
  <2>2. jt[1 .. 0] = base
    BY <1>6, <2>1
  <2>3. Seen(0) = input[At(0)]
    BY <1>1
  <2>4. \A i \in 1 .. size : Place(i) <= 0 => Place(i) = 0 /\ i = At(0)
    BY <1>7
  <2>5. [i \in 1 .. size |-> IF Place(i) <= 0 THEN Seen(Place(i)) ELSE <<i>>] = input
    <3> SUFFICES ASSUME NEW i \in 1 .. size, Place(i) <= 0 PROVE Seen(Place(i)) = <<i>>
      OBVIOUS
    <3>1. Place(i) = 0 /\ i = At(0)
      BY <2>4
    <3>2. input[At(0)] = <<i>>
      BY <3>1
    <3> HIDE DEF Place, Seen, At
    <3> QED BY <2>3, <3>1, <3>2
  <2>6. 0 \in 0 .. m
    BY <1>1
  <2> QED BY <2>2, <2>3, <2>5, <2>6
<1>10. ASSUME NEW k \in 0 .. m - 1, k \in S PROVE k + 1 \in S
  <2>1. k + 1 \in 1 .. m /\ (k + 1) - 1 = k
    BY <1>1
  <2>2. /\ 1 .. (k + 1) \in SUBSET DOMAIN idx /\ 1 .. (k + 1) # {}
        /\ Max(1 .. (k + 1)) = k + 1 /\ (1 .. (k + 1)) \ {k + 1} = 1 .. k
    <3>1. m \in Nat /\ DOMAIN idx = 1 .. m
      BY <1>1
    <3> PICK i : i = k + 1
      OBVIOUS
    <3>2. i \in 1 .. m /\ i - 1 = k
      BY <2>1
    <3> HIDE DEF m, idx
    <3>3. /\ 1 .. i \in SUBSET (1 .. m) /\ 1 .. i # {} /\ Max(1 .. i) = i
          /\ (1 .. i) \ {i} = 1 .. (i - 1)
      BY ONLY <3>1, <3>2, FoldIndices
    <3> QED BY ONLY <3>1, <3>2, <3>3, i = k + 1
  <2>3. jt[1 .. (k + 1)] = ScanStep(jt[1 .. k], k + 1)
    <3>1. jt[1 .. (k + 1)] = ScanStep(jt[1 .. k], idx[k + 1])
      <4> HIDE DEF ScanStep, m, base
      <4> QED BY <1>6, <2>2
    <3>2. idx[k + 1] = k + 1
      BY <2>1
    <3> QED BY <3>1, <3>2
  <2>4. At(k + 1) \in 1 .. size /\ Place(At(k + 1)) = k + 1
    BY <1>1, <1>8, <2>1
  <2>5. After(k).tensor[At(k + 1)] = <<At(k + 1)>>
    <3> HIDE DEF At, Place
    <3> QED BY <2>4
  <2>6. Seen(k) \o <<At(k + 1)>> = Seen(k + 1)
    <3> PICK new \in 1 .. size : new = At(k + 1)
      BY <2>4
    <3>1. \A j \in 1 .. k + 1 : At(j - 1) \in 1 .. size
      BY <1>1
    <3>2. Seen(k) \in Seq(1 .. size) /\ Len(Seen(k)) = k + 1
      <4> HIDE DEF At, m
      <4> QED BY <3>1
    <3> PICK old \in Seq(1 .. size) : old = Seen(k)
      BY <3>2
    <3>3. old \o <<new>> = [j \in 1 .. k + 2 |-> IF j <= k + 1 THEN old[j] ELSE new]
      BY <3>2
    <3>4. \A j \in 1 .. k + 1 : old[j] = At(j - 1)
      OBVIOUS
    <3>5. \A j \in 1 .. k + 2 : (IF j <= k + 1 THEN old[j] ELSE new) = At(j - 1)
      <4> SUFFICES ASSUME NEW j \in 1 .. k + 2, ~(j <= k + 1) PROVE new = At(j - 1)
        BY <3>4
      <4>1. j - 1 = k + 1
        OBVIOUS
      <4> HIDE DEF At
      <4> QED BY <4>1
    <3> HIDE DEF At
    <3>6. (k + 1) + 1 = k + 2
      OBVIOUS
    <3> QED BY <3>3, <3>5, <3>6
  <2>7. ScanStep(After(k), k + 1).acc = Seen(k + 1)
    <3> HIDE DEF At, Seen, Place
    <3> QED BY <2>5, <2>6
  <2>8. ScanStep(After(k), k + 1).tensor = After(k + 1).tensor
    <3>1. \A i \in 1 .. size : Place(i) \in Int /\ (Place(i) = k + 1 <=> i = At(k + 1))
      BY <1>7, <2>4
    <3>2. ScanStep(After(k), k + 1).tensor = [After(k).tensor EXCEPT ![At(k + 1)] = Seen(k + 1)]
      <4> HIDE DEF At, Seen, Place
      <4> QED BY <2>5, <2>6
    <3>3. \A i \in 1 .. size : i # At(k + 1) => (Place(i) <= k <=> Place(i) <= k + 1)
      BY <3>1
    <3>4. After(k + 1).tensor[At(k + 1)] = Seen(k + 1)
      <4> HIDE DEF At, Seen, Place
      <4> QED BY <2>4
    <3> DEFINE Old(i) == IF Place(i) <= k THEN Seen(Place(i)) ELSE <<i>>
               New(i) == IF Place(i) <= k + 1 THEN Seen(Place(i)) ELSE <<i>>
    <3> PICK at \in 1 .. size : at = At(k + 1)
      BY <2>4
    <3> PICK seen : seen = Seen(k + 1)
      OBVIOUS
    <3>5. \A i \in 1 .. size : i # at => Old(i) = New(i)
      <4> HIDE DEF At, Seen, Place
      <4> QED BY ONLY <3>3, at = At(k + 1)
    <3>6. After(k).tensor = [i \in 1 .. size |-> Old(i)] /\ After(k + 1).tensor = [i \in 1 .. size |-> New(i)]
      <4> HIDE DEF At, Seen, Place
      <4> QED OBVIOUS
    <3> PICK old, new : old = After(k).tensor /\ new = After(k + 1).tensor
      OBVIOUS
    <3>7. ScanStep(After(k), k + 1).tensor = [old EXCEPT ![at] = seen] /\ new[at] = seen
      BY ONLY <3>2, <3>4, old = After(k).tensor, new = After(k + 1).tensor, at = At(k + 1), seen = Seen(k + 1)
    <3>8. old = [i \in 1 .. size |-> Old(i)] /\ new = [i \in 1 .. size |-> New(i)]
      BY ONLY <3>6, old = After(k).tensor, new = After(k + 1).tensor
    <3> HIDE DEF Old, New
    <3>9. [old EXCEPT ![at] = seen] = new
      BY ONLY <3>5, <3>7, <3>8, at \in 1 .. size
    <3> QED BY ONLY <3>7, <3>9, new = After(k + 1).tensor
  <2>9. k + 1 \in 0 .. m
    BY <2>1
  <2> HIDE DEF Seen, Place, At
  <2> QED BY <1>10, <2>3, <2>7, <2>8, <2>9
<1>11. m \in S
  <2> HIDE DEF S, m
  <2>1. m \in 0 .. m
    BY <1>1
  <2>2. \A k \in 0 .. m - 1 : k \in S => k + 1 \in S
    BY <1>10
  <2> QED BY <1>1, <1>9, <2>1, <2>2, Induction
<1>12. SC!LowerScan(input, reverse) = [i \in 1 .. size |-> Seen(Place(i))]
  <2>1. DOMAIN idx = 1 .. m
    OBVIOUS
  <2>2. jt[1 .. m].tensor = [i \in 1 .. size |-> Seen(Place(i))]
    <3> HIDE DEF Seen, Place, At
    <3> QED BY <1>1, <1>7, <1>11
  <2> QED BY <1>6, <2>1, <2>2
<1>13. \A i \in 1 .. size : Seen(Place(i)) = SC!PrefixOf(size, reverse, i)
  BY <1>7 DEF SC!PrefixOf, SC!ScanPlace
<1> QED BY <1>12, <1>13 DEF SC!ScansInOrder

\* What one iteration of a cumulative sum finds: elements of the iterations
\* before it, each the sequence of the places it was combined from.
LEMMA SumLoop ==
    ASSUME NEW shape \in Seq(Nat \ {0}), NEW axis \in DOMAIN shape
    PROVE  SC!SumsAlong(shape, axis)
<1> DEFINE D == DOMAIN shape
           Numbers == UNION {0 .. shape[d] - 1 : d \in D}
           Indices == {x \in [D -> Numbers] : \A d \in D : x[d] < shape[d]}
           size == shape[axis]
           m == size - 1
           input == [x \in Indices |-> <<x>>]
           idx == [i \in 1 .. m |-> i]
           First == {x \in Indices : x[axis] = 0}
           Slice(tensor, k) == SC!Restrict(tensor, {x \in DOMAIN tensor : x[axis] = k})
           Here(x, k) == [x EXCEPT ![axis] = k]
           base == [acc |-> Slice(input, 0), tensor |-> input]
           SumStep(s, iv) ==
               LET this == Slice(s.tensor, iv)
                   acc == [x \in DOMAIN s.acc |-> s.acc[x] \o this[Here(x, iv)]]
               IN  [acc |-> acc,
                    tensor |-> [x \in DOMAIN s.tensor |-> IF x[axis] = iv THEN acc[Here(x, 0)] ELSE s.tensor[x]]]
           V == [acc : [First -> Seq(Indices)], tensor : [Indices -> Seq(Indices)]]
           step == [x \in V \X (1 .. m) |-> SumStep(x[1], x[2])]
<1>1. /\ size \in Nat /\ m \in Nat /\ size = m + 1
      /\ \A x \in Indices : x[axis] \in 0 .. m
  <2>1. size \in Nat \ {0}
    OBVIOUS
  <2>2. ASSUME NEW x \in Indices PROVE x[axis] \in 0 .. m
    <3>1. x[axis] \in Numbers /\ x[axis] < size
      OBVIOUS
    <3>2. Numbers \subseteq Nat
      OBVIOUS
    <3> PICK sz \in Nat : sz = size
      BY <2>1
    <3> PICK v \in Nat : v = x[axis]
      <4> HIDE DEF Numbers, Indices
      <4> QED BY <3>1, <3>2
    <3>3. v \in 0 .. sz - 1
      BY <3>1
    <3> QED BY <3>3
  <2> QED BY <2>1, <2>2
<1>2. \A x \in Indices, k \in 0 .. m :
        /\ Here(x, k) \in Indices /\ Here(x, k)[axis] = k
        /\ (x[axis] = k => Here(x, k) = x)
        /\ \A l \in 0 .. m : Here(Here(x, k), l) = Here(x, l)
  <2> SUFFICES ASSUME NEW x \in Indices, NEW k \in 0 .. m
               PROVE  /\ Here(x, k) \in Indices /\ Here(x, k)[axis] = k
                      /\ (x[axis] = k => Here(x, k) = x)
                      /\ \A l \in 0 .. m : Here(Here(x, k), l) = Here(x, l)
    OBVIOUS
  <2>1. x \in [D -> Numbers] /\ \A d \in D : x[d] < shape[d]
    OBVIOUS
  <2>2. k \in Numbers /\ k < shape[axis]
    <3>1. k \in 0 .. shape[axis] - 1 /\ k < shape[axis]
      BY <1>1
    <3> QED BY <3>1
  <2> HIDE DEF Numbers
  <2>3. Here(x, k) \in [D -> Numbers] /\ Here(x, k)[axis] = k
    BY <2>1, <2>2
  <2>4. \A d \in D : Here(x, k)[d] < shape[d]
    BY <2>1, <2>2
  <2>5. x[axis] = k => Here(x, k) = x
    BY <2>1
  <2>6. \A l \in 0 .. m : Here(Here(x, k), l) = Here(x, l)
    BY <2>1
  <2> QED BY <2>3, <2>4, <2>5, <2>6
<1> HIDE DEF Indices, m
<1>3. \A tensor \in [Indices -> Seq(Indices)], k \in 0 .. m :
        /\ DOMAIN Slice(tensor, k) = {x \in Indices : x[axis] = k}
        /\ \A x \in Indices : x[axis] = k => Slice(tensor, k)[x] = tensor[x]
  BY DEF SC!Restrict
<1>4. input \in [Indices -> Seq(Indices)] /\ base \in V /\ base.acc = [x \in First |-> <<x>>]
  <2>1. input \in [Indices -> Seq(Indices)]
    OBVIOUS
  <2>2. Slice(input, 0) = [x \in First |-> <<x>>]
    BY DEF SC!Restrict
  <2>3. Slice(input, 0) \in [First -> Seq(Indices)]
    <3>1. \A x \in Indices : <<x>> \in Seq(Indices)
      OBVIOUS
    <3>2. First \subseteq Indices
      OBVIOUS
    <3> HIDE DEF First, Slice
    <3> QED BY <2>2, <3>1, <3>2
  <2> HIDE DEF Slice, input, First
  <2> QED BY <2>1, <2>2, <2>3
<1>5. ASSUME NEW s \in V, NEW iv \in 1 .. m
      PROVE  /\ SumStep(s, iv) \in V
             /\ \A x \in First :
                   /\ Here(x, iv) \in Indices
                   /\ SumStep(s, iv).acc[x] = s.acc[x] \o s.tensor[Here(x, iv)]
             /\ \A x \in Indices :
                   /\ Here(x, 0) \in First
                   /\ SumStep(s, iv).tensor[x] =
                        IF x[axis] = iv THEN s.acc[Here(x, 0)] \o s.tensor[x] ELSE s.tensor[x]
  <2> DEFINE this == Slice(s.tensor, iv)
             acc == [x \in First |-> s.acc[x] \o this[Here(x, iv)]]
             tensor == [x \in Indices |-> IF x[axis] = iv THEN acc[Here(x, 0)] ELSE s.tensor[x]]
  <2>1. iv \in 0 .. m /\ 0 \in 0 .. m
    BY <1>1
  <2>2. s.acc \in [First -> Seq(Indices)] /\ s.tensor \in [Indices -> Seq(Indices)]
    OBVIOUS
  <2> HIDE DEF V, Slice
  <2>3. \A x \in Indices : Here(x, iv) \in Indices /\ Here(x, iv)[axis] = iv /\ Here(x, 0) \in First
    <3> HIDE DEF Here
    <3> QED BY <1>2, <2>1
  <2>4. \A x \in First : this[Here(x, iv)] = s.tensor[Here(x, iv)] /\ s.tensor[Here(x, iv)] \in Seq(Indices)
    <3> HIDE DEF Here
    <3> QED BY <1>3, <2>1, <2>2, <2>3
  <2>5. SumStep(s, iv) = [acc |-> acc, tensor |-> tensor]
    <3>1. DOMAIN s.acc = First /\ DOMAIN s.tensor = Indices
      BY <2>2
    <3> HIDE DEF Here, First
    <3> QED BY ONLY <3>1
  <2> HIDE DEF this
  <2>6. acc \in [First -> Seq(Indices)]
    <3>1. \A x \in First : s.acc[x] \in Seq(Indices)
      BY <2>2
    <3> HIDE DEF Here, First
    <3>2. \A x \in First : s.acc[x] \o this[Here(x, iv)] \in Seq(Indices)
      BY <2>4, <3>1
    <3> QED BY <3>2
  <2>7. \A x \in Indices :
          /\ Here(x, 0) \in First
          /\ tensor[x] = IF x[axis] = iv THEN s.acc[Here(x, 0)] \o s.tensor[x] ELSE s.tensor[x]
    <3> SUFFICES ASSUME NEW x \in Indices, x[axis] = iv
                 PROVE  tensor[x] = s.acc[Here(x, 0)] \o s.tensor[x]
      BY <2>3
    <3>1. Here(x, iv) = x /\ Here(Here(x, 0), iv) = Here(x, iv) /\ Here(x, 0) \in First
      <4> HIDE DEF Here
      <4> QED BY <1>2, <2>1, <2>3
    <3> HIDE DEF Here
    <3>2. tensor[x] = acc[Here(x, 0)]
      OBVIOUS
    <3>3. acc[Here(x, 0)] = s.acc[Here(x, 0)] \o this[Here(Here(x, 0), iv)]
      BY <3>1
    <3> HIDE DEF tensor, acc
    <3> QED BY <2>4, <3>1, <3>2, <3>3
  <2>8. tensor \in [Indices -> Seq(Indices)]
    <3> HIDE DEF Here, First, acc
    <3> QED BY <2>2, <2>3, <2>6
  <2>9. SumStep(s, iv) \in V
    <3> HIDE DEF SumStep, acc, tensor
    <3> QED BY <2>5, <2>6, <2>8 DEF V
  <2> QED
    <3>1. \A x \in First : x \in Indices /\ acc[x] = s.acc[x] \o s.tensor[Here(x, iv)]
      <4> HIDE DEF Here
      <4> QED BY <2>4
    <3> HIDE DEF SumStep, acc, tensor, Here
    <3>2. SumStep(s, iv).acc = acc /\ SumStep(s, iv).tensor = tensor
      BY <2>5
    <3> QED BY <2>3, <2>7, <2>9, <3>1, <3>2
<1>6. step \in [V \X (1 .. m) -> V]
  <2> HIDE DEF V, SumStep
  <2> QED BY <1>5
<1>7. PICK it \in [SUBSET (1 .. m) -> V] :
        \A s \in SUBSET (1 .. m) :
            it[s] = IF s = {} THEN base ELSE step[<<it[s \ {Max(s)}], Max(s)>>]
  <2>1. PICK it : FoldsBy(it, m, V, base, step)
    <3>1. m \in Nat
      BY <1>1
    <3> HIDE DEF base, step, V
    <3> QED BY <1>4, <1>6, <3>1, FoldExists, Zenon
  <2> HIDE DEF base, step, V
  <2> QED BY <2>1 DEF FoldsBy
<1>8. it = [s \in SUBSET DOMAIN idx |->
              IF s = {} THEN base ELSE SumStep(it[s \ {Max(s)}], idx[Max(s)])]
  <2>1. ASSUME NEW s \in SUBSET (1 .. m), s # {}
        PROVE  step[<<it[s \ {Max(s)}], Max(s)>>] = SumStep(it[s \ {Max(s)}], idx[Max(s)])
    <3>1. Max(s) \in 1 .. m
      BY <1>1, <2>1, FoldIndices
    <3>2. it[s \ {Max(s)}] \in V
      BY <1>7
    <3> HIDE DEF V, SumStep
    <3> QED BY <3>1, <3>2
  <2>2. DOMAIN idx = 1 .. m
    OBVIOUS
  <2> HIDE DEF V, SumStep, base, step, idx
  <2> QED BY <1>7, <2>1, <2>2
<1>9. PICK jt : /\ jt = [s \in SUBSET DOMAIN idx |->
                           IF s = {} THEN base ELSE SumStep(jt[s \ {Max(s)}], idx[Max(s)])]
                /\ SC!LowerCumSum(input, axis, size) = jt[DOMAIN idx].tensor
  <2>1. SC!LowerCumSum(input, axis, size) =
          (CHOOSE jt : jt = [s \in SUBSET DOMAIN idx |->
                              IF s = {} THEN base ELSE SumStep(jt[s \ {Max(s)}], idx[Max(s)])])[DOMAIN idx].tensor
    <3> HIDE DEF input
    <3> QED BY DEF SC!LowerCumSum, SC!Loop, SC!combine, SC!FoldLeft, SC!MapThenFoldSet, SC!Max, Max, m
  <2> HIDE DEF base, SumStep, idx
  <2> QED BY <1>8, <2>1
<1> DEFINE Line(x, k) == [j \in 1 .. k + 1 |-> Here(x, j - 1)]
           After(k) == [acc |-> [x \in First |-> Line(x, k)],
                        tensor |-> [x \in Indices |-> IF x[axis] <= k THEN Line(x, x[axis]) ELSE <<x>>]]
           S == {k \in 0 .. m : jt[1 .. k] = After(k)}
<1> HIDE DEF step
<1>10. \A x \in Indices, k \in 0 .. m : Line(x, k) \in Seq(Indices) /\ Len(Line(x, k)) = k + 1
  <2> SUFFICES ASSUME NEW x \in Indices, NEW k \in 0 .. m
               PROVE  Line(x, k) \in Seq(Indices) /\ Len(Line(x, k)) = k + 1
    OBVIOUS
  <2>1. \A j \in 1 .. k + 1 : Here(x, j - 1) \in Indices
    <3> HIDE DEF Here
    <3> QED BY <1>1, <1>2
  <2>2. k \in Nat
    BY <1>1
  <2> HIDE DEF Here, Indices, m
  <2>3. PICK line : line = Line(x, k)
    OBVIOUS
  <2> PICK n \in Nat : n = k + 1
    BY <2>2
  <2>4. n \in Nat /\ line \in [1 .. n -> Indices]
    BY ONLY <2>1, <2>3, n \in Nat, n = k + 1
  <2>5. line \in Seq(Indices) /\ Len(line) = n
    BY ONLY <2>4
  <2> QED BY ONLY <2>3, <2>5, n = k + 1
<1>11. \A k \in 0 .. m : After(k) \in V
  <2> SUFFICES ASSUME NEW k \in 0 .. m PROVE After(k) \in V
    OBVIOUS
  <2>1. \A x \in Indices : <<x>> \in Seq(Indices)
    OBVIOUS
  <2>2. First \subseteq Indices
    OBVIOUS
  <2> HIDE DEF Line, First
  <2> QED BY <1>1, <1>10, <2>1, <2>2
<1>12. \A x \in Indices : Line(x, 0) = <<Here(x, 0)>>
  <2> HIDE DEF Here
  <2> QED OBVIOUS
<1>13. 0 \in S
  <2>1. 1 .. 0 \in SUBSET DOMAIN idx /\ 1 .. 0 = {} /\ 0 \in 0 .. m
    BY <1>1
  <2>2. jt[1 .. 0] = base
    <3> HIDE DEF base, SumStep, idx
    <3> QED BY <1>9, <2>1
  <2>3. \A x \in First : Line(x, 0) = <<x>>
    <3> HIDE DEF Here, Line
    <3> QED BY <1>2, <1>12, <2>1
  <2>4. \A x \in Indices : x[axis] <= 0 => x[axis] = 0 /\ Line(x, x[axis]) = <<x>>
    <3> HIDE DEF Here, Line
    <3> QED BY <1>1, <1>2, <1>12, <2>1
  <2>5. base = After(0)
    <3> HIDE DEF Line, First, Slice
    <3> QED BY <1>4, <2>3, <2>4
  <2> HIDE DEF base, After
  <2> QED BY <2>1, <2>2, <2>5
<1>14. ASSUME NEW k \in 0 .. m - 1, k \in S PROVE k + 1 \in S
  <2>1. k + 1 \in 1 .. m /\ (k + 1) - 1 = k /\ k + 1 \in 0 .. m /\ k \in 0 .. m /\ 0 \in 0 .. m
    BY <1>1
  <2>2. /\ 1 .. (k + 1) \in SUBSET DOMAIN idx /\ 1 .. (k + 1) # {}
        /\ Max(1 .. (k + 1)) = k + 1 /\ (1 .. (k + 1)) \ {k + 1} = 1 .. k
    BY <1>1, <2>1, FoldIndices
  <2>3. jt[1 .. (k + 1)] = SumStep(jt[1 .. k], k + 1)
    <3>1. jt[1 .. (k + 1)] = SumStep(jt[1 .. k], idx[k + 1])
      <4> HIDE DEF SumStep, base
      <4> QED BY <1>9, <2>2
    <3>2. idx[k + 1] = k + 1
      BY <2>1
    <3> HIDE DEF SumStep
    <3> QED BY <3>1, <3>2
  <2>4. jt[1 .. k] = After(k)
    BY <1>14
  <2> PICK s \in V : s = After(k)
    <3> HIDE DEF After, V
    <3> QED BY <1>11, <2>1
  <2> PICK iv \in 1 .. m : iv = k + 1
    BY <2>1
  <2>5. ASSUME NEW x \in Indices
        PROVE  Line(x, k) \o <<Here(x, iv)>> = Line(x, iv)
    <3> PICK new \in Indices : new = Here(x, iv)
      <4> HIDE DEF Here
      <4> QED BY <1>2, <2>1
    <3> PICK old \in Seq(Indices) : old = Line(x, k) /\ Len(old) = k + 1
      <4> HIDE DEF Line
      <4> QED BY <1>10, <2>1
    <3>0. iv \in Nat /\ Len(old) = iv /\ k + 1 = iv
      BY <1>1
    <3>1. old \o <<new>> = [j \in 1 .. iv + 1 |-> IF j <= iv THEN old[j] ELSE new]
      <4> PICK ix : ix = Indices
        OBVIOUS
      <4>1. old \in Seq(ix) /\ new \in ix
        OBVIOUS
      <4>2. iv \in Nat /\ Len(old) = iv
        BY <3>0
      <4>3. old \o <<new>> = Longer(old, iv, new)
        BY ONLY <4>1, <4>2, AppendEntries
      <4> QED BY <4>3 DEF Longer
    <3>2. \A j \in 1 .. iv : old[j] = Here(x, j - 1)
      <4> HIDE DEF Here
      <4> QED BY <3>0
    <3>3. \A j \in 1 .. iv + 1 : (IF j <= iv THEN old[j] ELSE new) = Here(x, j - 1)
      <4>1. \A j \in 1 .. iv + 1 : j <= iv \/ j - 1 = iv
        OBVIOUS
      <4>2. \A j \in 1 .. iv + 1 : j <= iv => j \in 1 .. iv
        OBVIOUS
      <4> HIDE DEF Here
      <4> QED BY <3>2, <4>1, <4>2
    <3> HIDE DEF Here
    <3> QED BY <3>1, <3>3
  <2>6. /\ SumStep(s, iv) \in V
        /\ \A x \in First :
              /\ Here(x, iv) \in Indices
              /\ SumStep(s, iv).acc[x] = s.acc[x] \o s.tensor[Here(x, iv)]
        /\ \A x \in Indices :
              /\ Here(x, 0) \in First
              /\ SumStep(s, iv).tensor[x] =
                   IF x[axis] = iv THEN s.acc[Here(x, 0)] \o s.tensor[x] ELSE s.tensor[x]
    <3> HIDE DEF V, SumStep, Here, First
    <3> QED BY <1>5
  <2> PICK t \in V : t = SumStep(s, iv)
    <3> HIDE DEF V, SumStep
    <3> QED BY <2>6
  <2> PICK sa \in [First -> Seq(Indices)], sb \in [Indices -> Seq(Indices)] : s = [acc |-> sa, tensor |-> sb]
    <3> HIDE DEF First, After, SumStep
    <3> QED OBVIOUS
  <2> PICK ta \in [First -> Seq(Indices)], tb \in [Indices -> Seq(Indices)] : t = [acc |-> ta, tensor |-> tb]
    <3> HIDE DEF First, After, SumStep
    <3> QED OBVIOUS
  <2>7. \A x \in First : x \in Indices /\ sa[x] = Line(x, k)
    <3>1. sa = [x \in First |-> Line(x, k)]
      <4> HIDE DEF Line, First
      <4> QED OBVIOUS
    <3> HIDE DEF Line
    <3> QED BY <3>1
  <2>8. \A x \in Indices : sb[x] = IF x[axis] <= k THEN Line(x, x[axis]) ELSE <<x>>
    <3>1. sb = [x \in Indices |-> IF x[axis] <= k THEN Line(x, x[axis]) ELSE <<x>>]
      <4> HIDE DEF Line, First
      <4> QED OBVIOUS
    <3> HIDE DEF Line
    <3> QED BY <3>1
  <2>9. /\ \A x \in First :
              /\ Here(x, iv) \in Indices
              /\ ta[x] = sa[x] \o sb[Here(x, iv)]
        /\ \A x \in Indices :
              /\ Here(x, 0) \in First
              /\ tb[x] = IF x[axis] = iv THEN sa[Here(x, 0)] \o sb[x] ELSE sb[x]
    <3>1. /\ s.acc = sa /\ s.tensor = sb
          /\ SumStep(s, iv).acc = ta /\ SumStep(s, iv).tensor = tb
      <4> HIDE DEF SumStep, After, First
      <4> QED OBVIOUS
    <3> HIDE DEF V, SumStep, Here, First, After
    <3> QED BY ONLY <2>6, <3>1
  <2>10. iv \in 0 .. m /\ ~(iv <= k) /\ \A v \in 0 .. m : v # iv => (v <= iv <=> v <= k)
    BY <1>1, <2>1
  <2>11. \A x \in Indices : x[axis] = iv => sb[x] = <<x>> /\ Here(x, iv) = x
    <3> HIDE DEF Here, Line, After, SumStep, V
    <3> QED BY <1>2, <2>8, <2>10
  <2>12. \A x \in First : ta[x] = Line(x, iv)
    <3> SUFFICES ASSUME NEW x \in First PROVE ta[x] = Line(x, iv)
      OBVIOUS
    <3>1. x \in Indices /\ Here(x, iv) \in Indices /\ Here(x, iv)[axis] = iv
      <4> HIDE DEF Here
      <4> QED BY <1>2, <2>7, <2>10
    <3>2. sb[Here(x, iv)] = <<Here(x, iv)>>
      <4> HIDE DEF Here, Line
      <4> QED BY <2>11, <3>1
    <3> HIDE DEF Here, Line, First
    <3> QED BY ONLY x \in First, <2>5, <2>7, <2>9, <3>2
  <2>13. \A x \in Indices : tb[x] = IF x[axis] <= iv THEN Line(x, x[axis]) ELSE <<x>>
    <3> SUFFICES ASSUME NEW x \in Indices
                 PROVE  tb[x] = IF x[axis] <= iv THEN Line(x, x[axis]) ELSE <<x>>
      OBVIOUS
    <3>0. x \in Indices /\ x[axis] \in 0 .. m
      BY <1>1
    <3>1. CASE x[axis] = iv
      <4>1. Here(x, 0) \in First /\ Here(x, 0) \in Indices
        <5> HIDE DEF Here
        <5> QED BY <2>7, <2>9
      <4>2. Line(Here(x, 0), k) = Line(x, k)
        <5>1. \A j \in 1 .. k + 1 : j - 1 \in 0 .. m
          BY <1>1
        <5>2. \A j \in 1 .. k + 1 : Here(Here(x, 0), j - 1) = Here(x, j - 1)
          <6> HIDE DEF Here
          <6> QED BY <1>2, <2>1, <5>1
        <5> HIDE DEF Here
        <5> QED BY <5>2
      <4>3. tb[x] = Line(x, k) \o <<Here(x, iv)>>
        <5> HIDE DEF Line, Here, First
        <5> QED BY ONLY <2>7, <2>9, <2>11, <3>0, <3>1, <4>1, <4>2
      <4>4. x[axis] <= iv
        BY <2>10, <3>1
      <4> HIDE DEF Line, Here
      <4> QED BY ONLY <2>5, <3>0, <3>1, <4>3, <4>4
    <3>2. CASE x[axis] # iv
      <4>1. x[axis] <= iv <=> x[axis] <= k
        BY <2>10, <3>0, <3>2
      <4> HIDE DEF Line, Here
      <4> QED BY ONLY <2>8, <2>9, <3>0, <3>2, <4>1
    <3> QED BY <3>1, <3>2
  <2>14. t = After(iv)
    <3> HIDE DEF Line, First, SumStep, V
    <3>1. ta = [x \in First |-> Line(x, iv)]
      BY <2>12
    <3>2. tb = [x \in Indices |-> IF x[axis] <= iv THEN Line(x, x[axis]) ELSE <<x>>]
      BY <2>13
    <3> QED BY <3>1, <3>2
  <2> HIDE DEF After, SumStep, V
  <2> QED BY <2>1, <2>3, <2>4, <2>14
<1>15. m \in S
  <2> HIDE DEF S
  <2>1. m \in Nat /\ m \in 0 .. m
    BY <1>1
  <2>2. \A k \in 0 .. m - 1 : k \in S => k + 1 \in S
    BY <1>14
  <2> QED BY <1>13, <2>1, <2>2, Induction
<1>16. SC!LowerCumSum(input, axis, size) = [x \in Indices |-> Line(x, x[axis])]
  <2>1. DOMAIN idx = 1 .. m
    OBVIOUS
  <2>2. jt[1 .. m].tensor = [x \in Indices |-> Line(x, x[axis])]
    <3> HIDE DEF Line, First
    <3> QED BY <1>1, <1>15
  <2> HIDE DEF idx, Line
  <2> QED BY <1>9, <2>1, <2>2
<1> QED BY <1>16 DEF SC!SumsAlong, Indices

\* An order of the elements of a set.
IsOrderOf(R, S) ==
    /\ \A x \in S : <<x, x>> \notin R
    /\ \A x, y, z \in S : <<x, y>> \in R /\ <<y, z>> \in R => <<x, z>> \in R
    /\ \A x, y \in S : x # y => <<x, y>> \in R \/ <<y, x>> \in R

\* The element of rank i has i elements before it.
Ranked(i, R, S) == CHOOSE x \in S : Cardinality({y \in S : <<y, x>> \in R}) = i

\* The elements of a set in the order of their ranks are the set, each once.
LEMMA RankOrder ==
    ASSUME NEW S, IsFiniteSet(S), NEW R, IsOrderOf(R, S),
           NEW n \in Nat, n = Cardinality(S), NEW sorted, sorted = [i \in 1 .. n |-> Ranked(i - 1, R, S)]
    PROVE  sorted \in [1 .. n -> S] /\ \A x \in S : \E i \in 1 .. n : sorted[i] = x
<1> USE DEF IsOrderOf, Ranked
<1> DEFINE Below(x) == {y \in S : <<y, x>> \in R}
<1>1. \A i \in 1 .. n : \E x \in S : Cardinality(Below(x)) = i - 1
  <2>1. /\ IsFiniteSet(S)
        /\ \A x \in S : <<x, x>> \notin R
        /\ \A x, y, z \in S : <<x, y>> \in R /\ <<y, z>> \in R => <<x, z>> \in R
        /\ \A x, y \in S : x # y => <<x, y>> \in R \/ <<y, x>> \in R
    OBVIOUS
  <2>2. \A i \in 1 .. Cardinality(S) : \E x \in S : Cardinality({y \in S : <<y, x>> \in R}) = i - 1
    BY ONLY <2>1, RankExists, Zenon
  <2> QED BY ONLY <2>2, n = Cardinality(S)
<1>2. \A i \in 1 .. n : sorted[i] \in S /\ Cardinality(Below(sorted[i])) = i - 1
  <2> HIDE DEF Below
  <2>1. \A i \in 1 .. n : sorted[i] = CHOOSE x \in S : Cardinality(Below(x)) = i - 1
    BY DEF Below
  <2> QED BY <1>1, <2>1
<1>3. ASSUME NEW x \in S, NEW y \in S, <<x, y>> \in R
      PROVE  Cardinality(Below(x)) # Cardinality(Below(y)) /\ Cardinality(Below(x)) \in Nat
  <2>1. Below(x) \in SUBSET Below(y) /\ x \in Below(y) /\ x \notin Below(x)
    BY <1>3
  <2>2. IsFiniteSet(Below(y)) /\ IsFiniteSet(Below(x))
    BY FS_Subset
  <2> QED BY <2>1, <2>2, FS_Subset, FS_CardinalityType
<1>4. ASSUME NEW x \in S PROVE \E i \in 1 .. n : sorted[i] = x
  <2>1. Below(x) \in SUBSET S /\ Below(x) # S
    OBVIOUS
  <2>2. Cardinality(Below(x)) \in Nat /\ Cardinality(Below(x)) < n
    <3>1. IsFiniteSet(Below(x)) /\ Cardinality(Below(x)) <= Cardinality(S) /\ Cardinality(Below(x)) # Cardinality(S)
      BY <2>1, FS_Subset
    <3>2. Cardinality(Below(x)) \in Nat
      BY <3>1, FS_CardinalityType
    <3> HIDE DEF Below
    <3> QED BY <3>1, <3>2
  <2> HIDE DEF Below
  <2> PICK i \in 1 .. n : i - 1 = Cardinality(Below(x))
    <3> PICK c \in Nat : c = Cardinality(Below(x)) /\ c < n
      BY <2>2
    <3>1. c + 1 \in 1 .. n /\ (c + 1) - 1 = c
      OBVIOUS
    <3> QED BY <3>1
  <2>3. sorted[i] \in S /\ Cardinality(Below(sorted[i])) = Cardinality(Below(x))
    BY <1>2
  <2>4. sorted[i] = x
    BY <1>3, <2>3
  <2> QED BY <2>4
<1>5. sorted \in [1 .. n -> S]
  BY <1>2
<1> QED BY <1>4, <1>5

(***************************************************************************)
(* Copies between buffers (HexagonBuffer.cpp).                               *)
(***************************************************************************)
\* Numbers that place the regions of a buffer.
IsBuffer(buf) ==
    /\ {buf.base, buf.stride, buf.numRegions, buf.regionSizeBytes} \subseteq Nat
    /\ buf.regionSizeBytes <= buf.stride

\* Quotient and remainder are the only such numbers.
LEMMA DivUnique ==
    ASSUME NEW size \in Nat \ {0}, NEW q \in Nat, NEW k \in Nat, q * size <= k, k < q * size + size
    PROVE  k \div size = q /\ k % size = k - q * size
<1> PICK r \in Nat, m \in 0 .. size - 1 : r = k \div size /\ m = k % size /\ k = size * r + m
  <2>1. k \div size \in Nat /\ k % size \in 0 .. size - 1 /\ k = size * (k \div size) + (k % size)
    BY DivMod
  <2> QED BY <2>1
<1> PICK qs \in Nat, rs \in Nat : qs = q * size /\ rs = r * size
  OBVIOUS
<1>1. size * r = rs
  OBVIOUS
<1>2. k = rs + m /\ qs <= k /\ k < qs + size
  BY <1>1
<1>3. ~(r < q)
  <2>1. size \in Nat \ {0} /\ r \in Int /\ q \in Int
    OBVIOUS
  <2>2. r < q => r * size + size <= q * size
    BY ONLY <2>1, TilesApart
  <2>3. r < q => rs + size <= qs
    BY <2>2
  <2> QED BY ONLY <1>2, <2>3, k \in Nat, m \in 0 .. size - 1, size \in Nat \ {0}, qs \in Nat, rs \in Nat
<1>4. ~(q < r)
  <2>1. size \in Nat \ {0} /\ r \in Int /\ q \in Int
    OBVIOUS
  <2>2. q < r => q * size + size <= r * size
    BY ONLY <2>1, TilesApart
  <2>3. q < r => qs + size <= rs
    BY <2>2
  <2> QED BY ONLY <1>2, <2>3, k \in Nat, m \in 0 .. size - 1, size \in Nat \ {0}, qs \in Nat, rs \in Nat
<1>5. r = q
  BY ONLY <1>3, <1>4, r \in Nat, q \in Nat
<1>6. rs = qs
  BY <1>5
<1>7. m = k - qs
  BY ONLY <1>2, <1>6, k \in Nat, m \in 0 .. size - 1, size \in Nat \ {0}, qs \in Nat, rs \in Nat
<1> QED BY <1>5, <1>7

\* A later byte has a later place.
LEMMA PlacesInOrder ==
    ASSUME NEW size \in Nat \ {0}, NEW stride \in Nat, size <= stride, NEW k \in Nat, NEW l \in Nat, k < l
    PROVE  /\ (k \div size) * stride + (k % size) \in Nat
           /\ (k \div size) * stride + (k % size) < (l \div size) * stride + (l % size)
<1> PICK q \in Nat, m \in 0 .. size - 1 : q = k \div size /\ m = k % size /\ k = size * q + m
  <2>1. k \div size \in Nat /\ k % size \in 0 .. size - 1 /\ k = size * (k \div size) + (k % size)
    BY DivMod
  <2> QED BY <2>1
<1> PICK r \in Nat, o \in 0 .. size - 1 : r = l \div size /\ o = l % size /\ l = size * r + o
  <2>1. l \div size \in Nat /\ l % size \in 0 .. size - 1 /\ l = size * (l \div size) + (l % size)
    BY DivMod
  <2> QED BY <2>1
<1>0. \A x \in Nat, y \in Nat : x * y \in Nat
  BY ONLY Nat = Nat
<1> PICK a \in Nat, b \in Nat : a = q * size /\ b = r * size
  BY ONLY <1>0, q \in Nat, r \in Nat, size \in Nat
<1> PICK qs \in Nat, rs \in Nat : qs = q * stride /\ rs = r * stride
  BY ONLY <1>0, q \in Nat, r \in Nat, stride \in Nat
<1>1. k = a + m /\ l = b + o
  <2>1. size * q = a /\ size * r = b
    OBVIOUS
  <2> QED BY <2>1
<1>2. ~(r < q)
  <2>1. r < q => r * size + size <= q * size
    BY ONLY size \in Nat \ {0}, r \in Nat, q \in Nat, TilesApart
  <2>2. r < q => b + size <= a
    BY <2>1
  <2> QED BY ONLY <1>1, <2>2, k < l, k \in Nat, l \in Nat, m \in 0 .. size - 1, o \in 0 .. size - 1,
                  size \in Nat \ {0}, a \in Nat, b \in Nat
<1>3. CASE q = r
  <2>1. a = b /\ qs = rs
    BY <1>3
  <2>2. qs + m \in Nat /\ qs + m < rs + o
    BY ONLY <1>1, <2>1, k < l, m \in 0 .. size - 1, o \in 0 .. size - 1,
            size \in Nat \ {0}, a \in Nat, b \in Nat, qs \in Nat, rs \in Nat
  <2> QED BY <2>2
<1>4. CASE q < r
  <2>1. q * stride + stride <= r * stride
    <3>1. stride \in Nat \ {0} /\ q \in Int /\ r \in Int
      OBVIOUS
    <3> QED BY ONLY <1>4, <3>1, TilesApart
  <2>2. qs + stride <= rs
    BY <2>1
  <2>3. qs + m \in Nat /\ qs + m < rs + o
    BY ONLY <2>2, size <= stride, m \in 0 .. size - 1, o \in 0 .. size - 1,
            size \in Nat \ {0}, stride \in Nat, qs \in Nat, rs \in Nat
  <2> QED BY <2>3
<1>5. q = r \/ q < r
  BY ONLY <1>2, q \in Nat, r \in Nat
<1> QED BY <1>3, <1>4, <1>5

\* A byte below the end of the last region is in one of the regions.
LEMMA RegionOf ==
    ASSUME NEW size \in Nat \ {0}, NEW regions \in Nat, NEW k \in Nat, k < regions * size
    PROVE  k \div size \in 0 .. regions - 1 /\ k % size \in 0 .. size - 1
<1> PICK q \in Nat, m \in 0 .. size - 1 : q = k \div size /\ m = k % size /\ k = size * q + m
  <2>1. k \div size \in Nat /\ k % size \in 0 .. size - 1 /\ k = size * (k \div size) + (k % size)
    BY DivMod
  <2> QED BY <2>1
<1> PICK a \in Nat, b \in Nat : a = size * q /\ b = size * regions
  OBVIOUS
<1>1. regions * size = b
  OBVIOUS
<1>2. regions <= q => b <= a
  <2>1. regions <= q => size * regions <= size * q
    BY ONLY size \in Nat \ {0}, regions \in Nat, q \in Nat, TimesMonotone
  <2> QED BY <2>1
<1>3. k < b /\ k = a + m
  BY <1>1
<1>4. ~(regions <= q)
  BY ONLY <1>2, <1>3, a \in Nat, b \in Nat, m \in 0 .. size - 1, size \in Nat \ {0}, k \in Nat
<1>5. q \in 0 .. regions - 1
  BY ONLY <1>4, q \in Nat, regions \in Nat
<1> QED BY <1>5

\* The bytes of one region follow each other.
LEMMA BytesOfRegion ==
    ASSUME NEW buf, IsBuffer(buf), buf.regionSizeBytes # 0, NEW region \in Nat, NEW k \in Nat,
           region * buf.regionSizeBytes <= k, k < region * buf.regionSizeBytes + buf.regionSizeBytes
    PROVE  /\ k \div buf.regionSizeBytes = region
           /\ k % buf.regionSizeBytes = k - region * buf.regionSizeBytes
           /\ HB!ByteAt(buf, k) = HB!pointer_to(buf, region, k - region * buf.regionSizeBytes)
<1> PICK size \in Nat \ {0} : size = buf.regionSizeBytes
  BY DEF IsBuffer
<1>1. k \div size = region /\ k % size = k - region * size
  BY DivUnique
<1> QED BY <1>1 DEF HB!ByteAt

\* Later bytes of a buffer lie at greater addresses.
LEMMA BytesInOrder ==
    ASSUME NEW buf, IsBuffer(buf), buf.regionSizeBytes # 0, NEW k \in Nat, NEW l \in Nat, k < l
    PROVE  HB!ByteAt(buf, k) \in Nat /\ HB!ByteAt(buf, k) < HB!ByteAt(buf, l)
<1> PICK size \in Nat \ {0}, stride \in Nat, base \in Nat :
        size = buf.regionSizeBytes /\ stride = buf.stride /\ base = buf.base /\ size <= stride
  BY DEF IsBuffer
<1>1. /\ (k \div size) * stride + (k % size) \in Nat
      /\ (k \div size) * stride + (k % size) < (l \div size) * stride + (l % size)
  BY PlacesInOrder
<1>2. \A x \in Nat : x \div size \in Nat /\ x % size \in 0 .. size - 1
  BY DivMod
<1> PICK a \in Nat, b \in Nat, m \in Nat, o \in Nat :
        a = (k \div size) * stride /\ b = (l \div size) * stride /\ m = k % size /\ o = l % size
  <2> PICK q \in Nat, r \in Nat : q = k \div size /\ r = l \div size
    BY <1>2
  <2>1. q * stride \in Nat /\ r * stride \in Nat
    OBVIOUS
  <2>2. k % size \in Nat /\ l % size \in Nat
    BY <1>2
  <2> QED BY <2>1, <2>2
<1>3. HB!ByteAt(buf, k) = base + a + m /\ HB!ByteAt(buf, l) = base + b + o
  BY DEF HB!ByteAt, HB!pointer_to
<1>4. a + m < b + o
  BY <1>1
<1>5. base + a + m \in Nat /\ base + a + m < base + b + o
  BY ONLY <1>4, base \in Nat, a \in Nat, b \in Nat, m \in Nat, o \in Nat
<1> QED BY <1>3, <1>5

\* The bytes of a buffer are where its regions are.
LEMMA BytesInside ==
    ASSUME NEW buf, IsBuffer(buf), NEW k \in Nat, k < HB!TotalBytes(buf)
    PROVE  HB!ByteAt(buf, k) \in HB!Bytes(buf) /\ buf.regionSizeBytes # 0
<1> PICK size \in Nat, regions \in Nat : size = buf.regionSizeBytes /\ regions = buf.numRegions
  BY DEF IsBuffer
<1>1. k < regions * size
  BY DEF HB!TotalBytes
<1>2. size # 0
  <2> SUFFICES ASSUME size = 0 PROVE FALSE
    OBVIOUS
  <2>1. regions * 0 = 0
    OBVIOUS
  <2> QED BY <1>1, <2>1
<1>3. k \div size \in 0 .. regions - 1 /\ k % size \in 0 .. size - 1
  BY <1>1, <1>2, RegionOf
<1> QED BY <1>2, <1>3 DEF HB!ByteAt, HB!Bytes

\* The bytes a copy moves: from where and to where.
Copy == [src : Nat, dest : Nat, numBytes : Nat]
Moves(c) == {<<c.src + i, c.dest + i>> : i \in 0 .. c.numBytes - 1}

\* The bytes that are asked for.
Asked(dest, src, n) == {<<HB!ByteAt(src, k), HB!ByteAt(dest, k)>> : k \in 0 .. n - 1}

\* Copies that start at different bytes and together move what is asked.
IsCutOf(copies, moves) ==
    /\ IsFiniteSet(copies) /\ copies \subseteq Copy
    /\ UNION {Moves(c) : c \in copies} = moves
    /\ \A c, d \in copies : c.src = d.src => c = d

\* The later of two bytes.
LEMMA LaterByte ==
    ASSUME NEW x \in Nat, NEW y \in Nat
    PROVE  /\ HB!Max({x, y}) \in {x, y} /\ x <= HB!Max({x, y}) /\ y <= HB!Max({x, y})
<1>1. \E a \in {x, y} : \A b \in {x, y} : a >= b
  BY ONLY x \in Nat, y \in Nat
<1>2. HB!Max({x, y}) \in {x, y} /\ \A b \in {x, y} : HB!Max({x, y}) >= b
  BY <1>1 DEF HB!Max
<1> QED BY <1>2

\* The first of three bytes.
LEMMA FirstByte ==
    ASSUME NEW x \in Nat, NEW y \in Nat, NEW z \in Nat
    PROVE  /\ HB!Min({x, y, z}) \in {x, y, z}
           /\ HB!Min({x, y, z}) <= x /\ HB!Min({x, y, z}) <= y /\ HB!Min({x, y, z}) <= z
<1>1. \E a \in {x, y, z} : \A b \in {x, y, z} : a <= b
  BY ONLY x \in Nat, y \in Nat, z \in Nat
<1>2. HB!Min({x, y, z}) \in {x, y, z} /\ \A b \in {x, y, z} : HB!Min({x, y, z}) <= b
  BY <1>1 DEF HB!Min
<1> QED BY <1>2

\* In a region a later byte lies as much further as it is later.
LEMMA BytesOfPart ==
    ASSUME NEW buf, IsBuffer(buf), buf.regionSizeBytes # 0, NEW region \in Nat, NEW b \in Nat, NEW e \in Nat,
           region * buf.regionSizeBytes <= b, b < e, e <= (region + 1) * buf.regionSizeBytes
    PROVE  /\ b \div buf.regionSizeBytes = region
           /\ HB!pointer_to(buf, region, b % buf.regionSizeBytes) = HB!ByteAt(buf, b)
           /\ HB!ByteAt(buf, b) \in Nat
           /\ \A k \in b .. e - 1 : HB!ByteAt(buf, k) = HB!ByteAt(buf, b) + (k - b)
<1> PICK size \in Nat \ {0}, stride \in Nat, base \in Nat :
        size = buf.regionSizeBytes /\ stride = buf.stride /\ base = buf.base
  BY DEF IsBuffer
<1>0. \A x \in Nat, y \in Nat : x * y \in Nat /\ (x + 1) * y = x * y + y
  BY ONLY Nat = Nat
<1> PICK at \in Nat, rs \in Nat : at = region * size /\ rs = region * stride
  BY ONLY <1>0, region \in Nat, size \in Nat \ {0}, stride \in Nat
<1>1. at <= b /\ b < e /\ e <= at + size
  <2>1. (region + 1) * size = at + size
    BY <1>0
  <2> QED BY <2>1
<1>2. ASSUME NEW k \in b .. e - 1
      PROVE  k \in Nat /\ k \div size = region /\ k % size = k - at
             /\ HB!ByteAt(buf, k) = base + rs + (k - at)
  <2>1. k \in Nat /\ at <= k /\ k < at + size
    BY ONLY <1>1, k \in b .. e - 1, b \in Nat, e \in Nat, at \in Nat, size \in Nat \ {0}
  <2>2. k \div size = region /\ k % size = k - region * size
    BY <2>1, DivUnique
  <2> QED BY <2>1, <2>2 DEF HB!ByteAt, HB!pointer_to
<1>3. b \in b .. e - 1
  BY <1>1
<1>4. HB!ByteAt(buf, b) = base + rs + (b - at) /\ b \div size = region /\ b % size = b - at
  BY <1>2, <1>3
<1>5. HB!pointer_to(buf, region, b % size) = HB!ByteAt(buf, b)
  BY <1>4 DEF HB!ByteAt
<1>6. \A k \in b .. e - 1 : base + rs + (k - at) = base + rs + (b - at) + (k - b)
  BY ONLY <1>1, b \in Nat, e \in Nat, at \in Nat, base \in Nat, rs \in Nat
<1>7. base + rs + (b - at) \in Nat
  BY ONLY <1>1, b \in Nat, at \in Nat, base \in Nat, rs \in Nat
<1> QED BY <1>2, <1>4, <1>5, <1>6, <1>7

\* HexagonBuffer.cpp, MemoryCopies: the pieces move exactly what is asked.
LEMMA PiecesMoveAll ==
    ASSUME NEW dest, NEW src, NEW n \in Nat, IsBuffer(dest), IsBuffer(src),
           dest.regionSizeBytes # 0, src.regionSizeBytes # 0,
           n <= HB!TotalBytes(dest), n <= HB!TotalBytes(src)
    PROVE  IsCutOf(HB!MemoryCopies(dest, src, n), Asked(dest, src, n))
<1> PICK A \in Nat \ {0}, B \in Nat \ {0}, s \in Nat, d \in Nat :
        A = src.regionSizeBytes /\ B = dest.regionSizeBytes /\ s = src.numRegions /\ d = dest.numRegions
  BY DEF IsBuffer
<1> DEFINE Begin(i, j) == HB!Max({i * A, j * B})
           End(i, j) == HB!Min({(i + 1) * A, (j + 1) * B, n})
           Pairs == (0 .. s) \X (0 .. d)
           Sharing == {ij \in Pairs : Begin(ij[1], ij[2]) < End(ij[1], ij[2])}
           Piece(ij) == [src |-> HB!pointer_to(src, ij[1], Begin(ij[1], ij[2]) % A),
                         dest |-> HB!pointer_to(dest, ij[2], Begin(ij[1], ij[2]) % B),
                         numBytes |-> End(ij[1], ij[2]) - Begin(ij[1], ij[2])]
           copies == {Piece(ij) : ij \in Sharing}
           SA(k) == HB!ByteAt(src, k)
           DA(k) == HB!ByteAt(dest, k)
<1>1. HB!MemoryCopies(dest, src, n) = copies
  BY DEF HB!MemoryCopies
<1>2. ASSUME NEW i \in Nat, NEW j \in Nat
      PROVE  /\ Begin(i, j) \in Nat /\ End(i, j) \in Nat
             /\ i * A <= Begin(i, j) /\ j * B <= Begin(i, j)
             /\ End(i, j) <= (i + 1) * A /\ End(i, j) <= (j + 1) * B /\ End(i, j) <= n
             /\ \A k \in Nat : i * A <= k /\ j * B <= k => Begin(i, j) <= k
             /\ \A k \in Nat : k < (i + 1) * A /\ k < (j + 1) * B /\ k < n => k < End(i, j)
  <2>0. \A x \in Nat, y \in Nat : x * y \in Nat /\ (x + 1) * y \in Nat
    BY ONLY Nat = Nat
  <2> PICK x \in Nat, y \in Nat, u \in Nat, v \in Nat :
          x = i * A /\ y = j * B /\ u = (i + 1) * A /\ v = (j + 1) * B
    BY ONLY <2>0, i \in Nat, j \in Nat, A \in Nat \ {0}, B \in Nat \ {0}
  <2>1. HB!Max({x, y}) \in {x, y} /\ x <= HB!Max({x, y}) /\ y <= HB!Max({x, y})
    BY LaterByte
  <2>2. HB!Min({u, v, n}) \in {u, v, n}
        /\ HB!Min({u, v, n}) <= u /\ HB!Min({u, v, n}) <= v /\ HB!Min({u, v, n}) <= n
    BY FirstByte
  <2>3. Begin(i, j) = HB!Max({x, y}) /\ End(i, j) = HB!Min({u, v, n})
    OBVIOUS
  <2> HIDE DEF Begin, End
  <2> PICK b, e : b = Begin(i, j) /\ e = End(i, j)
    OBVIOUS
  <2>4. b \in {x, y} /\ x <= b /\ y <= b /\ e \in {u, v, n} /\ e <= u /\ e <= v /\ e <= n
    BY <2>1, <2>2, <2>3
  <2>5. b \in Nat /\ e \in Nat /\ (\A k \in Nat : x <= k /\ y <= k => b <= k)
        /\ \A k \in Nat : k < u /\ k < v /\ k < n => k < e
    BY ONLY <2>4, x \in Nat, y \in Nat, u \in Nat, v \in Nat, n \in Nat
  <2> QED BY <2>4, <2>5
<1> HIDE DEF Begin, End
<1>3. ASSUME NEW ij \in Sharing
      PROVE  /\ Begin(ij[1], ij[2]) \in Nat /\ End(ij[1], ij[2]) \in Nat
             /\ Begin(ij[1], ij[2]) < End(ij[1], ij[2]) /\ End(ij[1], ij[2]) <= n
             /\ Begin(ij[1], ij[2]) \div A = ij[1] /\ Begin(ij[1], ij[2]) \div B = ij[2]
             /\ Piece(ij) \in Copy /\ Piece(ij).src = SA(Begin(ij[1], ij[2]))
             /\ Moves(Piece(ij)) = {<<SA(k), DA(k)>> : k \in Begin(ij[1], ij[2]) .. End(ij[1], ij[2]) - 1}
  <2> PICK i \in Nat, j \in Nat : i = ij[1] /\ j = ij[2]
    OBVIOUS
  <2>a. Begin(i, j) < End(i, j)
    OBVIOUS
  <2>b. /\ Begin(i, j) \in Nat /\ End(i, j) \in Nat /\ i * A <= Begin(i, j) /\ j * B <= Begin(i, j)
        /\ End(i, j) <= (i + 1) * A /\ End(i, j) <= (j + 1) * B /\ End(i, j) <= n
    BY ONLY <1>2, i \in Nat, j \in Nat
  <2> PICK b, e : b = Begin(i, j) /\ e = End(i, j)
    OBVIOUS
  <2>c. /\ b \in Nat /\ e \in Nat /\ b < e /\ e <= n
        /\ i * A <= b /\ e <= (i + 1) * A /\ j * B <= b /\ e <= (j + 1) * B
    BY ONLY <2>a, <2>b, b = Begin(i, j), e = End(i, j)
  <2> USE <2>c
  <2>1. /\ b \div A = i /\ HB!pointer_to(src, i, b % A) = SA(b) /\ SA(b) \in Nat
        /\ \A k \in b .. e - 1 : SA(k) = SA(b) + (k - b)
    BY BytesOfPart
  <2>2. /\ b \div B = j /\ HB!pointer_to(dest, j, b % B) = DA(b) /\ DA(b) \in Nat
        /\ \A k \in b .. e - 1 : DA(k) = DA(b) + (k - b)
    BY BytesOfPart
  <2> HIDE DEF SA, DA
  <2> PICK len \in Nat : len = e - b
    OBVIOUS
  <2> PICK x \in Nat, y \in Nat : x = SA(b) /\ y = DA(b)
    BY <2>1, <2>2
  <2>3. Piece(ij) = [src |-> x, dest |-> y, numBytes |-> len]
    BY <2>1, <2>2
  <2>4. Moves(Piece(ij)) = {<<x + m, y + m>> : m \in 0 .. len - 1}
    BY <2>3 DEF Moves
  <2>5. \A k \in b .. e - 1 : k - b \in 0 .. len - 1 /\ <<SA(k), DA(k)>> = <<x + (k - b), y + (k - b)>>
    BY <2>1, <2>2
  <2>6. \A m \in 0 .. len - 1 : b + m \in b .. e - 1 /\ <<x + m, y + m>> = <<SA(b + m), DA(b + m)>>
    <3> TAKE m \in 0 .. len - 1
    <3>1. b + m \in b .. e - 1 /\ (b + m) - b = m
      OBVIOUS
    <3> QED BY <2>1, <2>2, <3>1
  <2>7. {<<x + m, y + m>> : m \in 0 .. len - 1} = {<<SA(k), DA(k)>> : k \in b .. e - 1}
    BY ONLY <2>5, <2>6
  <2> QED BY <2>1, <2>2, <2>3, <2>4, <2>7 DEF Copy
<1> HIDE DEF Piece
<1>4. IsFiniteSet(copies)
  <2>1. IsFiniteSet(0 .. s) /\ IsFiniteSet(0 .. d)
    <3>1. 0 \in Int /\ s \in Int /\ d \in Int
      OBVIOUS
    <3> QED BY ONLY <3>1, FS_Interval
  <2>2. IsFiniteSet(Pairs)
    BY <2>1, FS_Product
  <2>3. IsFiniteSet(Sharing)
    BY <2>2, FS_Subset
  <2> DEFINE f == [ij \in Sharing |-> Piece(ij)]
  <2> HIDE DEF Sharing
  <2>4. f \in Surjection(Sharing, copies)
    BY DEF Surjection
  <2> QED BY <2>3, <2>4, FS_Surjection
<1>5. copies \subseteq Copy
  <2> HIDE DEF Sharing
  <2> QED BY <1>3
<1>6. \A a, b \in copies : a.src = b.src => a = b
  <2> SUFFICES ASSUME NEW ij \in Sharing, NEW kl \in Sharing, Piece(ij).src = Piece(kl).src
               PROVE  ij = kl
    OBVIOUS
  <2> PICK b \in Nat, c \in Nat : b = Begin(ij[1], ij[2]) /\ c = Begin(kl[1], kl[2])
    BY <1>3
  <2>1. SA(b) = SA(c)
    BY <1>3
  <2>2. b = c
    <3>1. \A x \in Nat, y \in Nat : x < y => SA(x) \in Nat /\ SA(x) < SA(y)
      BY BytesInOrder
    <3>2. ~(b < c) /\ ~(c < b)
      <4> HIDE DEF SA
      <4>1. b < c => SA(b) \in Nat /\ SA(b) < SA(b)
        BY <2>1, <3>1
      <4>2. c < b => SA(b) \in Nat /\ SA(b) < SA(b)
        BY <2>1, <3>1
      <4>3. \A x \in Nat : ~(x < x)
        OBVIOUS
      <4> QED BY <4>1, <4>2, <4>3
    <3> QED BY <3>2
  <2>3. ij[1] = kl[1] /\ ij[2] = kl[2]
    <3>1. b \div A = ij[1] /\ b \div B = ij[2]
      BY <1>3
    <3>2. c \div A = kl[1] /\ c \div B = kl[2]
      BY <1>3
    <3> QED BY ONLY <2>2, <3>1, <3>2
  <2> QED BY <2>3
<1>7. UNION {Moves(c) : c \in copies} = Asked(dest, src, n)
  <2>1. \A c \in copies : Moves(c) \subseteq Asked(dest, src, n)
    <3> SUFFICES ASSUME NEW ij \in Sharing PROVE Moves(Piece(ij)) \subseteq Asked(dest, src, n)
      OBVIOUS
    <3> PICK b \in Nat, e \in Nat : b = Begin(ij[1], ij[2]) /\ e = End(ij[1], ij[2]) /\ e <= n
      BY <1>3
    <3>1. Moves(Piece(ij)) = {<<SA(k), DA(k)>> : k \in b .. e - 1}
      BY <1>3
    <3>2. b .. e - 1 \subseteq 0 .. n - 1
      OBVIOUS
    <3> HIDE DEF Sharing
    <3> QED BY <3>1, <3>2 DEF Asked
  <2>2. ASSUME NEW k \in 0 .. n - 1
        PROVE  \E c \in copies : <<SA(k), DA(k)>> \in Moves(c)
    <3>1. k \in Nat /\ k < n /\ k < s * A /\ k < d * B
      <4>0. \A x \in Nat, y \in Nat : x * y \in Nat
        BY ONLY Nat = Nat
      <4> PICK x \in Nat, y \in Nat : x = s * A /\ y = d * B
        BY ONLY <4>0, s \in Nat, d \in Nat, A \in Nat \ {0}, B \in Nat \ {0}
      <4>1. n <= x /\ n <= y
        BY DEF HB!TotalBytes
      <4>2. k \in Nat /\ k < n /\ k < x /\ k < y
        BY ONLY <4>1, k \in 0 .. n - 1, n \in Nat, x \in Nat, y \in Nat
      <4> QED BY <4>2
    <3> PICK i \in 0 .. s, j \in 0 .. d :
            /\ i * A <= k /\ k < (i + 1) * A /\ j * B <= k /\ k < (j + 1) * B
      <4>1. k \div A \in 0 .. s - 1 /\ k \div B \in 0 .. d - 1
        BY <3>1, RegionOf
      <4>2. (k \div A) * A <= k /\ k < (k \div A) * A + A
        BY <3>1, DivBounds
      <4>3. (k \div B) * B <= k /\ k < (k \div B) * B + B
        BY <3>1, DivBounds
      <4> PICK i, j : i = k \div A /\ j = k \div B
        OBVIOUS
      <4>4. i \in 0 .. s /\ j \in 0 .. d /\ i \in Nat /\ j \in Nat
        BY <4>1
      <4>5. \A x \in Nat, y \in Nat : (x + 1) * y = x * y + y
        BY ONLY Nat = Nat
      <4>6. (i + 1) * A = i * A + A /\ (j + 1) * B = j * B + B
        BY ONLY <4>4, <4>5, A \in Nat \ {0}, B \in Nat \ {0}
      <4> QED BY <4>2, <4>3, <4>4, <4>6
    <3>2. i \in Nat /\ j \in Nat
      OBVIOUS
    <3> PICK b \in Nat, e \in Nat : b = Begin(i, j) /\ e = End(i, j) /\ b <= k /\ k < e
      BY <1>2, <3>1, <3>2
    <3> PICK ij : ij = <<i, j>>
      OBVIOUS
    <3>3. ij \in Sharing /\ ij[1] = i /\ ij[2] = j
      <4>1. b < e
        BY ONLY b <= k, k < e, b \in Nat, e \in Nat, <3>1
      <4> QED BY <4>1
    <3>4. Moves(Piece(ij)) = {<<SA(l), DA(l)>> : l \in b .. e - 1}
      BY <1>3, <3>3
    <3>5. k \in b .. e - 1
      BY <3>1
    <3> HIDE DEF Sharing
    <3> QED BY <3>3, <3>4, <3>5
  <2> HIDE DEF copies
  <2> QED BY <2>1, <2>2 DEF Asked
<1> HIDE DEF copies
<1> QED BY <1>1, <1>4, <1>5, <1>6, <1>7 DEF IsCutOf

\* What copies in a sequence move.
MovesOf(s) == UNION {Moves(s[i]) : i \in DOMAIN s}

\* A copy that is merged moves what it moved alone.
LEMMA MergeStep ==
    ASSUME NEW macro \in Seq(Copy), NEW c \in Copy
    PROVE  /\ HB!AppendOrMerge(macro, c) \in Seq(Copy)
           /\ MovesOf(HB!AppendOrMerge(macro, c)) = MovesOf(macro) \cup Moves(c)
<1> PICK n \in Nat : n = Len(macro)
  OBVIOUS
<1>1. macro \in [1 .. n -> Copy] /\ DOMAIN macro = 1 .. n
  OBVIOUS
<1>2. CASE macro # <<>> /\ HB!IsDirectlyBefore(HB!Last(macro), c)
  <2>1. n \in 1 .. n /\ macro[n] \in Copy
    BY <1>1, <1>2
  <2> PICK a \in Copy : a = macro[n]
    BY <2>1
  <2> PICK x \in Nat, y \in Nat, l \in Nat, m \in Nat :
          a = [src |-> x, dest |-> y, numBytes |-> l] /\ c = [src |-> x + l, dest |-> y + l, numBytes |-> m]
    <3>1. HB!Last(macro) = a
      BY DEF HB!Last
    <3>2. a.src + a.numBytes = c.src /\ a.dest + a.numBytes = c.dest
      BY <1>2, <3>1 DEF HB!IsDirectlyBefore
    <3>3. /\ a = [src |-> a.src, dest |-> a.dest, numBytes |-> a.numBytes]
          /\ c = [src |-> c.src, dest |-> c.dest, numBytes |-> c.numBytes]
          /\ a.src \in Nat /\ a.dest \in Nat /\ a.numBytes \in Nat /\ c.numBytes \in Nat
      BY DEF Copy
    <3> PICK x \in Nat, y \in Nat, l \in Nat, m \in Nat :
            x = a.src /\ y = a.dest /\ l = a.numBytes /\ m = c.numBytes
      BY ONLY <3>3
    <3>4. /\ a = [src |-> x, dest |-> y, numBytes |-> l]
          /\ c = [src |-> x + l, dest |-> y + l, numBytes |-> m]
      BY ONLY <3>2, <3>3, x = a.src, y = a.dest, l = a.numBytes, m = c.numBytes
    <3>5. x \in Nat /\ y \in Nat /\ l \in Nat /\ m \in Nat
      OBVIOUS
    <3> QED BY ONLY <3>4, <3>5
  <2> PICK b \in Copy : b = [src |-> x, dest |-> y, numBytes |-> l + m]
    <3>1. l + m \in Nat
      OBVIOUS
    <3> QED BY <3>1 DEF Copy
  <2>2. HB!AppendOrMerge(macro, c) = [macro EXCEPT ![n] = b]
    <3>1. [a EXCEPT !.numBytes = @ + m] = b
      OBVIOUS
    <3> QED BY <1>2, <3>1 DEF HB!AppendOrMerge
  <2>3. Moves(b) = Moves(a) \cup Moves(c)
    <3>1. Moves(b) = {<<x + i, y + i>> : i \in 0 .. (l + m) - 1}
      BY DEF Moves
    <3>2. Moves(a) = {<<x + i, y + i>> : i \in 0 .. l - 1}
      BY DEF Moves
    <3>3. Moves(c) = {<<(x + l) + i, (y + l) + i>> : i \in 0 .. m - 1}
      BY DEF Moves
    <3>4. \A i \in 0 .. (l + m) - 1 :
             i \in 0 .. l - 1 \/ (i - l \in 0 .. m - 1 /\ x + i = (x + l) + (i - l) /\ y + i = (y + l) + (i - l))
      BY ONLY x \in Nat, y \in Nat, l \in Nat, m \in Nat
    <3>5. \A i \in 0 .. l - 1 : i \in 0 .. (l + m) - 1
      BY ONLY l \in Nat, m \in Nat
    <3>6. \A i \in 0 .. m - 1 : l + i \in 0 .. (l + m) - 1 /\ x + (l + i) = (x + l) + i /\ y + (l + i) = (y + l) + i
      BY ONLY x \in Nat, y \in Nat, l \in Nat, m \in Nat
    <3>7. ASSUME NEW p \in Moves(b) PROVE p \in Moves(a) \cup Moves(c)
      <4> PICK i \in 0 .. (l + m) - 1 : p = <<x + i, y + i>>
        BY <3>1
      <4> QED BY <3>2, <3>3, <3>4
    <3>8. Moves(a) \subseteq Moves(b)
      BY <3>1, <3>2, <3>5
    <3>9. ASSUME NEW p \in Moves(c) PROVE p \in Moves(b)
      <4> PICK i \in 0 .. m - 1 : p = <<(x + l) + i, (y + l) + i>>
        BY <3>3
      <4> QED BY <3>1, <3>6
    <3> QED BY <3>7, <3>8, <3>9
  <2> PICK t : t = [macro EXCEPT ![n] = b]
    OBVIOUS
  <2>4. t \in [1 .. n -> Copy] /\ t[n] = b /\ \A i \in 1 .. n : i # n => t[i] = macro[i]
    BY <1>1, <2>1
  <2>5. MovesOf(t) = MovesOf(macro) \cup Moves(c)
    <3>1. MovesOf(t) = UNION {Moves(t[i]) : i \in 1 .. n}
      BY <2>4 DEF MovesOf
    <3>2. MovesOf(macro) = UNION {Moves(macro[i]) : i \in 1 .. n}
      BY <1>1 DEF MovesOf
    <3>3. n \in 1 .. n /\ Moves(macro[n]) = Moves(a)
      BY <2>1
    <3> QED BY ONLY <2>3, <2>4, <3>1, <3>2, <3>3
  <2>6. t \in Seq(Copy)
    BY <2>4
  <2> QED BY <2>2, <2>5, <2>6
<1>3. CASE ~(macro # <<>> /\ HB!IsDirectlyBefore(HB!Last(macro), c))
  <2> PICK t : t = Append(macro, c)
    OBVIOUS
  <2>1. HB!AppendOrMerge(macro, c) = t
    BY <1>3 DEF HB!AppendOrMerge
  <2>2. t \in Seq(Copy) /\ DOMAIN t = 1 .. n + 1 /\ t[n + 1] = c /\ \A i \in 1 .. n : t[i] = macro[i]
    BY <1>1
  <2>3. MovesOf(t) = MovesOf(macro) \cup Moves(c)
    <3>1. MovesOf(t) = UNION {Moves(t[i]) : i \in 1 .. n + 1}
      BY <2>2 DEF MovesOf
    <3>2. MovesOf(macro) = UNION {Moves(macro[i]) : i \in 1 .. n}
      BY <1>1 DEF MovesOf
    <3>3. 1 .. n + 1 = (1 .. n) \cup {n + 1}
      OBVIOUS
    <3> QED BY ONLY <2>2, <3>1, <3>2, <3>3
  <2> QED BY <2>1, <2>2, <2>3
<1> QED BY <1>2, <1>3

\* HexagonBuffer.cpp, MergeAdjacent: merged copies move what the pieces move.
LEMMA MergedMoveAll ==
    ASSUME NEW copies, NEW moves, IsCutOf(copies, moves)
    PROVE  HB!MergeAdjacent(copies) \in Seq(Copy) /\ MovesOf(HB!MergeAdjacent(copies)) = moves
<1> DEFINE R == {cd \in copies \X copies : cd[1].src < cd[2].src}
           Before(c) == {b \in copies : b.src < c.src}
<1> PICK n \in Nat : n = Cardinality(copies)
  BY FS_CardinalityType DEF IsCutOf
<1> PICK sorted : sorted = [i \in 1 .. n |-> CHOOSE c \in copies : Cardinality(Before(c)) = i - 1]
  OBVIOUS
<1>1. /\ IsFiniteSet(copies) /\ copies \subseteq Copy
      /\ UNION {Moves(c) : c \in copies} = moves
      /\ \A c, d \in copies : c.src = d.src => c = d
  BY DEF IsCutOf
<1>2. HB!MergeAdjacent(copies) = HB!FoldLeft(HB!AppendOrMerge, <<>>, sorted)
  BY DEF HB!MergeAdjacent, HB!Cardinality, Cardinality
<1>3. sorted \in [1 .. n -> copies] /\ \A c \in copies : \E i \in 1 .. n : sorted[i] = c
  <2>1. \A c \in copies : Before(c) = {b \in copies : <<b, c>> \in R}
    OBVIOUS
  <2>2. \A c \in copies : c.src \in Nat
    BY <1>1 DEF Copy
  <2>3. \A x \in copies : <<x, x>> \notin R
    BY <2>2
  <2>4. \A x, y, z \in copies : <<x, y>> \in R /\ <<y, z>> \in R => <<x, z>> \in R
    BY <2>2
  <2>5. \A x, y \in copies : x # y => <<x, y>> \in R \/ <<y, x>> \in R
    BY <1>1, <2>2
  <2>6. sorted = [i \in 1 .. n |-> Ranked(i - 1, R, copies)]
    <3> DEFINE G(i) == CHOOSE c \in copies : Cardinality(Before(c)) = i - 1
    <3> HIDE DEF R, Before
    <3>1. \A i \in 1 .. n : G(i) = Ranked(i - 1, R, copies)
      BY <2>1 DEF Ranked
    <3>2. sorted = [i \in 1 .. n |-> G(i)]
      OBVIOUS
    <3> HIDE DEF G
    <3> QED BY <3>1, <3>2
  <2> HIDE DEF R, Before
  <2>7. IsOrderOf(R, copies)
    BY <2>3, <2>4, <2>5 DEF IsOrderOf
  <2>8. IsFiniteSet(copies)
    BY <1>1
  <2> QED BY ONLY <2>6, <2>7, <2>8, n \in Nat, n = Cardinality(copies), RankOrder
<1>4. \A i \in 1 .. n : sorted[i] \in Copy
  BY <1>1, <1>3
<1> DEFINE V == Seq(Copy)
           none == <<>>
           Add(s, c) == HB!AppendOrMerge(s, c)
           step == [x \in V \X (1 .. n) |-> Add(x[1], sorted[x[2]])]
<1>5. none \in V
  OBVIOUS
<1>6. step \in [V \X (1 .. n) -> V]
  <2> SUFFICES ASSUME NEW s \in V, NEW i \in 1 .. n PROVE Add(s, sorted[i]) \in V
    OBVIOUS
  <2>1. sorted[i] \in Copy
    BY <1>4
  <2> QED BY <2>1, MergeStep
<1>7. PICK it \in [SUBSET (1 .. n) -> V] :
        \A s \in SUBSET (1 .. n) :
            it[s] = IF s = {} THEN none ELSE step[<<it[s \ {Max(s)}], Max(s)>>]
  <2>1. PICK it : FoldsBy(it, n, V, none, step)
    <3> HIDE DEF step, V, none
    <3> QED BY <1>5, <1>6, FoldExists, Zenon
  <2> HIDE DEF step, V, none
  <2> QED BY <2>1 DEF FoldsBy
<1>8. it = [s \in SUBSET DOMAIN sorted |->
              IF s = {} THEN none ELSE Add(it[s \ {Max(s)}], sorted[Max(s)])]
  <2> SUFFICES ASSUME NEW s \in SUBSET (1 .. n), s # {}
               PROVE  step[<<it[s \ {Max(s)}], Max(s)>>] = Add(it[s \ {Max(s)}], sorted[Max(s)])
    BY <1>3, <1>7
  <2>1. Max(s) \in 1 .. n
    BY FoldIndices
  <2>2. it[s \ {Max(s)}] \in V
    BY <1>7
  <2> HIDE DEF V, Add
  <2> QED BY <2>1, <2>2
<1>9. PICK jt : /\ jt = [s \in SUBSET DOMAIN sorted |->
                           IF s = {} THEN none ELSE Add(jt[s \ {Max(s)}], sorted[Max(s)])]
                /\ HB!MergeAdjacent(copies) = jt[DOMAIN sorted]
  <2>1. HB!MergeAdjacent(copies) =
          (CHOOSE jt : jt = [s \in SUBSET DOMAIN sorted |->
                  IF s = {} THEN none ELSE Add(jt[s \ {Max(s)}], sorted[Max(s)])])[DOMAIN sorted]
    BY <1>2 DEF HB!FoldLeft, HB!MapThenFoldSet, HB!Max, Max
  <2> HIDE DEF none, Add, V, step
  <2> QED BY ONLY <1>8, <2>1
<1> HIDE DEF V, step
<1>10. DOMAIN sorted = 1 .. n
  BY <1>3
<1> DEFINE First(k) == UNION {Moves(sorted[i]) : i \in 1 .. k}
           S == {k \in 0 .. n : jt[1 .. k] \in Seq(Copy) /\ MovesOf(jt[1 .. k]) = First(k)}
<1>11. 0 \in S
  <2>1. 1 .. 0 \in SUBSET DOMAIN sorted /\ 1 .. 0 = {}
    OBVIOUS
  <2>2. jt[1 .. 0] = <<>>
    <3> HIDE DEF Add
    <3> QED BY <1>9, <2>1
  <2>3. First(0) = {}
    BY ONLY <2>1
  <2>4. <<>> \in Seq(Copy) /\ MovesOf(<<>>) = {} /\ 0 \in 0 .. n
    BY DEF MovesOf
  <2> HIDE DEF First
  <2> QED BY <2>2, <2>3, <2>4
<1>12. ASSUME NEW k \in 0 .. n - 1, k \in S PROVE k + 1 \in S
  <2>1. k + 1 \in 1 .. n /\ (k + 1) - 1 = k /\ k + 1 \in 0 .. n
    OBVIOUS
  <2>2. jt[1 .. k + 1] = Add(jt[1 .. k], sorted[k + 1])
    <3>1. /\ 1 .. k + 1 \in SUBSET (1 .. n) /\ 1 .. k + 1 # {} /\ Max(1 .. k + 1) = k + 1
          /\ (1 .. k + 1) \ {k + 1} = 1 .. k
      <4>1. 1 .. (k + 1) - 1 = 1 .. k
        BY <2>1
      <4> QED BY <2>1, <4>1, FoldIndices
    <3> PICK x : x = 1 .. k + 1
      OBVIOUS
    <3> PICK y : y = 1 .. k
      OBVIOUS
    <3>2. x \in SUBSET (1 .. n) /\ x # {} /\ Max(x) = k + 1 /\ x \ {k + 1} = y
      BY <3>1
    <3> HIDE DEF Add, none
    <3>3. jt[x] = Add(jt[x \ {Max(x)}], sorted[Max(x)])
      BY ONLY <1>9, <1>10, <3>2
    <3> QED BY ONLY <3>2, <3>3, x = 1 .. k + 1, y = 1 .. k
  <2> PICK m \in Seq(Copy), c \in Copy : m = jt[1 .. k] /\ c = sorted[k + 1] /\ MovesOf(m) = First(k)
    BY <1>4, <1>12, <2>1
  <2>3. HB!AppendOrMerge(m, c) \in Seq(Copy) /\ MovesOf(HB!AppendOrMerge(m, c)) = First(k) \cup Moves(c)
    BY MergeStep
  <2>4. First(k + 1) = First(k) \cup Moves(sorted[k + 1])
    <3>1. 1 .. k + 1 = (1 .. k) \cup {k + 1}
      OBVIOUS
    <3> QED BY ONLY <3>1
  <2> HIDE DEF First
  <2> QED BY <2>1, <2>2, <2>3, <2>4
<1>13. n \in S
  <2> HIDE DEF S
  <2>1. \A b \in 0 .. n : b \in S
    BY <1>11, <1>12, Induction
  <2> QED BY <2>1
<1>14. First(n) = moves
  <2>1. /\ \A i \in 1 .. n : sorted[i] \in copies
        /\ \A c \in copies : \E i \in 1 .. n : sorted[i] = c
        /\ UNION {Moves(c) : c \in copies} = moves
    BY <1>1, <1>3
  <2> QED BY ONLY <2>1
<1> HIDE DEF First
<1> QED BY <1>9, <1>10, <1>13, <1>14

\* Moves in memory: each byte is written from one byte, and none that is read.
CanMove(moves) ==
    /\ moves \subseteq Memory \X Memory
    /\ \A m, o \in moves : m[2] = o[2] => m = o
    /\ \A m, o \in moves : m[1] # o[2]

\* The bytes that moves wrote, and the ones they left alone.
HasMoved(mem, moves) ==
    /\ \A m \in moves : mem[m[2]] = m[1]
    /\ \A x \in Memory : (\A m \in moves : m[2] # x) => mem[x] = x

\* One memcpy after others.
LEMMA MemcpyStep ==
    ASSUME NEW moves, CanMove(moves), NEW old \in SUBSET moves, NEW c \in Copy, Moves(c) \subseteq moves,
           NEW mem \in [Memory -> Memory]
    PROVE  /\ HB!memcpy(mem, c) \in [Memory -> Memory]
           /\ HasMoved(mem, old) => HasMoved(HB!memcpy(mem, c), old \cup Moves(c))
<1> PICK a \in Nat, b \in Nat, l \in Nat : a = c.src /\ b = c.dest /\ l = c.numBytes
  BY DEF Copy
<1> PICK new : new = HB!memcpy(mem, c)
  OBVIOUS
<1>1. new = [x \in Memory |-> IF x - b \in 0 .. l - 1 THEN mem[a + x - b] ELSE mem[x]]
  BY DEF HB!memcpy
<1>2. ASSUME NEW x \in Memory, x - b \in 0 .. l - 1
      PROVE  <<a + x - b, x>> \in Moves(c) /\ a + x - b \in Memory
  <2>1. x \in Nat
    BY TargetAssumption
  <2> PICK i \in 0 .. l - 1 : i = x - b
    BY <1>2
  <2>2. x = b + i /\ a + x - b = a + i
    BY <2>1
  <2>3. <<a + i, b + i>> \in Moves(c)
    BY DEF Moves
  <2> QED BY <2>2, <2>3 DEF CanMove
<1>3. ASSUME NEW m \in Moves(c)
      PROVE  m[2] \in Memory /\ m[2] - b \in 0 .. l - 1 /\ a + m[2] - b = m[1] /\ m[1] \in Memory
  <2> PICK i \in 0 .. l - 1 : m = <<a + i, b + i>>
    BY DEF Moves
  <2>1. m[1] = a + i /\ m[2] = b + i /\ (b + i) - b = i /\ a + (b + i) - b = a + i
    OBVIOUS
  <2> QED BY <2>1 DEF CanMove
<1>4. new \in [Memory -> Memory]
  BY <1>1, <1>2
<1>5. ASSUME HasMoved(mem, old) PROVE HasMoved(new, old \cup Moves(c))
  <2>1. ASSUME NEW m \in Moves(c) PROVE new[m[2]] = m[1]
    <3>1. new[m[2]] = mem[m[1]]
      BY <1>1, <1>3
    <3>2. \A o \in old : o[2] # m[1]
      BY DEF CanMove
    <3> QED BY <1>3, <1>5, <3>1, <3>2 DEF HasMoved
  <2>2. ASSUME NEW m \in old PROVE new[m[2]] = m[1]
    <3>1. m[2] \in Memory /\ m \in moves
      BY DEF CanMove
    <3>2. CASE m[2] - b \in 0 .. l - 1
      <4>1. <<a + m[2] - b, m[2]>> \in Moves(c)
        BY <1>2, <3>1, <3>2
      <4> PICK o \in Moves(c) : o = <<a + m[2] - b, m[2]>>
        BY <4>1
      <4>2. o \in moves /\ o[2] = m[2]
        OBVIOUS
      <4>3. m = o
        BY <3>1, <4>2 DEF CanMove
      <4> QED BY <2>1, <4>3
    <3>3. CASE ~(m[2] - b \in 0 .. l - 1)
      <4>1. new[m[2]] = mem[m[2]]
        BY <1>1, <3>1, <3>3
      <4> QED BY <1>5, <4>1 DEF HasMoved
    <3> QED BY <3>2, <3>3
  <2>3. ASSUME NEW x \in Memory, \A m \in old \cup Moves(c) : m[2] # x PROVE new[x] = x
    <3>1. ~(x - b \in 0 .. l - 1)
      <4> SUFFICES ASSUME x - b \in 0 .. l - 1 PROVE FALSE
        OBVIOUS
      <4> PICK m : m = <<a + x - b, x>>
        OBVIOUS
      <4>1. m \in Moves(c) /\ m[2] = x
        BY <1>2
      <4> QED BY <2>3, <4>1
    <3>2. new[x] = mem[x]
      BY <1>1, <3>1
    <3> QED BY <1>5, <2>3, <3>2 DEF HasMoved
  <2> QED BY <2>1, <2>2, <2>3 DEF HasMoved
<1> QED BY <1>4, <1>5

\* The memory that copies leave that together make the moves.
LEMMA CopiesMove ==
    ASSUME NEW moves, CanMove(moves), NEW macro \in Seq(Copy), MovesOf(macro) = moves
    PROVE  HasMoved(HB!FoldLeft(HB!memcpy, [x \in Memory |-> x], macro), moves)
<1> PICK n \in Nat : n = Len(macro)
  OBVIOUS
<1>1. macro \in [1 .. n -> Copy] /\ DOMAIN macro = 1 .. n
  OBVIOUS
<1>2. \A i \in 1 .. n : macro[i] \in Copy /\ Moves(macro[i]) \subseteq moves
  BY <1>1 DEF MovesOf
<1> DEFINE V == [Memory -> Memory]
           start == [x \in Memory |-> x]
           Add(mem, c) == HB!memcpy(mem, c)
           step == [x \in V \X (1 .. n) |-> Add(x[1], macro[x[2]])]
<1>5. start \in V
  OBVIOUS
<1>6. step \in [V \X (1 .. n) -> V]
  <2> SUFFICES ASSUME NEW s \in V, NEW i \in 1 .. n PROVE Add(s, macro[i]) \in V
    OBVIOUS
  <2>1. {} \in SUBSET moves
    OBVIOUS
  <2> QED BY <1>2, <2>1, MemcpyStep
<1>7. PICK it \in [SUBSET (1 .. n) -> V] :
        \A s \in SUBSET (1 .. n) :
            it[s] = IF s = {} THEN start ELSE step[<<it[s \ {Max(s)}], Max(s)>>]
  <2>1. PICK it : FoldsBy(it, n, V, start, step)
    <3> HIDE DEF step, V, start
    <3> QED BY <1>5, <1>6, FoldExists, Zenon
  <2> HIDE DEF step, V, start
  <2> QED BY <2>1 DEF FoldsBy
<1>8. it = [s \in SUBSET DOMAIN macro |->
              IF s = {} THEN start ELSE Add(it[s \ {Max(s)}], macro[Max(s)])]
  <2> SUFFICES ASSUME NEW s \in SUBSET (1 .. n), s # {}
               PROVE  step[<<it[s \ {Max(s)}], Max(s)>>] = Add(it[s \ {Max(s)}], macro[Max(s)])
    BY <1>1, <1>7
  <2>1. Max(s) \in 1 .. n
    BY FoldIndices
  <2>2. it[s \ {Max(s)}] \in V
    BY <1>7
  <2> HIDE DEF V, Add
  <2> QED BY <2>1, <2>2
<1>9. PICK jt : /\ jt = [s \in SUBSET DOMAIN macro |->
                           IF s = {} THEN start ELSE Add(jt[s \ {Max(s)}], macro[Max(s)])]
                /\ HB!FoldLeft(HB!memcpy, start, macro) = jt[DOMAIN macro]
  <2>1. HB!FoldLeft(HB!memcpy, start, macro) =
          (CHOOSE jt : jt = [s \in SUBSET DOMAIN macro |->
                  IF s = {} THEN start ELSE Add(jt[s \ {Max(s)}], macro[Max(s)])])[DOMAIN macro]
    BY DEF HB!FoldLeft, HB!MapThenFoldSet, HB!Max, Max
  <2> HIDE DEF start, Add, V, step
  <2> QED BY ONLY <1>8, <2>1
<1> HIDE DEF step
<1> DEFINE First(k) == UNION {Moves(macro[i]) : i \in 1 .. k}
           S == {k \in 0 .. n : jt[1 .. k] \in V /\ HasMoved(jt[1 .. k], First(k))}
<1>10. \A k \in 0 .. n : First(k) \subseteq moves
  BY <1>2
<1>11. 0 \in S
  <2>1. 1 .. 0 \in SUBSET DOMAIN macro /\ 1 .. 0 = {}
    OBVIOUS
  <2>2. jt[1 .. 0] = start
    <3> HIDE DEF Add
    <3> QED BY <1>9, <2>1
  <2>3. First(0) = {}
    BY ONLY <2>1
  <2>4. HasMoved(start, {}) /\ 0 \in 0 .. n
    BY DEF HasMoved
  <2> HIDE DEF First, start, V
  <2> QED BY <1>5, <2>2, <2>3, <2>4
<1>12. ASSUME NEW k \in 0 .. n - 1, k \in S PROVE k + 1 \in S
  <2>1. k + 1 \in 1 .. n /\ (k + 1) - 1 = k /\ k + 1 \in 0 .. n /\ k \in 0 .. n
    OBVIOUS
  <2>2. jt[1 .. k + 1] = Add(jt[1 .. k], macro[k + 1])
    <3>1. /\ 1 .. k + 1 \in SUBSET (1 .. n) /\ 1 .. k + 1 # {} /\ Max(1 .. k + 1) = k + 1
          /\ (1 .. k + 1) \ {k + 1} = 1 .. k
      <4>1. 1 .. (k + 1) - 1 = 1 .. k
        BY <2>1
      <4> QED BY <2>1, <4>1, FoldIndices
    <3> PICK x : x = 1 .. k + 1
      OBVIOUS
    <3> PICK y : y = 1 .. k
      OBVIOUS
    <3>2. x \in SUBSET (1 .. n) /\ x # {} /\ Max(x) = k + 1 /\ x \ {k + 1} = y
      BY <3>1
    <3> HIDE DEF Add, start
    <3>3. jt[x] = Add(jt[x \ {Max(x)}], macro[Max(x)])
      BY ONLY <1>1, <1>9, <3>2
    <3> QED BY ONLY <3>2, <3>3, x = 1 .. k + 1, y = 1 .. k
  <2> PICK mem, c, old : mem = jt[1 .. k] /\ c = macro[k + 1] /\ old = First(k)
    OBVIOUS
  <2>3. mem \in [Memory -> Memory] /\ HasMoved(mem, old) /\ c \in Copy /\ Moves(c) \subseteq moves /\ old \in SUBSET moves
    BY <1>2, <1>10, <1>12, <2>1
  <2>4. HB!memcpy(mem, c) \in V /\ HasMoved(HB!memcpy(mem, c), old \cup Moves(c))
    BY <2>3, MemcpyStep
  <2>5. First(k + 1) = First(k) \cup Moves(macro[k + 1])
    <3>1. 1 .. k + 1 = (1 .. k) \cup {k + 1}
      OBVIOUS
    <3> QED BY ONLY <3>1
  <2> HIDE DEF First, V
  <2> QED BY <2>1, <2>2, <2>4, <2>5
<1>13. n \in S
  <2> HIDE DEF S
  <2>1. \A b \in 0 .. n : b \in S
    BY <1>11, <1>12, Induction
  <2> QED BY <2>1
<1>14. First(n) = moves
  BY <1>1 DEF MovesOf
<1> HIDE DEF First
<1> QED BY <1>1, <1>9, <1>13, <1>14

\* HexagonBuffer.cpp: between buffers that share no address a copy of a length
\* that fits both moves the bytes asked for and changes no other.
THEOREM CopyIsExact ==
    ASSUME NEW dest, NEW src, NEW n, CanCopy(dest, src, n)
    PROVE  HB!CopiesExactly(dest, src, n)
<1> PICK result : result = HB!hexagonBufferCopyAcrossRegions(dest, src, n)
  OBVIOUS
<1> SUFFICES ASSUME result.end = "done"
             PROVE  /\ \A k \in 0 .. n - 1 : result.mem[HB!ByteAt(dest, k)] = HB!ByteAt(src, k)
                    /\ \A x \in Memory \ {HB!ByteAt(dest, k) : k \in 0 .. n - 1} : result.mem[x] = x
  BY DEF HB!CopiesExactly
<1>1. n \in Nat /\ IsBuffer(dest) /\ IsBuffer(src)
  BY DEF CanCopy, IsBuffer
<1>2. /\ ~(n > HB!TotalBytes(src)) /\ ~(n > HB!TotalBytes(dest)) /\ src.regionSizeBytes # 0
      /\ result.mem = HB!FoldLeft(HB!memcpy, [x \in Memory |-> x], HB!MergeAdjacent(HB!MemoryCopies(dest, src, n)))
  BY DEF HB!hexagonBufferCopyAcrossRegions
<1>3. n <= HB!TotalBytes(src) /\ n <= HB!TotalBytes(dest)
  <2>0. \A x \in Nat, y \in Nat : x * y \in Nat
    BY ONLY Nat = Nat
  <2>1. HB!TotalBytes(src) \in Nat /\ HB!TotalBytes(dest) \in Nat
    BY <1>1, <2>0 DEF HB!TotalBytes, IsBuffer
  <2> QED BY <1>1, <1>2, <2>1
<1> DEFINE SA(k) == HB!ByteAt(src, k)
           DA(k) == HB!ByteAt(dest, k)
<1> PICK moves : moves = Asked(dest, src, n)
  OBVIOUS
<1>4. moves = {<<SA(k), DA(k)>> : k \in 0 .. n - 1}
  BY DEF Asked
<1>5. \A k \in 0 .. n - 1 : k \in Nat /\ k < n /\ k < HB!TotalBytes(src) /\ k < HB!TotalBytes(dest)
  <2>0. \A x \in Nat, y \in Nat : x * y \in Nat
    BY ONLY Nat = Nat
  <2> PICK s \in Nat, d \in Nat : s = HB!TotalBytes(src) /\ d = HB!TotalBytes(dest)
    BY <1>1, <2>0 DEF HB!TotalBytes, IsBuffer
  <2>1. n \in Nat /\ n <= s /\ n <= d
    BY <1>1, <1>3
  <2>2. \A k \in 0 .. n - 1 : k \in Nat /\ k < n /\ k < s /\ k < d
    BY ONLY <2>1, s \in Nat, d \in Nat
  <2> QED BY <2>2
<1>6. \A k \in 0 .. n - 1 : /\ SA(k) \in HB!Bytes(src) /\ DA(k) \in HB!Bytes(dest)
                            /\ src.regionSizeBytes # 0 /\ dest.regionSizeBytes # 0
  BY <1>1, <1>5, BytesInside
<1>7. ASSUME NEW k \in 0 .. n - 1, NEW l \in 0 .. n - 1, DA(k) = DA(l) PROVE k = l
  <2>1. k \in Nat /\ l \in Nat /\ dest.regionSizeBytes # 0
    BY <1>6
  <2>2. \A x \in Nat, y \in Nat : x < y => DA(x) \in Nat /\ DA(x) < DA(y)
    BY <1>1, <2>1, BytesInOrder
  <2> HIDE DEF DA
  <2>3. k < l => DA(k) \in Nat /\ DA(k) < DA(k)
    BY <1>7, <2>1, <2>2
  <2>4. l < k => DA(k) \in Nat /\ DA(k) < DA(k)
    BY <1>7, <2>1, <2>2
  <2>5. \A x \in Nat : ~(x < x)
    OBVIOUS
  <2> QED BY <2>1, <2>3, <2>4, <2>5
<1>8. /\ HB!Bytes(dest) \subseteq Memory /\ HB!Bytes(src) \subseteq Memory
      /\ HB!Bytes(dest) \cap HB!Bytes(src) = {}
  BY DEF CanCopy
<1> HIDE DEF SA, DA
<1>9. CanMove(moves)
  <2>1. moves \subseteq Memory \X Memory
    BY <1>4, <1>6, <1>8
  <2>2. ASSUME NEW m \in moves, NEW o \in moves
        PROVE  m[1] # o[2] /\ (m[2] = o[2] => m = o)
    <3> PICK k \in 0 .. n - 1, l \in 0 .. n - 1 : m = <<SA(k), DA(k)>> /\ o = <<SA(l), DA(l)>>
      BY <1>4
    <3>1. SA(k) # DA(l)
      BY <1>6, <1>8
    <3>2. DA(k) = DA(l) => k = l
      BY <1>7
    <3> QED BY <3>1, <3>2
  <2> QED BY <2>1, <2>2 DEF CanMove
<1>10. IsCutOf(HB!MemoryCopies(dest, src, n), moves)
  <2>1. CASE n = 0
    <3>1. moves = {} /\ 0 .. n - 1 = {}
      BY <1>4, <2>1
    <3>2. HB!MemoryCopies(dest, src, n) = {}
      <4> DEFINE Begin(i, j) == HB!Max({i * src.regionSizeBytes, j * dest.regionSizeBytes})
                 End(i, j) == HB!Min({(i + 1) * src.regionSizeBytes, (j + 1) * dest.regionSizeBytes, n})
      <4>1. ASSUME NEW i \in Nat, NEW j \in Nat PROVE ~(Begin(i, j) < End(i, j))
        <5>0. \A x \in Nat, y \in Nat : x * y \in Nat /\ (x + 1) * y \in Nat
          BY ONLY Nat = Nat
        <5> PICK x \in Nat, y \in Nat, u \in Nat, v \in Nat :
                /\ x = i * src.regionSizeBytes /\ y = j * dest.regionSizeBytes
                /\ u = (i + 1) * src.regionSizeBytes /\ v = (j + 1) * dest.regionSizeBytes
          BY <1>1, <5>0 DEF IsBuffer
        <5>1. HB!Max({x, y}) \in {x, y} /\ x <= HB!Max({x, y}) /\ y <= HB!Max({x, y})
          BY LaterByte
        <5>2. HB!Min({u, v, 0}) \in {u, v, 0} /\ HB!Min({u, v, 0}) <= 0
          BY FirstByte
        <5>3. Begin(i, j) = HB!Max({x, y}) /\ End(i, j) = HB!Min({u, v, 0})
          BY <2>1
        <5> HIDE DEF Begin, End
        <5> QED BY <5>1, <5>2, <5>3
      <4> PICK s \in Nat, d \in Nat : s = src.numRegions /\ d = dest.numRegions
        BY <1>1 DEF IsBuffer
      <4>2. \A ij \in (0 .. s) \X (0 .. d) : ij[1] \in Nat /\ ij[2] \in Nat
        OBVIOUS
      <4>3. {ij \in (0 .. s) \X (0 .. d) : Begin(ij[1], ij[2]) < End(ij[1], ij[2])} = {}
        <5> HIDE DEF Begin, End
        <5> QED BY <4>1, <4>2
      <4> QED BY <4>3 DEF HB!MemoryCopies
    <3>3. IsCutOf({}, {})
      BY FS_EmptySet DEF IsCutOf
    <3> QED BY <3>1, <3>2, <3>3
  <2>2. CASE n # 0
    <3>1. 0 \in 0 .. n - 1
      BY <1>1, <2>2
    <3>2. src.regionSizeBytes # 0 /\ dest.regionSizeBytes # 0
      BY <1>6, <3>1
    <3> QED BY <1>1, <1>3, <3>2, PiecesMoveAll
  <2> QED BY <2>1, <2>2
<1> PICK macro : macro = HB!MergeAdjacent(HB!MemoryCopies(dest, src, n))
  OBVIOUS
<1>11. macro \in Seq(Copy) /\ MovesOf(macro) = moves
  BY <1>10, MergedMoveAll
<1>12. HasMoved(result.mem, moves)
  BY <1>2, <1>9, <1>11, CopiesMove
<1>13. \A k \in 0 .. n - 1 : result.mem[DA(k)] = SA(k)
  <2> TAKE k \in 0 .. n - 1
  <2> PICK m : m = <<SA(k), DA(k)>>
    OBVIOUS
  <2>1. m \in moves /\ m[1] = SA(k) /\ m[2] = DA(k)
    BY <1>4
  <2> QED BY <1>12, <2>1 DEF HasMoved
<1>14. ASSUME NEW x \in Memory, x \notin {DA(k) : k \in 0 .. n - 1} PROVE result.mem[x] = x
  <2>1. ASSUME NEW m \in moves PROVE m[2] # x
    <3> PICK k \in 0 .. n - 1 : m = <<SA(k), DA(k)>>
      BY <1>4
    <3> QED BY <1>14
  <2> QED BY <1>12, <2>1 DEF HasMoved
<1> QED BY <1>13, <1>14 DEF SA, DA

(***************************************************************************)
(* Tile sizes and caches of affine loops (AffineTilingPass.cpp,              *)
(* AffineTileMemoryPass.cpp).                                                *)
(***************************************************************************)
\* The products of the passes are the same.
LEMMA SameProduct == ASSUME NEW s PROVE AT!Product(s) = LT!Prod(s)
BY DEF AT!Product, LT!Prod, AT!FoldLeft, LT!FoldLeft, AT!MapThenFoldSet, LT!MapThenFoldSet, AT!Max, LT!Max

\* A further entry multiplies the product.
LEMMA ProdNext ==
    ASSUME NEW k \in Nat, NEW a \in [1 .. k -> Nat], NEW b \in [1 .. k + 1 -> Nat],
           \A i \in 1 .. k : b[i] = a[i]
    PROVE  LT!Prod(a) \in Nat /\ LT!Prod(b) = LT!Prod(a) * b[k + 1]
<1>0. k + 1 \in Nat
  OBVIOUS
<1> PICK g : ProductsUpTo(g, a, k) /\ LT!Prod(a) = g[k]
  BY ProdFold
<1> PICK h : ProductsUpTo(h, b, k + 1) /\ LT!Prod(b) = h[k + 1]
  BY <1>0, ProdFold
<1> DEFINE S == {i \in 0 .. k : g[i] = h[i]}
<1>1. /\ g \in [0 .. k -> Nat] /\ g[0] = 1 /\ \A i \in 1 .. k : g[i] = g[i - 1] * a[i]
      /\ h \in [0 .. k + 1 -> Nat] /\ h[0] = 1 /\ \A i \in 1 .. k + 1 : h[i] = h[i - 1] * b[i]
  BY DEF ProductsUpTo
<1>2. 0 \in S
  BY <1>1
<1>3. ASSUME NEW i \in 0 .. k - 1, i \in S PROVE i + 1 \in S
  <2>1. i + 1 \in 1 .. k /\ i + 1 \in 1 .. k + 1 /\ (i + 1) - 1 = i /\ i + 1 \in 0 .. k
    OBVIOUS
  <2>2. g[i + 1] = g[i] * a[i + 1] /\ h[i + 1] = h[i] * b[i + 1] /\ a[i + 1] = b[i + 1]
    BY <1>1, <2>1
  <2> QED BY <1>3, <2>1, <2>2
<1>4. \A i \in 0 .. k : i \in S
  <2> HIDE DEF S
  <2> QED BY <1>2, <1>3, Induction
<1>5. k \in 0 .. k /\ k + 1 \in 1 .. k + 1 /\ (k + 1) - 1 = k
  OBVIOUS
<1>6. g[k] = h[k] /\ h[k + 1] = h[k] * b[k + 1] /\ g[k] \in Nat
  BY <1>1, <1>4, <1>5
<1> QED BY <1>6

\* Powers as repeated products.
LEMMA PowersNext ==
    ASSUME NEW t \in Nat, NEW k \in Nat
    PROVE  AT!Power(t, k) \in Nat /\ AT!Power(t, k + 1) = AT!Power(t, k) * t
<1> DEFINE times(n) == [i \in 1 .. n |-> t]
<1>1. times(k) \in [1 .. k -> Nat] /\ times(k + 1) \in [1 .. k + 1 -> Nat]
  OBVIOUS
<1>2. (\A i \in 1 .. k : times(k + 1)[i] = times(k)[i]) /\ times(k + 1)[k + 1] = t
  OBVIOUS
<1>3. AT!Power(t, k) = LT!Prod(times(k)) /\ AT!Power(t, k + 1) = LT!Prod(times(k + 1))
  BY SameProduct DEF AT!Power
<1> PICK a \in [1 .. k -> Nat], b \in [1 .. k + 1 -> Nat] : a = times(k) /\ b = times(k + 1)
  BY <1>1
<1> HIDE DEF times
<1>4. LT!Prod(a) \in Nat /\ LT!Prod(b) = LT!Prod(a) * b[k + 1]
  BY <1>2, ProdNext
<1> QED BY <1>2, <1>3, <1>4

\* The powers of one are one, and of a greater number no smaller.
LEMMA PowersOfOne ==
    ASSUME NEW n \in Nat
    PROVE  AT!Power(1, n) = 1 /\ \A t \in Nat \ {0} : AT!Power(t, n) \in Nat \ {0}
<1> DEFINE S == {k \in 0 .. n : AT!Power(1, k) = 1}
<1>1. AT!Power(1, 0) = 1
  <2> PICK a \in [1 .. 0 -> Nat] : a = [i \in 1 .. 0 |-> 1]
    OBVIOUS
  <2> PICK g : ProductsUpTo(g, a, 0) /\ LT!Prod(a) = g[0]
    BY ProdFold
  <2> QED BY SameProduct DEF ProductsUpTo, AT!Power
<1>2. 0 \in S
  BY <1>1
<1>3. ASSUME NEW k \in 0 .. n - 1, k \in S PROVE k + 1 \in S
  <2>1. k \in Nat /\ k + 1 \in 0 .. n /\ 1 \in Nat
    OBVIOUS
  <2>2. AT!Power(1, k + 1) = AT!Power(1, k) * 1
    BY ONLY <2>1, PowersNext
  <2> QED BY <1>3, <2>1, <2>2
<1>4. AT!Power(1, n) = 1
  <2> HIDE DEF S
  <2>1. n \in S
    <3>1. \A b \in 0 .. n : b \in S
      BY <1>2, <1>3, Induction
    <3> QED BY <3>1
  <2> QED BY <2>1 DEF S
<1>5. ASSUME NEW t \in Nat \ {0} PROVE AT!Power(t, n) \in Nat \ {0}
  <2> PICK a \in [1 .. n -> Nat], b \in [1 .. n -> Nat] : a = [i \in 1 .. n |-> 1] /\ b = [i \in 1 .. n |-> t]
    OBVIOUS
  <2>1. LT!Prod(a) \in Nat /\ LT!Prod(b) \in Nat /\ LT!Prod(a) <= LT!Prod(b)
    <3>1. \A i \in 1 .. n : a[i] <= b[i]
      OBVIOUS
    <3> QED BY <3>1, ProdMonotone
  <2>2. AT!Power(1, n) = LT!Prod(a) /\ AT!Power(t, n) = LT!Prod(b)
    BY SameProduct DEF AT!Power
  <2> QED BY <1>4, <2>1, <2>2
<1> QED BY <1>4, <1>5

\* AffineTilingPass.cpp, adjustToDivisorsOfTripCounts: a divisor that is no
\* greater, or the size itself when the trip count is not known.
LEMMA AdjustedSize ==
    ASSUME NEW count \in Nat, NEW size \in Nat \ {0}
    PROVE  /\ AT!adjustToDivisor(count, size) \in 1 .. size
           /\ count % AT!adjustToDivisor(count, size) = 0
<1>1. CASE count = 0
  <2>1. 0 % size = 0
    OBVIOUS
  <2> QED BY <1>1, <2>1 DEF AT!adjustToDivisor
<1>2. CASE count # 0
  <2> DEFINE C == {1} \cup {c \in 1 .. size : c \in AT!DivisorCandidates(count, size) /\ count % c = 0}
  <2>1. C \in SUBSET (1 .. size) /\ C # {} /\ \A c \in C : count % c = 0
    <3>1. count % 1 = 0
      OBVIOUS
    <3> QED BY <3>1
  <2>2. AT!adjustToDivisor(count, size) = Max(C)
    BY <1>2 DEF AT!adjustToDivisor, AT!Max, Max
  <2> HIDE DEF C
  <2>3. Max(C) \in C
    BY <2>1, GreatestExists
  <2> QED BY <2>1, <2>2, <2>3
<1> QED BY <1>1, <1>2

\* The balanced sizes fit the cache when one iteration does.
LEMMA BalancedSizesFit ==
    ASSUME NEW n \in Nat \ {0}, NEW cache \in Nat, NEW inner \in Nat \ {0}, inner <= cache
    PROVE  /\ AT!BalancedSizes(n, cache, inner) \in [1 .. n -> Nat \ {0}]
           /\ inner * LT!Prod(AT!BalancedSizes(n, cache, inner)) <= cache
<1> PICK m \in Nat : n = m + 1
  <2>1. n - 1 \in Nat /\ n = (n - 1) + 1
    OBVIOUS
  <2> QED BY <2>1
<1> DEFINE C == {t \in 0 .. cache : inner * AT!Power(t, n) <= cache}
<1>1. C \in SUBSET (0 .. cache) /\ 1 \in C
  <2>1. inner * AT!Power(1, n) = inner
    BY PowersOfOne
  <2> QED BY <2>1
<1> PICK size : size = AT!Root(n, cache, inner)
  OBVIOUS
<1>2. size \in Nat \ {0} /\ inner * AT!Power(size, n) <= cache
  <2>1. size = Max(C)
    BY DEF AT!Root, AT!Max, Max
  <2>2. Max(C) \in C /\ Max(C) >= 1
    <3> PICK D : D = C \ {0}
      OBVIOUS
    <3>1. D \in SUBSET (1 .. cache) /\ 1 \in D /\ D \subseteq C /\ \A y \in C : y \in D \/ y = 0
      BY <1>1
    <3>2. Max(D) \in D /\ \A y \in D : Max(D) >= y
      BY <3>1, GreatestExists
    <3> HIDE DEF C
    <3> PICK d \in 1 .. cache : d = Max(D)
      BY <3>1, <3>2
    <3>3. d \in C /\ \A y \in C : d >= y
      BY <3>1, <3>2
    <3>4. Max(C) \in C /\ \A y \in C : Max(C) >= y
      BY <3>3 DEF Max
    <3> QED BY <1>1, <3>4
  <2> QED BY <2>1, <2>2
<1> PICK p \in Nat \ {0} : p = AT!Power(size, m)
  BY <1>2, PowersOfOne
<1>3. AT!Power(size, n) = p * size
  BY <1>2, PowersNext
<1>0. \A x \in Nat, y \in Nat : x * y \in Nat
  BY ONLY Nat = Nat
<1> PICK q \in Nat : q = inner * p
  BY ONLY <1>0, inner \in Nat \ {0}, p \in Nat \ {0}
<1>4. 1 <= q /\ q <= cache
  <2>1. 1 * 1 <= inner * p
    <3>1. 1 \in Nat /\ inner \in Nat /\ p \in Nat /\ 1 <= inner /\ 1 <= p
      OBVIOUS
    <3> QED BY ONLY <3>1, TimesMonotone
  <2>2. p * 1 <= p * size
    <3>1. 1 \in Nat /\ size \in Nat /\ p \in Nat /\ p <= p /\ 1 <= size
      BY <1>2
    <3> QED BY ONLY <3>1, TimesMonotone
  <2> PICK r \in Nat : r = p * size
    BY ONLY <1>0, <1>2, p \in Nat \ {0}
  <2>3. inner * p <= inner * r
    <3>1. inner \in Nat /\ p \in Nat /\ r \in Nat /\ inner <= inner /\ p <= r
      BY <2>2
    <3> QED BY ONLY <3>1, TimesMonotone
  <2>4. inner * r <= cache
    BY <1>2, <1>3
  <2> PICK v \in Nat : v = inner * r
    BY ONLY <1>0, inner \in Nat \ {0}, r \in Nat
  <2> QED BY ONLY <2>1, <2>3, <2>4, q \in Nat, v \in Nat, cache \in Nat, q = inner * p, v = inner * r
<1> PICK last : last = AT!Max({1, cache \div q})
  OBVIOUS
<1>5. last \in Nat \ {0} /\ last * q <= cache
  <2>1. cache \div q \in Nat /\ (cache \div q) * q <= cache
    BY <1>4, DivBounds
  <2> PICK d \in Nat : d = cache \div q
    BY <2>1
  <2>2. \E a \in {1, d} : \A b \in {1, d} : a >= b
    BY ONLY d \in Nat
  <2>3. last \in {1, d} /\ last >= 1
    BY <2>2 DEF AT!Max
  <2>4. 1 * q = q
    OBVIOUS
  <2> QED BY <1>4, <2>1, <2>3, <2>4
<1> PICK s : s = AT!BalancedSizes(n, cache, inner)
  OBVIOUS
<1>6. s = [i \in 1 .. n |-> IF i < n THEN size ELSE last]
  <2>1. n - 1 = m
    OBVIOUS
  <2> QED BY <2>1 DEF AT!BalancedSizes
<1>7. s \in [1 .. n -> Nat \ {0}] /\ s \in [1 .. m + 1 -> Nat] /\ s[m + 1] = last /\ \A i \in 1 .. m : s[i] = size
  <2>1. \A i \in 1 .. n : s[i] = IF i < n THEN size ELSE last
    BY <1>6
  <2>2. m + 1 \in 1 .. n /\ ~(m + 1 < n) /\ \A i \in 1 .. m : i \in 1 .. n /\ i < n
    OBVIOUS
  <2>3. s \in [1 .. n -> Nat \ {0}]
    BY <1>2, <1>5, <1>6
  <2>4. s \in [1 .. n -> Nat]
    BY <2>3
  <2> QED BY <2>1, <2>2, <2>3, <2>4
<1> PICK a \in [1 .. m -> Nat] : a = [i \in 1 .. m |-> size]
  BY <1>2
<1>8. LT!Prod(s) = LT!Prod(a) * last
  <2>1. \A i \in 1 .. m : s[i] = a[i]
    BY <1>7
  <2>2. LT!Prod(s) = LT!Prod(a) * s[m + 1]
    BY ONLY <1>7, <2>1, m \in Nat, a \in [1 .. m -> Nat], ProdNext
  <2> QED BY <1>7, <2>2
<1>9. LT!Prod(a) = p
  BY SameProduct DEF AT!Power
<1>10. inner * (p * last) = last * (inner * p)
  BY ONLY inner \in Nat \ {0}, p \in Nat \ {0}, <1>5
<1> QED BY <1>5, <1>7, <1>8, <1>9, <1>10

\* AffineTilingPass.cpp: tile sizes of a band of which an iteration fits the cache.
THEOREM BandTilesFit ==
    ASSUME NEW counts \in Seq(Nat), counts # <<>>, NEW cache \in Nat, NEW inner \in Nat, NEW total \in Nat,
           cache = 0 \/ inner <= cache
    PROVE  AT!TilesFit(counts, cache, inner, total)
<1> PICK n \in Nat \ {0} : n = Len(counts) /\ counts \in [1 .. n -> Nat]
  OBVIOUS
<1> DEFINE Adjusted(s) == [i \in 1 .. n |-> AT!adjustToDivisor(counts[i], s[i])]
           Ones == [i \in 1 .. n |-> 1]
           Sizes == AT!getTileSizes(counts, cache, inner, total)
           Fits(s) == /\ s \in [1 .. n -> Nat \ {0}]
                      /\ \A i \in 1 .. n : counts[i] % s[i] = 0
                      /\ 0 < inner /\ inner <= cache => inner * LT!Prod(s) <= cache
<1>0. ASSUME NEW s, Fits(s), Sizes = s PROVE AT!TilesFit(counts, cache, inner, total)
  <2>1. DOMAIN counts = 1 .. n
    OBVIOUS
  <2>2. \A i \in 1 .. n : s[i] >= 1 /\ counts[i] % s[i] = 0
    BY <1>0
  <2>3. 0 < inner /\ inner <= cache => inner * AT!Product(s) <= cache
    BY <1>0, SameProduct
  <2> QED BY <1>0, <2>1, <2>2, <2>3 DEF AT!TilesFit
<1>1. Fits(Ones)
  <2>1. \A i \in 1 .. n : counts[i] % 1 = 0
    OBVIOUS
  <2>2. LT!Prod(Ones) = 1
    BY PowersOfOne, SameProduct DEF AT!Power
  <2> HIDE DEF AT!Power
  <2>3. inner * 1 = inner
    OBVIOUS
  <2> QED BY <2>1, <2>2, <2>3
<1>2. ASSUME NEW s \in [1 .. n -> Nat \ {0}], 0 < inner /\ inner <= cache => inner * LT!Prod(s) <= cache
      PROVE  Fits(Adjusted(s))
  <2>1. \A i \in 1 .. n : /\ AT!adjustToDivisor(counts[i], s[i]) \in 1 .. s[i]
                          /\ counts[i] % AT!adjustToDivisor(counts[i], s[i]) = 0
    <3> TAKE i \in 1 .. n
    <3>1. counts[i] \in Nat /\ s[i] \in Nat \ {0}
      OBVIOUS
    <3> QED BY ONLY <3>1, AdjustedSize
  <2> PICK a : a = Adjusted(s)
    OBVIOUS
  <2>2. a \in [1 .. n -> Nat \ {0}] /\ \A i \in 1 .. n : counts[i] % a[i] = 0 /\ a[i] <= s[i]
    <3>1. \A i \in 1 .. n : s[i] \in Nat
      OBVIOUS
    <3> QED BY <2>1, <3>1
  <2>3. LT!Prod(a) \in Nat /\ LT!Prod(s) \in Nat /\ LT!Prod(a) <= LT!Prod(s)
    <3>1. a \in [1 .. n -> Nat] /\ s \in [1 .. n -> Nat] /\ n \in Nat /\ \A i \in 1 .. n : a[i] <= s[i]
      BY <2>2
    <3> QED BY ONLY <3>1, ProdMonotone
  <2>4. inner * LT!Prod(a) <= inner * LT!Prod(s)
    <3>1. inner <= inner
      OBVIOUS
    <3> QED BY ONLY <2>3, <3>1, inner \in Nat, TimesMonotone
  <2> PICK x \in Nat, y \in Nat : x = inner * LT!Prod(a) /\ y = inner * LT!Prod(s)
    <3>0. \A u \in Nat, v \in Nat : u * v \in Nat
      BY ONLY Nat = Nat
    <3> QED BY ONLY <2>3, <3>0, inner \in Nat
  <2>5. 0 < inner /\ inner <= cache => x <= cache
    BY <1>2, <2>4
  <2> QED BY <2>2, <2>5
<1>3. CASE cache = 0
  <2>1. Sizes = Ones
    BY <1>3 DEF AT!getTileSizes
  <2> HIDE DEF Fits, Ones, Sizes
  <2> QED BY <1>0, <1>1, <2>1
<1>4. CASE cache # 0 /\ inner = 0
  <2> PICK s : s = [i \in 1 .. n |-> 32]
    OBVIOUS
  <2>1. Sizes = Adjusted(s)
    BY <1>4 DEF AT!getTileSizes, AT!defaultTileSize
  <2>2. s \in [1 .. n -> Nat \ {0}] /\ ~(0 < inner)
    BY <1>4
  <2>3. Fits(Adjusted(s))
    BY <1>2, <2>2
  <2> HIDE DEF Fits, Adjusted, Sizes
  <2> QED BY <1>0, <2>1, <2>3
<1>5. CASE cache # 0 /\ inner # 0 /\ total # 0 /\ total <= cache
  <2>1. Sizes = Ones
    BY <1>5 DEF AT!getTileSizes
  <2> HIDE DEF Fits, Ones, Sizes
  <2> QED BY <1>0, <1>1, <2>1
<1>6. CASE cache # 0 /\ inner # 0 /\ ~(total # 0 /\ total <= cache)
  <2> PICK s : s = AT!BalancedSizes(n, cache, inner)
    OBVIOUS
  <2>1. Sizes = Adjusted(s)
    BY <1>6 DEF AT!getTileSizes
  <2>2. s \in [1 .. n -> Nat \ {0}] /\ inner * LT!Prod(s) <= cache
    BY <1>6, BalancedSizesFit
  <2>3. Fits(Adjusted(s))
    BY <1>2, <2>2
  <2> HIDE DEF Fits, Adjusted, Sizes
  <2> QED BY <1>0, <2>1, <2>3
<1> QED BY <1>3, <1>4, <1>5, <1>6

\* A comparison that leaves no cycle, of equals neither.
IsComparison(B, S) ==
    /\ \A x, y \in S : <<x, y>> \in B => <<y, x>> \notin B
    /\ \A x, y, z \in S : <<x, z>> \in B => <<x, y>> \in B \/ <<y, z>> \in B

\* The element of a place by a comparison, and by number among equals.
PlacedBy(k, B, S) ==
    CHOOSE i \in S : Cardinality({j \in S : <<j, i>> \in B \/ (<<i, j>> \notin B /\ j < i)}) = k - 1

\* Sorting by a comparison puts an element in each place.
LEMMA SortedBy ==
    ASSUME NEW S \in SUBSET Nat, IsFiniteSet(S), NEW B, IsComparison(B, S),
           NEW n \in Nat, n = Cardinality(S), NEW sorted,
           sorted = [k \in 1 .. n |-> PlacedBy(k, B, S)]
    PROVE  sorted \in [1 .. n -> S]
<1> USE DEF PlacedBy
<1> DEFINE R == {xy \in S \X S : xy \in B \/ (<<xy[2], xy[1]>> \notin B /\ xy[1] < xy[2])}
           Earlier(i) == {j \in S : <<j, i>> \in B \/ (<<i, j>> \notin B /\ j < i)}
           G(k) == CHOOSE i \in S : Cardinality(Earlier(i)) = k - 1
<1>1. \A x, y \in S : <<x, y>> \in R <=> (<<x, y>> \in B \/ (<<y, x>> \notin B /\ x < y))
  OBVIOUS
<1>2. \A x \in S : x \in Nat
  OBVIOUS
<1>3. \A i \in S : Earlier(i) = {j \in S : <<j, i>> \in R}
  BY <1>1
<1>4. sorted = [k \in 1 .. n |-> G(k)]
  OBVIOUS
<1> HIDE DEF R
<1>5. IsOrderOf(R, S)
  <2>1. \A x \in S : <<x, x>> \notin R
    BY <1>1, <1>2 DEF IsComparison
  <2>2. ASSUME NEW x \in S, NEW y \in S, NEW z \in S, <<x, y>> \in R, <<y, z>> \in R PROVE <<x, z>> \in R
    <3>1. x \in Nat /\ y \in Nat /\ z \in Nat
      BY <1>2
    <3>2. <<z, x>> \notin B
      BY <1>1, <2>2 DEF IsComparison
    <3>3. CASE <<x, z>> \in B
      BY <1>1, <3>3
    <3>4. CASE <<x, z>> \notin B
      <4>1. <<x, y>> \notin B /\ <<y, z>> \notin B
        BY <1>1, <2>2, <3>2, <3>4 DEF IsComparison
      <4>2. x < y /\ y < z
        BY <1>1, <2>2, <4>1
      <4> QED BY <1>1, <3>1, <3>2, <4>2
    <3> QED BY <3>3, <3>4
  <2>3. \A x, y \in S : x # y => <<x, y>> \in R \/ <<y, x>> \in R
    BY <1>1, <1>2
  <2> QED BY <2>1, <2>2, <2>3 DEF IsOrderOf
<1>6. sorted = [k \in 1 .. n |-> Ranked(k - 1, R, S)]
  <2> HIDE DEF Earlier
  <2>1. \A k \in 1 .. n : G(k) = Ranked(k - 1, R, S)
    BY <1>3 DEF Ranked
  <2> HIDE DEF G
  <2> QED BY <1>4, <2>1
<1>7. IsFiniteSet(S)
  OBVIOUS
<1> QED BY ONLY <1>5, <1>6, <1>7, n \in Nat, n = Cardinality(S), RankOrder

\* The sums of the passes are the same.
LEMMA SameTotals ==
    ASSUME NEW s PROVE TM!Total(s) = LT!Total(s) /\ TM!Product(s) = LT!Prod(s)
<1>1. TM!Total(s) = LT!Total(s)
  BY DEF TM!Total, LT!Total, TM!FoldLeft, LT!FoldLeft, TM!MapThenFoldSet, LT!MapThenFoldSet, TM!Max, LT!Max
<1>2. TM!Product(s) = LT!Prod(s)
  BY DEF TM!Product, LT!Prod, TM!FoldLeft, LT!FoldLeft, TM!MapThenFoldSet, LT!MapThenFoldSet, TM!Max, LT!Max
<1> QED BY <1>1, <1>2

\* Sums and products of natural numbers are natural numbers.
LEMMA FoldsAreNumbers ==
    ASSUME NEW n \in Nat, NEW s \in [1 .. n -> Nat]
    PROVE  TM!Total(s) \in Nat /\ TM!Product(s) \in Nat
<1>1. n \in 0 .. n
  OBVIOUS
<1>2. LT!Total(s) \in Nat
  BY <1>1, TotalFold DEF SumsUpTo
<1>3. LT!Prod(s) \in Nat
  BY <1>1, ProdFold DEF ProductsUpTo
<1> QED BY <1>2, <1>3, SameTotals

\* The accesses of a memref are counted by a natural number.
LEMMA ReuseIsNumber ==
    ASSUME NEW accesses \in Seq(Seq(Nat))
    PROVE  TM!Reuse(accesses) \in Nat
<1> DEFINE Trips(loops) == TM!Product([k \in DOMAIN loops |-> IF loops[k] = 0 THEN 4 ELSE loops[k]])
<1>1. ASSUME NEW k \in DOMAIN accesses PROVE Trips(accesses[k]) \in Nat
  <2> PICK loops \in Seq(Nat) : loops = accesses[k]
    OBVIOUS
  <2> PICK m \in Nat : m = Len(loops) /\ loops \in [1 .. m -> Nat]
    <3>1. loops \in Seq(Nat)
      OBVIOUS
    <3>2. Len(loops) \in Nat /\ loops \in [1 .. Len(loops) -> Nat]
      BY ONLY <3>1
    <3> QED BY <3>2
  <2> PICK s \in [1 .. m -> Nat] : s = [l \in DOMAIN loops |-> IF loops[l] = 0 THEN 4 ELSE loops[l]]
    OBVIOUS
  <2>1. TM!Product(s) \in Nat
    BY FoldsAreNumbers
  <2> QED BY <2>1
<1> HIDE DEF Trips
<1> PICK n \in Nat : n = Len(accesses) /\ DOMAIN accesses = 1 .. n
  OBVIOUS
<1> PICK s \in [1 .. n -> Nat] : s = [k \in DOMAIN accesses |-> Trips(accesses[k])]
  BY <1>1
<1>2. TM!Total(s) \in Nat
  BY FoldsAreNumbers
<1>3. TM!Reuse(accesses) = TM!Total(s)
  BY DEF TM!Reuse, Trips
<1> QED BY <1>2, <1>3

\* Of three quotients, if the first is greater than the last it is greater than
\* the one between, or that one is greater than the last.
LEMMA QuotientsBetween ==
    ASSUME NEW a \in Nat, NEW b \in Nat, NEW c \in Nat,
           NEW x \in Nat \ {0}, NEW y \in Nat \ {0}, NEW z \in Nat \ {0}, a * z > c * x
    PROVE  a * y > b * x \/ b * z > c * y
<1>0. \A u \in Nat, v \in Nat : u * v \in Nat
  BY ONLY Nat = Nat
<1> PICK az \in Nat, cx \in Nat, ay \in Nat, bx \in Nat, bz \in Nat, cy \in Nat :
        az = a * z /\ cx = c * x /\ ay = a * y /\ bx = b * x /\ bz = b * z /\ cy = c * y
  BY ONLY <1>0, a \in Nat, b \in Nat, c \in Nat, x \in Nat \ {0}, y \in Nat \ {0}, z \in Nat \ {0}
<1>a. ~(ay <= bx /\ bz <= cy) => ay > bx \/ bz > cy
  BY ONLY ay \in Nat, bx \in Nat, bz \in Nat, cy \in Nat
<1>b. SUFFICES ASSUME ay <= bx, bz <= cy PROVE FALSE
  BY <1>a
<1>1. ay * z <= bx * z
  BY ONLY ay \in Nat, bx \in Nat, z \in Nat \ {0}, ay <= bx, z <= z, TimesMonotone
<1>2. bz * x <= cy * x
  BY ONLY bz \in Nat, cy \in Nat, x \in Nat \ {0}, bz <= cy, x <= x, TimesMonotone
<1>3. ay * z = az * y
  BY ONLY ay = a * y, az = a * z, a \in Nat, y \in Nat \ {0}, z \in Nat \ {0}
<1>4. bx * z = bz * x
  BY ONLY bx = b * x, bz = b * z, b \in Nat, x \in Nat \ {0}, z \in Nat \ {0}
<1>5. cy * x = cx * y
  BY ONLY cy = c * y, cx = c * x, c \in Nat, x \in Nat \ {0}, y \in Nat \ {0}
<1>6. az * y >= cx * y + y
  <2>1. cx + 1 <= az /\ cx + 1 \in Nat
    BY ONLY az = a * z, cx = c * x, a * z > c * x, az \in Nat, cx \in Nat
  <2>2. (cx + 1) * y <= az * y
    BY ONLY <2>1, az \in Nat, y \in Nat \ {0}, y <= y, TimesMonotone
  <2>3. (cx + 1) * y = cx * y + y
    BY ONLY cx \in Nat, y \in Nat \ {0}
  <2> PICK p \in Nat, q \in Nat : p = cx * y /\ q = az * y
    BY ONLY <1>0, cx \in Nat, az \in Nat, y \in Nat \ {0}
  <2> QED BY ONLY <2>2, <2>3, p = cx * y, q = az * y, p \in Nat, q \in Nat, y \in Nat \ {0}
<1> PICK p \in Nat, q \in Nat, r \in Nat : p = cx * y /\ q = az * y /\ r = bz * x
  BY ONLY <1>0, cx \in Nat, az \in Nat, y \in Nat \ {0}, bz \in Nat, x \in Nat \ {0}
<1> QED BY ONLY <1>1, <1>2, <1>3, <1>4, <1>5, <1>6, p = cx * y, q = az * y, r = bz * x,
             p \in Nat, q \in Nat, r \in Nat, y \in Nat \ {0}

\* AffineTileMemoryPass.cpp: both sorts are of memrefs of the loop.
LEMMA SortedMemrefs ==
    ASSUME NEW ms \in Seq(TM!Memref)
    PROVE  /\ TM!Sorted(ms, TM!ByReuse) \in Seq(DOMAIN ms)
           /\ TM!Sorted(ms, TM!BySortKey) \in Seq(DOMAIN ms)
<1> PICK len \in Nat : len = Len(ms) /\ ms \in [1 .. len -> TM!Memref] /\ DOMAIN ms = 1 .. len
  OBVIOUS
<1> DEFINE valid == {i \in DOMAIN ms : TM!Valid(ms, i)}
<1>1. valid \in SUBSET (1 .. len) /\ valid \in SUBSET Nat /\ IsFiniteSet(valid)
  <2>1. IsFiniteSet(1 .. len)
    <3>1. 1 \in Int /\ len \in Int
      OBVIOUS
    <3> QED BY ONLY <3>1, FS_Interval
  <2> QED BY <2>1, FS_Subset
<1> PICK n \in Nat : n = Cardinality(valid)
  BY <1>1, FS_CardinalityType
<1> PICK S \in SUBSET Nat : S = valid
  BY <1>1
<1>2. \A i \in S : /\ ms[i].dim \in Nat \ {0} /\ ms[i].elt \in Nat \ {0} /\ ms[i].shift \in Int
                   /\ ms[i].accesses \in Seq(Seq(Nat))
  BY <1>1 DEF TM!Memref
<1> HIDE DEF valid
<1>3. \A i \in S : TM!Reuse(ms[i].accesses) \in Nat /\ TM!tileSize(ms[i]) \in Nat \ {0}
  <2> TAKE i \in S
  <2>1. TM!Reuse(ms[i].accesses) \in Nat
    BY <1>2, ReuseIsNumber
  <2> PICK d \in Nat \ {0}, e \in Nat \ {0} : d = ms[i].dim /\ e = ms[i].elt
    BY <1>2
  <2>2. 1 * 1 <= e * d
    BY ONLY 1 \in Nat, e \in Nat \ {0}, d \in Nat \ {0}, 1 <= e, 1 <= d, TimesMonotone
  <2>3. e * d \in Nat
    BY ONLY e \in Nat \ {0}, d \in Nat \ {0}
  <2> QED BY <2>1, <2>2, <2>3 DEF TM!tileSize
<1>4. IsFiniteSet(S) /\ n = Cardinality(S)
  BY <1>1
<1>5. TM!Sorted(ms, TM!ByReuse) \in [1 .. n -> S]
  <2> DEFINE B == {ij \in S \X S : TM!ByReuse(ms[ij[1]], ms[ij[2]])}
             G(k) == CHOOSE i \in S : Cardinality({j \in S : TM!ByReuse(ms[j], ms[i])
                                                             \/ (~TM!ByReuse(ms[i], ms[j]) /\ j < i)}) = k - 1
  <2>1. \A i, j \in S : <<i, j>> \in B <=> TM!ByReuse(ms[i], ms[j])
    OBVIOUS
  <2>2. TM!Sorted(ms, TM!ByReuse) = [k \in 1 .. n |-> G(k)]
    BY DEF TM!Sorted, valid, TM!Cardinality, Cardinality
  <2> HIDE DEF B
  <2>3. \A k \in 1 .. n : G(k) = PlacedBy(k, B, S)
    <3>1. \A i \in S : {j \in S : TM!ByReuse(ms[j], ms[i]) \/ (~TM!ByReuse(ms[i], ms[j]) /\ j < i)}
                     = {j \in S : <<j, i>> \in B \/ (<<i, j>> \notin B /\ j < i)}
      BY <2>1
    <3> QED BY <3>1 DEF PlacedBy
  <2> PICK sorted : sorted = [k \in 1 .. n |-> PlacedBy(k, B, S)]
    OBVIOUS
  <2>4. TM!Sorted(ms, TM!ByReuse) = sorted
    <3> HIDE DEF G
    <3> QED BY <2>2, <2>3
  <2>5. IsComparison(B, S)
    <3> DEFINE Re(i) == TM!Reuse(ms[i].accesses)
               Ti(i) == TM!tileSize(ms[i])
    <3>1. \A i, j \in S : <<i, j>> \in B <=> Re(i) * Ti(j) > Re(j) * Ti(i)
      BY <2>1 DEF TM!ByReuse
    <3>2. \A i \in S : Re(i) \in Nat /\ Ti(i) \in Nat \ {0}
      BY <1>3
    <3> HIDE DEF Re, Ti
    <3>3. ASSUME NEW i \in S, NEW j \in S, <<i, j>> \in B PROVE <<j, i>> \notin B
      <4>0. \A u \in Nat, v \in Nat : u * v \in Nat
        BY ONLY Nat = Nat
      <4> PICK u \in Nat, v \in Nat : u = Re(i) * Ti(j) /\ v = Re(j) * Ti(i)
        BY <3>2, <4>0
      <4>1. u > v
        BY <3>1, <3>3
      <4>2. ~(v > u)
        BY ONLY <4>1, u \in Nat, v \in Nat
      <4> QED BY <3>1, <4>2
    <3>4. ASSUME NEW i \in S, NEW j \in S, NEW k \in S, <<i, k>> \in B PROVE <<i, j>> \in B \/ <<j, k>> \in B
      <4>1. Re(i) * Ti(k) > Re(k) * Ti(i)
        BY <3>1, <3>4
      <4> PICK a \in Nat, b \in Nat, c \in Nat, x \in Nat \ {0}, y \in Nat \ {0}, z \in Nat \ {0} :
              a = Re(i) /\ b = Re(j) /\ c = Re(k) /\ x = Ti(i) /\ y = Ti(j) /\ z = Ti(k)
        BY <3>2
      <4>2. a * z > c * x
        BY <4>1
      <4>3. a * y > b * x \/ b * z > c * y
        BY ONLY <4>2, a \in Nat, b \in Nat, c \in Nat, x \in Nat \ {0}, y \in Nat \ {0}, z \in Nat \ {0}, QuotientsBetween
      <4> QED BY <3>1, <4>3
    <3> QED BY <3>3, <3>4 DEF IsComparison
  <2>6. sorted \in [1 .. n -> S]
    BY ONLY <1>4, <2>5, n \in Nat, S \in SUBSET Nat, sorted = [k \in 1 .. n |-> PlacedBy(k, B, S)], SortedBy
  <2> QED BY <2>4, <2>6
<1>6. TM!Sorted(ms, TM!BySortKey) \in [1 .. n -> S]
  <2> DEFINE B == {ij \in S \X S : TM!BySortKey(ms[ij[1]], ms[ij[2]])}
             G(k) == CHOOSE i \in S : Cardinality({j \in S : TM!BySortKey(ms[j], ms[i])
                                                             \/ (~TM!BySortKey(ms[i], ms[j]) /\ j < i)}) = k - 1
  <2>1. \A i, j \in S : <<i, j>> \in B <=> TM!BySortKey(ms[i], ms[j])
    OBVIOUS
  <2>2. TM!Sorted(ms, TM!BySortKey) = [k \in 1 .. n |-> G(k)]
    BY DEF TM!Sorted, valid, TM!Cardinality, Cardinality
  <2> HIDE DEF B
  <2>3. \A k \in 1 .. n : G(k) = PlacedBy(k, B, S)
    <3>1. \A i \in S : {j \in S : TM!BySortKey(ms[j], ms[i]) \/ (~TM!BySortKey(ms[i], ms[j]) /\ j < i)}
                     = {j \in S : <<j, i>> \in B \/ (<<i, j>> \notin B /\ j < i)}
      BY <2>1
    <3> QED BY <3>1 DEF PlacedBy
  <2> PICK sorted : sorted = [k \in 1 .. n |-> PlacedBy(k, B, S)]
    OBVIOUS
  <2>4. TM!Sorted(ms, TM!BySortKey) = sorted
    <3> HIDE DEF G
    <3> QED BY <2>2, <2>3
  <2>5. IsComparison(B, S)
    <3> DEFINE Di(i) == ms[i].dim
               Fr(i) == TM!freshDataBytes(ms[i])
    <3>1. \A i, j \in S : <<i, j>> \in B <=> IF Di(i) = 1 \/ Di(j) = 1 THEN Di(i) = 1 /\ Di(j) # 1 ELSE Fr(i) > Fr(j)
      BY <2>1 DEF TM!BySortKey
    <3>2. \A i \in S : Fr(i) \in Int
      <4> TAKE i \in S
      <4> PICK d \in Nat, e \in Nat, s \in Int : d = ms[i].dim /\ e = ms[i].elt /\ s = ms[i].shift
        BY <1>2
      <4> PICK o \in Int : o = d - (IF s < 0 THEN -s ELSE s)
        OBVIOUS
      <4>1. TM!Max({0, o}) \in Int
        <5>1. \E a \in {0, o} : \A b \in {0, o} : a >= b
          BY ONLY o \in Int
        <5>2. TM!Max({0, o}) \in {0, o}
          BY <5>1 DEF TM!Max
        <5> QED BY <5>2
      <4> PICK m \in Int : m = TM!Max({0, o})
        BY <4>1
      <4>2. e * d - e * m \in Int
        BY ONLY e \in Nat, d \in Nat, m \in Int
      <4>3. Fr(i) = e * d - e * m
        BY DEF TM!freshDataBytes, TM!tileSize
      <4> QED BY <4>2, <4>3
    <3> HIDE DEF Di, Fr
    <3>3. ASSUME NEW i \in S, NEW j \in S, <<i, j>> \in B PROVE <<j, i>> \notin B
      <4>1. Fr(i) \in Int /\ Fr(j) \in Int
        BY <3>2
      <4> QED BY <3>1, <3>3, <4>1
    <3>4. ASSUME NEW i \in S, NEW j \in S, NEW k \in S, <<i, k>> \in B PROVE <<i, j>> \in B \/ <<j, k>> \in B
      <4>1. Fr(i) \in Int /\ Fr(j) \in Int /\ Fr(k) \in Int
        BY <3>2
      <4> QED BY <3>1, <3>4, <4>1
    <3> QED BY <3>3, <3>4 DEF IsComparison
  <2>6. sorted \in [1 .. n -> S]
    BY ONLY <1>4, <2>5, n \in Nat, S \in SUBSET Nat, sorted = [k \in 1 .. n |-> PlacedBy(k, B, S)], SortedBy
  <2> QED BY <2>4, <2>6
<1>7. \A f \in [1 .. n -> S] : f \in Seq(DOMAIN ms)
  <2>1. S \subseteq DOMAIN ms
    BY <1>1
  <2>2. \A f \in [1 .. n -> S] : f \in [1 .. n -> DOMAIN ms]
    BY ONLY <2>1
  <2>3. \A f \in [1 .. n -> DOMAIN ms] : f \in Seq(DOMAIN ms)
    BY ONLY n \in Nat
  <2> QED BY <2>2, <2>3
<1> QED BY <1>5, <1>6, <1>7

\* An entry that changes changes the sum by as much.
LEMMA TotalUpdate ==
    ASSUME NEW n \in Nat, NEW s \in [1 .. n -> Nat], NEW j \in 1 .. n, NEW v \in Nat
    PROVE  LT!Total([s EXCEPT ![j] = v]) + s[j] = LT!Total(s) + v /\ LT!Total(s) \in Nat
           /\ LT!Total([s EXCEPT ![j] = v]) \in Nat
<1> PICK t \in [1 .. n -> Nat] : t = [s EXCEPT ![j] = v]
  OBVIOUS
<1> PICK g : SumsUpTo(g, s, n) /\ LT!Total(s) = g[n]
  BY TotalFold
<1> PICK h : SumsUpTo(h, t, n) /\ LT!Total(t) = h[n]
  BY TotalFold
<1> DEFINE S == {i \in 0 .. n : IF i < j THEN h[i] = g[i] ELSE h[i] + s[j] = g[i] + v}
<1>1. /\ g \in [0 .. n -> Nat] /\ g[0] = 0 /\ \A i \in 1 .. n : g[i] = g[i - 1] + s[i]
      /\ h \in [0 .. n -> Nat] /\ h[0] = 0 /\ \A i \in 1 .. n : h[i] = h[i - 1] + t[i]
  BY DEF SumsUpTo
<1>2. 0 \in S
  BY <1>1
<1>3. ASSUME NEW i \in 0 .. n - 1, i \in S PROVE i + 1 \in S
  <2>1. i + 1 \in 1 .. n /\ (i + 1) - 1 = i /\ i + 1 \in 0 .. n /\ i \in 0 .. n
    OBVIOUS
  <2>2. g[i + 1] = g[i] + s[i + 1] /\ h[i + 1] = h[i] + t[i + 1]
    BY <1>1, <2>1
  <2>3. g[i] \in Nat /\ h[i] \in Nat /\ s[i + 1] \in Nat /\ s[j] \in Nat
    BY <1>1, <2>1
  <2>4. i + 1 # j => t[i + 1] = s[i + 1]
    BY <2>1
  <2>5. i + 1 = j => t[i + 1] = v /\ i < j
    BY <2>1
  <2>6. IF i < j THEN h[i] = g[i] ELSE h[i] + s[j] = g[i] + v
    BY <1>3
  <2>7. CASE i + 1 < j
    BY <2>1, <2>2, <2>4, <2>6, <2>7
  <2>8. CASE i + 1 = j
    <3>1. h[i] = g[i] /\ h[i + 1] = h[i] + v /\ g[i + 1] = g[i] + s[j]
      BY <2>2, <2>5, <2>6, <2>8
    <3> PICK hi, gi, sj, si : hi = h[i] /\ gi = g[i] /\ sj = s[j] /\ si = s[i + 1]
      OBVIOUS
    <3>a. {hi, gi, sj, si} \subseteq Nat
      BY <2>3
    <3>2. h[i + 1] + s[j] = g[i + 1] + v
      BY ONLY <3>1, <3>a, v \in Nat, hi = h[i], gi = g[i], sj = s[j], si = s[i + 1]
    <3> QED BY <2>1, <2>8, <3>2
  <2>9. CASE j < i + 1
    <3>1. h[i] + s[j] = g[i] + v /\ h[i + 1] = h[i] + s[i + 1] /\ g[i + 1] = g[i] + s[i + 1]
      BY <2>2, <2>4, <2>6, <2>9
    <3> PICK hi \in Nat, gi \in Nat, sj \in Nat, si \in Nat : hi = h[i] /\ gi = g[i] /\ sj = s[j] /\ si = s[i + 1]
      BY <2>3
    <3>2. hi + sj = gi + v
      BY <3>1
    <3>3. (hi + si) + sj = (gi + si) + v
      BY ONLY <3>2, hi \in Nat, gi \in Nat, sj \in Nat, si \in Nat, v \in Nat
    <3>4. h[i + 1] = hi + si /\ g[i + 1] = gi + si
      BY <3>1
    <3>5. h[i + 1] + s[j] = g[i + 1] + v
      BY <3>3, <3>4
    <3> QED BY <2>1, <2>9, <3>5
  <2> QED BY <2>7, <2>8, <2>9
<1>4. \A i \in 0 .. n : i \in S
  <2> HIDE DEF S
  <2> QED BY <1>2, <1>3, Induction
<1>5. n \in 0 .. n /\ ~(n < j)
  OBVIOUS
<1>6. h[n] + s[j] = g[n] + v /\ g[n] \in Nat /\ h[n] \in Nat
  BY <1>1, <1>4, <1>5
<1> QED BY <1>6

\* The sum of zeros is zero.
LEMMA TotalOfZeros ==
    ASSUME NEW n \in Nat, NEW s, s = [i \in 1 .. n |-> 0]
    PROVE  LT!Total(s) = 0
<1>0. s \in [1 .. n -> Nat]
  OBVIOUS
<1> PICK g : SumsUpTo(g, s, n) /\ LT!Total(s) = g[n]
  BY <1>0, TotalFold
<1> DEFINE S == {i \in 0 .. n : g[i] = 0}
<1>1. g \in [0 .. n -> Nat] /\ g[0] = 0 /\ \A i \in 1 .. n : g[i] = g[i - 1] + s[i]
  BY DEF SumsUpTo
<1>2. 0 \in S
  BY <1>1
<1>3. ASSUME NEW i \in 0 .. n - 1, i \in S PROVE i + 1 \in S
  <2>1. i + 1 \in 1 .. n /\ (i + 1) - 1 = i /\ i + 1 \in 0 .. n
    OBVIOUS
  <2>2. g[i + 1] = g[i] + s[i + 1] /\ s[i + 1] = 0
    BY <1>1, <2>1
  <2> QED BY <1>3, <2>1, <2>2
<1>4. \A i \in 0 .. n : i \in S
  <2> HIDE DEF S
  <2> QED BY <1>2, <1>3, Induction
<1>5. n \in 0 .. n
  OBVIOUS
<1> QED BY <1>4, <1>5

\* AffineTileMemoryPass.cpp: what the memrefs of a state take of the cache.
CacheState(n) == [1 .. n -> {"NotCached", "Tiled", "Full"}]
BytesIn(ms, st) == [i \in DOMAIN ms |-> IF TM!SameSize(ms, st, i) THEN TM!Allocated(ms, st, i) ELSE 0]

\* The caches take no more than was counted, which fits the cache; that of a
\* memref not held in full has the size of its tile.
CachesCounted(ms, cache) ==
    {st \in [used : Int, state : CacheState(Len(ms)), tileDims : [1 .. Len(ms) -> Nat]] :
        /\ TM!Total(BytesIn(ms, st)) <= st.used /\ st.used <= cache
        /\ \A i \in 1 .. Len(ms) : st.state[i] # "Full" => st.tileDims[i] = ms[i].dim}

\* Before the promotions every cache has the size of its tile.
CachesFitted(ms, cache) == {st \in CachesCounted(ms, cache) : st.tileDims = [i \in 1 .. Len(ms) |-> ms[i].dim]}

\* The sizes of one memref.
LEMMA SizesOfOne ==
    ASSUME NEW m \in TM!Memref
    PROVE  /\ m.elt \in Nat /\ m.dim \in Nat /\ m.full \in Nat
           /\ TM!fullSize(m) = m.elt * m.full /\ TM!fullSize(m) \in Nat
           /\ TM!tileSize(m) = m.elt * m.dim /\ TM!tileSize(m) \in Nat
<1> PICK d \in Nat, e \in Nat, f \in Nat : d = m.dim /\ e = m.elt /\ f = m.full
  BY DEF TM!Memref
<1>1. e * d \in Nat /\ e * f \in Nat
  BY ONLY d \in Nat, e \in Nat, f \in Nat
<1> QED BY <1>1 DEF TM!fullSize, TM!tileSize

\* The bytes of the memrefs of a state are numbers.
LEMMA BytesAreNumbers ==
    ASSUME NEW ms \in Seq(TM!Memref), NEW st, st.tileDims \in [1 .. Len(ms) -> Nat]
    PROVE  BytesIn(ms, st) \in [1 .. Len(ms) -> Nat]
<1> PICK n \in Nat : n = Len(ms) /\ ms \in [1 .. n -> TM!Memref] /\ DOMAIN ms = 1 .. n
  OBVIOUS
<1> SUFFICES ASSUME NEW i \in 1 .. n
             PROVE  (IF TM!SameSize(ms, st, i) THEN TM!Allocated(ms, st, i) ELSE 0) \in Nat
  BY DEF BytesIn
<1> PICK m \in TM!Memref : m = ms[i]
  OBVIOUS
<1> PICK e \in Nat, d \in Nat : e = m.elt /\ d = st.tileDims[i]
  BY SizesOfOne
<1>1. e * d \in Nat
  BY ONLY e \in Nat, d \in Nat
<1>2. TM!Allocated(ms, st, i) \in Nat
  BY <1>1 DEF TM!Allocated
<1> QED BY <1>2

\* Another state of one memref, whose cache has d elements.
LEMMA StateOfOne ==
    ASSUME NEW ms \in Seq(TM!Memref), NEW cache \in Nat, NEW st \in CachesCounted(ms, cache), NEW i \in DOMAIN ms,
           NEW to \in {"Tiled", "Full"}, NEW more \in Int, NEW d \in Nat, st.used + more <= cache,
           \/ /\ to = "Full" /\ st.state[i] = "Tiled" /\ d = ms[i].full
              /\ TM!fullSize(ms[i]) - TM!tileSize(ms[i]) <= more
           \/ to = "Full" /\ TM!fullSize(ms[i]) <= more
           \/ to = "Tiled" /\ TM!tileSize(ms[i]) <= more /\ d = ms[i].dim
    PROVE  [used |-> st.used + more, state |-> [st.state EXCEPT ![i] = to],
            tileDims |-> [st.tileDims EXCEPT ![i] = d]] \in CachesCounted(ms, cache)
<1> PICK n \in Nat : n = Len(ms) /\ ms \in [1 .. n -> TM!Memref] /\ DOMAIN ms = 1 .. n
  OBVIOUS
<1> PICK used \in Int : used = st.used
  BY DEF CachesCounted
<1> PICK next : next = [used |-> st.used + more, state |-> [st.state EXCEPT ![i] = to],
                        tileDims |-> [st.tileDims EXCEPT ![i] = d]]
  OBVIOUS
<1>1. /\ st.state \in CacheState(n) /\ st.tileDims \in [1 .. n -> Nat]
      /\ TM!Total(BytesIn(ms, st)) <= used /\ used <= cache
      /\ \A k \in 1 .. n : st.state[k] # "Full" => st.tileDims[k] = ms[k].dim
  BY DEF CachesCounted
<1>2. /\ next.used = used + more /\ next.state = [st.state EXCEPT ![i] = to]
      /\ next.tileDims = [st.tileDims EXCEPT ![i] = d]
  OBVIOUS
<1>3. next \in [used : Int, state : CacheState(Len(ms)), tileDims : [1 .. Len(ms) -> Nat]]
  <2>1. next.state \in CacheState(n)
    BY <1>1, <1>2 DEF CacheState
  <2>2. next.tileDims \in [1 .. n -> Nat]
    BY <1>1, <1>2
  <2> QED BY <2>1, <2>2
<1>4. /\ next.state[i] = to /\ next.tileDims[i] = d
      /\ \A k \in 1 .. n : k # i => next.state[k] = st.state[k] /\ next.tileDims[k] = st.tileDims[k]
  BY <1>1, <1>2 DEF CacheState
<1>5. \A k \in 1 .. n : next.state[k] # "Full" => next.tileDims[k] = ms[k].dim
  BY <1>1, <1>4
<1> PICK m \in TM!Memref : m = ms[i]
  OBVIOUS
<1> PICK e \in Nat, full \in Nat, tile \in Nat : e = m.elt /\ full = TM!fullSize(m) /\ tile = TM!tileSize(m)
  BY SizesOfOne
<1> PICK v : v = IF to = "Full" /\ d # m.full THEN 0 ELSE e * d
  OBVIOUS
<1> PICK s, t : s = BytesIn(ms, st) /\ t = BytesIn(ms, next)
  OBVIOUS
<1>6. s \in [1 .. n -> Nat] /\ t \in [1 .. n -> Nat]
  BY <1>1, <1>3, BytesAreNumbers
<1>7. t[i] = v
  <2>1. t[i] = IF TM!SameSize(ms, next, i) THEN TM!Allocated(ms, next, i) ELSE 0
    BY DEF BytesIn
  <2>2. TM!SameSize(ms, next, i) <=> ~(to = "Full" /\ d # m.full)
    BY <1>4 DEF TM!SameSize
  <2>3. TM!Allocated(ms, next, i) = e * d
    BY <1>4 DEF TM!Allocated
  <2> QED BY <2>1, <2>2, <2>3
<1>8. \A k \in 1 .. n : k # i => t[k] = s[k]
  <2> SUFFICES ASSUME NEW k \in 1 .. n, k # i PROVE t[k] = s[k]
    OBVIOUS
  <2>1. next.state[k] = st.state[k] /\ next.tileDims[k] = st.tileDims[k]
    BY <1>4
  <2>2. TM!SameSize(ms, next, k) <=> TM!SameSize(ms, st, k)
    BY <2>1 DEF TM!SameSize
  <2>3. TM!Allocated(ms, next, k) = TM!Allocated(ms, st, k)
    BY <2>1 DEF TM!Allocated
  <2> QED BY <2>2, <2>3 DEF BytesIn
<1>9. v \in Nat
  BY <1>6, <1>7
<1>10. t = [s EXCEPT ![i] = v]
  BY ONLY <1>6, <1>7, <1>8, i \in 1 .. n
<1> PICK before, after : before = LT!Total(s) /\ after = LT!Total([s EXCEPT ![i] = v])
  OBVIOUS
<1>11. after + s[i] = before + v /\ before \in Nat /\ after \in Nat /\ s[i] \in Nat
  <2>1. i \in 1 .. n
    OBVIOUS
  <2>2. LT!Total([s EXCEPT ![i] = v]) + s[i] = LT!Total(s) + v /\ LT!Total(s) \in Nat
        /\ LT!Total([s EXCEPT ![i] = v]) \in Nat
    <3>1. s \in [1 .. n -> Nat]
      BY <1>6
    <3> QED BY ONLY <1>9, <2>1, <3>1, n \in Nat, TotalUpdate, Zenon
  <2> QED BY <1>6, <2>1, <2>2
<1>12. before <= used
  BY <1>1, SameTotals
<1>13. v <= more + s[i]
  <2>1. CASE to = "Full" /\ st.state[i] = "Tiled" /\ d = m.full /\ full - tile <= more
    <3>1. TM!SameSize(ms, st, i) /\ TM!Allocated(ms, st, i) = m.elt * st.tileDims[i] /\ st.tileDims[i] = m.dim
      BY <1>1, <2>1 DEF TM!SameSize, TM!Allocated
    <3>2. s[i] = tile
      BY <3>1, SizesOfOne DEF BytesIn
    <3>3. v = full
      BY <2>1, SizesOfOne
    <3> QED BY ONLY <1>9, <1>11, <2>1, <3>2, <3>3, more \in Int, tile \in Nat, full \in Nat
  <2>2. CASE to = "Full" /\ full <= more
    <3>1. v = 0 \/ v = full
      <4>1. CASE d = m.full
        BY <4>1, SizesOfOne
      <4>2. CASE d # m.full
        BY <2>2, <4>2
      <4> QED BY <4>1, <4>2
    <3> QED BY ONLY <1>9, <1>11, <2>2, <3>1, more \in Int, full \in Nat
  <2>3. CASE to = "Tiled" /\ tile <= more /\ d = m.dim
    <3>1. v = tile
      BY <2>3, SizesOfOne
    <3> QED BY ONLY <1>9, <1>11, <2>3, <3>1, more \in Int, tile \in Nat
  <2> QED BY <2>1, <2>2, <2>3
<1>14. after <= used + more
  BY ONLY <1>9, <1>11, <1>12, <1>13, used \in Int, more \in Int
<1>15. TM!Total(BytesIn(ms, next)) = after
  BY <1>10, SameTotals
<1>16. next \in CachesCounted(ms, cache)
  BY <1>2, <1>3, <1>5, <1>14, <1>15 DEF CachesCounted
<1> QED BY <1>16

\* A step of the greedy choice.
LEMMA FitCounted ==
    ASSUME NEW ms \in Seq(TM!Memref), NEW cache \in Nat, NEW st \in CachesFitted(ms, cache), NEW i \in DOMAIN ms
    PROVE  TM!Fit(ms, cache, st, i) \in CachesFitted(ms, cache)
<1> PICK n \in Nat : n = Len(ms) /\ DOMAIN ms = 1 .. n
  OBVIOUS
<1> PICK used \in Int : used = st.used
  BY DEF CachesFitted, CachesCounted
<1> PICK full \in Nat, tile \in Nat, d \in Nat :
      full = TM!fullSize(ms[i]) /\ tile = TM!tileSize(ms[i]) /\ d = ms[i].dim
  BY SizesOfOne
<1>1. /\ st \in CachesCounted(ms, cache) /\ st.tileDims = [k \in 1 .. n |-> ms[k].dim]
      /\ st = [used |-> st.used, state |-> st.state, tileDims |-> st.tileDims]
      /\ DOMAIN st.state = 1 .. n
  BY DEF CachesFitted, CachesCounted, CacheState
<1>2. [st.tileDims EXCEPT ![i] = d] = st.tileDims
  BY <1>1
<1> PICK bytes \in Nat : bytes = TM!Min({tile, full}) /\ bytes \in {tile, full}
  <2>1. \E a \in {tile, full} : \A b \in {tile, full} : a <= b
    BY ONLY tile \in Nat, full \in Nat
  <2>2. TM!Min({tile, full}) \in {tile, full}
    BY <2>1 DEF TM!Min
  <2> QED BY <2>2
<1>3. CASE bytes <= cache - used
  <2> PICK to : to = IF bytes >= full THEN "Full" ELSE "Tiled"
    OBVIOUS
  <2> PICK next : next = [used |-> st.used + bytes, state |-> [st.state EXCEPT ![i] = to],
                          tileDims |-> [st.tileDims EXCEPT ![i] = d]]
    OBVIOUS
  <2>1. TM!Fit(ms, cache, st, i) = [st EXCEPT !.used = @ + bytes, !.state[i] = to]
    BY <1>3 DEF TM!Fit
  <2>2. TM!Fit(ms, cache, st, i) = next
    BY <1>1, <1>2, <2>1
  <2>3. /\ to \in {"Tiled", "Full"} /\ bytes \in Int /\ st.used + bytes <= cache
        /\ \/ to = "Full" /\ TM!fullSize(ms[i]) <= bytes
           \/ to = "Tiled" /\ TM!tileSize(ms[i]) <= bytes /\ d = ms[i].dim
    BY <1>3
  <2>4. next \in CachesCounted(ms, cache)
    BY <1>1, <2>3, StateOfOne
  <2>5. next.tileDims = [k \in 1 .. n |-> ms[k].dim]
    BY <1>1, <1>2
  <2> QED BY <2>2, <2>4, <2>5 DEF CachesFitted
<1>4. CASE ~(bytes <= cache - used)
  BY <1>4 DEF TM!Fit
<1> QED BY <1>3, <1>4

\* A step of the promotions.
LEMMA PromoteCounted ==
    ASSUME NEW ms \in Seq(TM!Memref), NEW cache \in Nat, NEW st \in CachesCounted(ms, cache), NEW i \in DOMAIN ms
    PROVE  TM!Promote(ms, cache, st, i) \in CachesCounted(ms, cache)
<1> PICK used \in Int : used = st.used
  BY DEF CachesCounted
<1> PICK full \in Nat, tile \in Nat, d \in Nat :
      full = TM!fullSize(ms[i]) /\ tile = TM!tileSize(ms[i]) /\ d = ms[i].full
  BY SizesOfOne
<1> PICK extra \in Int : extra = full - tile
  OBVIOUS
<1>1. CASE st.state[i] = "Tiled" /\ extra <= cache - used
  <2> PICK to \in {"Tiled", "Full"} : to = "Full"
    OBVIOUS
  <2> PICK next : next = [used |-> st.used + extra, state |-> [st.state EXCEPT ![i] = to],
                          tileDims |-> [st.tileDims EXCEPT ![i] = d]]
    OBVIOUS
  <2>1. TM!Promote(ms, cache, st, i) = next
    BY <1>1 DEF TM!Promote
  <2>2. used + extra <= cache /\ full - tile <= extra
    BY ONLY <1>1, used \in Int, extra \in Int, cache \in Nat, extra = full - tile
  <2>3. /\ st.used + extra <= cache /\ TM!fullSize(ms[i]) - TM!tileSize(ms[i]) <= extra
        /\ to = "Full" /\ st.state[i] = "Tiled" /\ d = ms[i].full
    BY <1>1, <2>2
  <2>4. next \in CachesCounted(ms, cache)
    BY <2>3, StateOfOne
  <2> QED BY <2>1, <2>4
<1>2. CASE ~(st.state[i] = "Tiled" /\ extra <= cache - used)
  BY <1>2 DEF TM!Promote
<1> QED BY <1>1, <1>2

\* The greedy choices one after the other.
LEMMA LoopsCounted ==
    ASSUME NEW ms \in Seq(TM!Memref), NEW cache \in Nat, NEW order \in Seq(DOMAIN ms), NEW base
    PROVE  /\ base \in CachesFitted(ms, cache) =>
                TM!FoldLeft(LAMBDA st, i : TM!Fit(ms, cache, st, i), base, order) \in CachesFitted(ms, cache)
           /\ base \in CachesCounted(ms, cache) =>
                TM!FoldLeft(LAMBDA st, i : TM!Promote(ms, cache, st, i), base, order) \in CachesCounted(ms, cache)
<1> PICK n \in Nat : n = Len(order) /\ order \in [1 .. n -> DOMAIN ms] /\ DOMAIN order = 1 .. n
  OBVIOUS
<1>1. ASSUME base \in CachesFitted(ms, cache)
      PROVE  TM!FoldLeft(LAMBDA st, i : TM!Fit(ms, cache, st, i), base, order) \in CachesFitted(ms, cache)
  <2> PICK I : I = CachesFitted(ms, cache)
    OBVIOUS
  <2>0. base \in I
    BY <1>1
  <2> DEFINE Step(st, i) == TM!Fit(ms, cache, st, i)
             step == [x \in I \X (1 .. n) |-> Step(x[1], order[x[2]])]
  <2>1. step \in [I \X (1 .. n) -> I]
    <3> SUFFICES ASSUME NEW st \in I, NEW k \in 1 .. n PROVE Step(st, order[k]) \in I
      OBVIOUS
    <3> QED BY FitCounted
  <2>2. PICK it \in [SUBSET (1 .. n) -> I] :
          \A t \in SUBSET (1 .. n) :
              it[t] = IF t = {} THEN base ELSE step[<<it[t \ {Max(t)}], Max(t)>>]
    <3>1. PICK it : FoldsBy(it, n, I, base, step)
      <4> HIDE DEF step
      <4> QED BY <2>0, <2>1, FoldExists, Zenon
    <3> HIDE DEF step
    <3> QED BY <3>1 DEF FoldsBy
  <2>3. it = [t \in SUBSET DOMAIN order |-> IF t = {} THEN base ELSE Step(it[t \ {Max(t)}], order[Max(t)])]
    <3> SUFFICES ASSUME NEW t \in SUBSET (1 .. n), t # {}
                 PROVE  step[<<it[t \ {Max(t)}], Max(t)>>] = Step(it[t \ {Max(t)}], order[Max(t)])
      BY <2>2
    <3>1. Max(t) \in 1 .. n
      BY FoldIndices
    <3>2. it[t \ {Max(t)}] \in I
      BY <2>2
    <3> HIDE DEF Step
    <3> QED BY <3>1, <3>2
  <2>4. PICK jt : /\ jt = [t \in SUBSET DOMAIN order |->
                             IF t = {} THEN base ELSE Step(jt[t \ {Max(t)}], order[Max(t)])]
                  /\ TM!FoldLeft(LAMBDA st, i : TM!Fit(ms, cache, st, i), base, order) = jt[DOMAIN order]
    <3>1. TM!FoldLeft(LAMBDA st, i : TM!Fit(ms, cache, st, i), base, order) =
            (CHOOSE jt : jt = [t \in SUBSET DOMAIN order |->
                    IF t = {} THEN base ELSE Step(jt[t \ {Max(t)}], order[Max(t)])])[DOMAIN order]
      BY DEF TM!FoldLeft, TM!MapThenFoldSet, TM!Max, Max
    <3> HIDE DEF Step, step
    <3> QED BY ONLY <2>3, <3>1
  <2> DEFINE S == {k \in 0 .. n : jt[1 .. k] \in I}
  <2>5. \A k \in 1 .. n : jt[1 .. k] = Step(jt[1 .. (k - 1)], order[k])
    <3> TAKE k \in 1 .. n
    <3>1. 1 .. k \in SUBSET DOMAIN order /\ 1 .. k # {} /\ Max(1 .. k) = k /\ (1 .. k) \ {k} = 1 .. (k - 1)
      BY FoldIndices
    <3> HIDE DEF Step
    <3> QED BY <2>4, <3>1
  <2>6. 0 \in S
    <3>1. 1 .. 0 = {} /\ 1 .. 0 \in SUBSET DOMAIN order /\ 0 \in 0 .. n
      OBVIOUS
    <3> HIDE DEF Step
    <3> QED BY <2>0, <2>4, <3>1
  <2>7. ASSUME NEW k \in 0 .. n - 1, k \in S PROVE k + 1 \in S
    <3>1. k + 1 \in 1 .. n /\ (k + 1) - 1 = k /\ k + 1 \in 0 .. n /\ order[k + 1] \in DOMAIN ms
      OBVIOUS
    <3>2. jt[1 .. (k + 1)] = Step(jt[1 .. k], order[k + 1])
      BY <2>5, <3>1
    <3> PICK st \in CachesFitted(ms, cache), i \in DOMAIN ms : st = jt[1 .. k] /\ i = order[k + 1]
      BY <2>7, <3>1
    <3>3. Step(st, i) \in I
      BY FitCounted
    <3> QED BY <3>1, <3>2, <3>3
  <2>8. \A k \in 0 .. n : k \in S
    <3> HIDE DEF S
    <3> QED BY <2>6, <2>7, Induction
  <2>9. n \in 0 .. n
    OBVIOUS
  <2> QED BY <2>4, <2>8, <2>9
<1>2. ASSUME base \in CachesCounted(ms, cache)
      PROVE  TM!FoldLeft(LAMBDA st, i : TM!Promote(ms, cache, st, i), base, order) \in CachesCounted(ms, cache)
  <2> PICK I : I = CachesCounted(ms, cache)
    OBVIOUS
  <2>0. base \in I
    BY <1>2
  <2> DEFINE Step(st, i) == TM!Promote(ms, cache, st, i)
             step == [x \in I \X (1 .. n) |-> Step(x[1], order[x[2]])]
  <2>1. step \in [I \X (1 .. n) -> I]
    <3> SUFFICES ASSUME NEW st \in I, NEW k \in 1 .. n PROVE Step(st, order[k]) \in I
      OBVIOUS
    <3> QED BY PromoteCounted
  <2>2. PICK it \in [SUBSET (1 .. n) -> I] :
          \A t \in SUBSET (1 .. n) :
              it[t] = IF t = {} THEN base ELSE step[<<it[t \ {Max(t)}], Max(t)>>]
    <3>1. PICK it : FoldsBy(it, n, I, base, step)
      <4> HIDE DEF step
      <4> QED BY <2>0, <2>1, FoldExists, Zenon
    <3> HIDE DEF step
    <3> QED BY <3>1 DEF FoldsBy
  <2>3. it = [t \in SUBSET DOMAIN order |-> IF t = {} THEN base ELSE Step(it[t \ {Max(t)}], order[Max(t)])]
    <3> SUFFICES ASSUME NEW t \in SUBSET (1 .. n), t # {}
                 PROVE  step[<<it[t \ {Max(t)}], Max(t)>>] = Step(it[t \ {Max(t)}], order[Max(t)])
      BY <2>2
    <3>1. Max(t) \in 1 .. n
      BY FoldIndices
    <3>2. it[t \ {Max(t)}] \in I
      BY <2>2
    <3> HIDE DEF Step
    <3> QED BY <3>1, <3>2
  <2>4. PICK jt : /\ jt = [t \in SUBSET DOMAIN order |->
                             IF t = {} THEN base ELSE Step(jt[t \ {Max(t)}], order[Max(t)])]
                  /\ TM!FoldLeft(LAMBDA st, i : TM!Promote(ms, cache, st, i), base, order) = jt[DOMAIN order]
    <3>1. TM!FoldLeft(LAMBDA st, i : TM!Promote(ms, cache, st, i), base, order) =
            (CHOOSE jt : jt = [t \in SUBSET DOMAIN order |->
                    IF t = {} THEN base ELSE Step(jt[t \ {Max(t)}], order[Max(t)])])[DOMAIN order]
      BY DEF TM!FoldLeft, TM!MapThenFoldSet, TM!Max, Max
    <3> HIDE DEF Step, step
    <3> QED BY ONLY <2>3, <3>1
  <2> DEFINE S == {k \in 0 .. n : jt[1 .. k] \in I}
  <2>5. \A k \in 1 .. n : jt[1 .. k] = Step(jt[1 .. (k - 1)], order[k])
    <3> TAKE k \in 1 .. n
    <3>1. 1 .. k \in SUBSET DOMAIN order /\ 1 .. k # {} /\ Max(1 .. k) = k /\ (1 .. k) \ {k} = 1 .. (k - 1)
      BY FoldIndices
    <3> HIDE DEF Step
    <3> QED BY <2>4, <3>1
  <2>6. 0 \in S
    <3>1. 1 .. 0 = {} /\ 1 .. 0 \in SUBSET DOMAIN order /\ 0 \in 0 .. n
      OBVIOUS
    <3> HIDE DEF Step
    <3> QED BY <2>0, <2>4, <3>1
  <2>7. ASSUME NEW k \in 0 .. n - 1, k \in S PROVE k + 1 \in S
    <3>1. k + 1 \in 1 .. n /\ (k + 1) - 1 = k /\ k + 1 \in 0 .. n /\ order[k + 1] \in DOMAIN ms
      OBVIOUS
    <3>2. jt[1 .. (k + 1)] = Step(jt[1 .. k], order[k + 1])
      BY <2>5, <3>1
    <3> PICK st \in CachesCounted(ms, cache), i \in DOMAIN ms : st = jt[1 .. k] /\ i = order[k + 1]
      BY <2>7, <3>1
    <3>3. Step(st, i) \in I
      BY PromoteCounted
    <3> QED BY <3>1, <3>2, <3>3
  <2>8. \A k \in 0 .. n : k \in S
    <3> HIDE DEF S
    <3> QED BY <2>6, <2>7, Induction
  <2>9. n \in 0 .. n
    OBVIOUS
  <2> QED BY <2>4, <2>8, <2>9
<1> QED BY <1>1, <1>2

\* AffineTileMemoryPass.cpp: the caches that are chosen for a loop fit together,
\* whatever memrefs it touches and however large their tiles, but for a cache
\* larger than the memref it would be copied from.
THEOREM ChosenCachesFit ==
    ASSUME NEW ms \in Seq(TM!Memref), NEW cache \in Nat
    PROVE  TM!CachesFit(ms, cache)
<1> PICK n \in Nat : n = Len(ms) /\ ms \in [1 .. n -> TM!Memref] /\ DOMAIN ms = 1 .. n
  OBVIOUS
<1> PICK none : none = [used |-> 0, state |-> [i \in DOMAIN ms |-> "NotCached"],
                        tileDims |-> [i \in DOMAIN ms |-> ms[i].dim]]
  OBVIOUS
<1>1. none \in CachesFitted(ms, cache)
  <2> PICK s : s = BytesIn(ms, none)
    OBVIOUS
  <2>0. /\ none.used = 0 /\ none.state = [i \in 1 .. n |-> "NotCached"]
        /\ none.tileDims = [i \in 1 .. n |-> ms[i].dim]
    OBVIOUS
  <2>1. s = [i \in 1 .. n |-> 0]
    <3>1. \A i \in 1 .. n : TM!SameSize(ms, none, i) /\ TM!Allocated(ms, none, i) = 0
      BY <2>0 DEF TM!SameSize, TM!Allocated
    <3> QED BY <3>1 DEF BytesIn
  <2>2. TM!Total(s) = 0
    BY <2>1, TotalOfZeros, SameTotals
  <2>3. none \in [used : Int, state : CacheState(Len(ms)), tileDims : [1 .. Len(ms) -> Nat]]
    <3>1. none.state \in CacheState(n)
      BY <2>0 DEF CacheState
    <3>2. none.tileDims \in [1 .. n -> Nat]
      BY <2>0, SizesOfOne
    <3> QED BY <3>1, <3>2
  <2>4. TM!Total(BytesIn(ms, none)) <= none.used /\ none.used <= cache
    BY <2>0, <2>2
  <2> QED BY <2>0, <2>3, <2>4 DEF CachesCounted, CachesFitted
<1> PICK byReuse, byKey : byReuse = TM!Sorted(ms, TM!ByReuse) /\ byKey = TM!Sorted(ms, TM!BySortKey)
  OBVIOUS
<1>2. byReuse \in Seq(DOMAIN ms) /\ byKey \in Seq(DOMAIN ms)
  BY SortedMemrefs
<1> PICK fitted : fitted = TM!FoldLeft(LAMBDA st, i : TM!Fit(ms, cache, st, i), none, byReuse)
  OBVIOUS
<1>3. fitted \in CachesFitted(ms, cache)
  BY <1>1, <1>2, LoopsCounted
<1> PICK chosen : chosen = TM!FoldLeft(LAMBDA st, i : TM!Promote(ms, cache, st, i), fitted, byKey)
  OBVIOUS
<1>4. chosen \in CachesCounted(ms, cache)
  <2>1. fitted \in CachesCounted(ms, cache)
    BY <1>3 DEF CachesFitted
  <2> QED BY <1>2, <2>1, LoopsCounted
<1>5. TM!Cached(ms, cache) = chosen
  BY DEF TM!Cached
<1>6. TM!Total(BytesIn(ms, chosen)) <= cache
  <2>1. /\ TM!Total(BytesIn(ms, chosen)) <= chosen.used /\ chosen.used <= cache /\ chosen.used \in Int
        /\ chosen.tileDims \in [1 .. n -> Nat]
    BY <1>4 DEF CachesCounted
  <2>2. BytesIn(ms, chosen) \in [1 .. n -> Nat]
    BY <2>1, BytesAreNumbers
  <2>3. TM!Total(BytesIn(ms, chosen)) \in Nat
    BY <2>2, FoldsAreNumbers
  <2> PICK total \in Nat : total = TM!Total(BytesIn(ms, chosen))
    BY <2>3
  <2> PICK used \in Int : used = chosen.used
    BY <2>1
  <2>4. total <= used /\ used <= cache
    BY <2>1
  <2>5. total <= cache
    BY ONLY <2>4, total \in Nat, used \in Int, cache \in Nat
  <2> QED BY <2>5
<1> QED BY <1>5, <1>6 DEF TM!CachesFit, BytesIn

=============================================================================
