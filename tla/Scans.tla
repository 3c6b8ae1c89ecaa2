-------------------------------- MODULE Scans --------------------------------
(***************************************************************************)
(* Lowering of the scans of the TTX dialect to loops (LowerTTX.cpp).  A loop *)
(* carries an accumulator and a tensor, which starts as the input and is     *)
(* overwritten as the loop goes.  An element is the sequence of the inputs   *)
(* it was combined from, so that the order of the operands of the body       *)
(* counts.                                                                   *)
(***************************************************************************)
EXTENDS Integers, Sequences, SequencesExt, Functions

combine(acc, curr) == acc \o curr

\* The state of the loop before its first iteration and after its last.
Loop(start, size, Step(_, _)) == FoldLeft(Step, start, [i \in 1 .. (size - 1) |-> i]).tensor

\* The faulty variant starts a reverse scan from the first element.
ScanPlaceFirst(size, reverse, iv) == IF reverse /\ iv > 0 THEN size - 1 - iv ELSE iv

\* Where iteration iv of a scan reads and writes.
ScanPlace(size, reverse, iv) == IF reverse THEN size - 1 - iv ELSE iv

\* A scan of more dimensions than one has no lowering.
LowerScan(input, reverse) ==
    LET size == Len(input)
        At(iv) == ScanPlace(size, reverse, iv) + 1
        Step(s, iv) == LET acc == combine(s.acc, s.tensor[At(iv)])
                       IN  [acc |-> acc, tensor |-> [s.tensor EXCEPT ![At(iv)] = acc]]
    IN  Loop([acc |-> input[At(0)], tensor |-> input], size, Step)

\* input maps indices to elements; a slice has one index along axis.
LowerCumSum(input, axis, size) ==
    LET Slice(tensor, k) == Restrict(tensor, {x \in DOMAIN tensor : x[axis] = k})
        Here(x, k) == [x EXCEPT ![axis] = k]
        Step(s, iv) ==
            LET this == Slice(s.tensor, iv)
                acc == [x \in DOMAIN s.acc |-> combine(s.acc[x], this[Here(x, iv)])]
            IN  [acc |-> acc,
                 tensor |-> [x \in DOMAIN s.tensor |-> IF x[axis] = iv THEN acc[Here(x, 0)] ELSE s.tensor[x]]]
    IN  Loop([acc |-> Slice(input, 0), tensor |-> input], size, Step)

-----------------------------------------------------------------------------
\* Every element is combined from itself and all before it, in order.

PrefixOf(size, reverse, i) ==
    [k \in 1 .. (IF reverse THEN size + 1 - i ELSE i) |-> IF reverse THEN size + 1 - k ELSE k]

ScansInOrder(size, reverse) ==
    LowerScan([i \in 1 .. size |-> <<i>>], reverse) = [i \in 1 .. size |-> PrefixOf(size, reverse, i)]

SumsAlong(shape, axis) ==
    LET Numbers == UNION {0 .. shape[d] - 1 : d \in DOMAIN shape}
        Indices == {x \in [DOMAIN shape -> Numbers] : \A d \in DOMAIN shape : x[d] < shape[d]}
    IN  LowerCumSum([x \in Indices |-> <<x>>], axis, shape[axis])
          = [x \in Indices |-> [k \in 1 .. (x[axis] + 1) |-> [x EXCEPT ![axis] = k - 1]]]

=============================================================================
