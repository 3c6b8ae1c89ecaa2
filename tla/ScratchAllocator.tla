--------------------------- MODULE ScratchAllocator ---------------------------
(***************************************************************************)
(* What a client of the VTCM pool relies on, with no free list in sight: an *)
(* allocation succeeds exactly when a contiguous hole of the rounded size   *)
(* exists, and lies in such a hole; a free takes effect exactly on a live   *)
(* block of that size, and anything else stops the process.                 *)
(***************************************************************************)
EXTENDS Integers

CONSTANTS Size, Requests, NullPtr, Rounded(_)

VARIABLES live, ret, status

vars == <<live, ret, status>>

Apart(a, b) == a.first + a.second <= b.first \/ b.first + b.second <= a.first

\* The places where a block of n bytes fits between the live blocks.
Holes(n) ==
    {p \in 0 .. Size - n :
        \A a \in live : Apart([first |-> p, second |-> n], a)}

Init == live = {} /\ ret = [n |-> 0, ptr |-> NullPtr] /\ status = "ok"

Succeed(n, p) ==
    /\ ret' = [n |-> n, ptr |-> p]
    /\ n # 0
    /\ p \in Holes(Rounded(n))
    /\ live' = live \cup {[first |-> p, second |-> Rounded(n)]}
    /\ UNCHANGED status

Fail(n) ==
    /\ ret' = [n |-> n, ptr |-> NullPtr]
    /\ n # 0 => Holes(Rounded(n)) = {}
    /\ UNCHANGED <<live, status>>

Release(b) ==
    /\ b \in live
    /\ live' = live \ {b}
    /\ UNCHANGED <<ret, status>>

Misuse ==
    /\ status' \in {"not allocated", "different size"}
    /\ UNCHANGED <<live, ret>>

Shutdown == status' = "released" /\ UNCHANGED <<live, ret>>

Next ==
    /\ status = "ok"
    /\ \/ \E n \in Requests : Fail(n) \/ \E p \in 0 .. Size : Succeed(n, p)
       \/ \E b \in live : Release(b)
       \/ Misuse
       \/ Shutdown

Spec == Init /\ [][Next]_vars
=============================================================================
