------------------------------ MODULE VTCMPool ------------------------------
(***************************************************************************)
(* The VTCM pool of the hexagon-mlir runtime (bin/runtime/src/VTCMPool.cpp): *)
(* the one allocator of the on-chip scratchpad.  Small requests come from   *)
(* the end of the last free block, large ones (and small ones that do not   *)
(* fit there) from the front of the best-fitting free block; Free coalesces *)
(* with both neighbours.                                                    *)
(*                                                                         *)
(* Addresses are offsets from vtcmData_, which is page aligned.  A block is *)
(* a (first, second) pair as in the code: its start and its size.          *)
(***************************************************************************)
EXTENDS Integers, Sequences, SequencesExt

CONSTANTS
    kSmallAlignment,    \* granule of small requests (128 in the code)
    kLargeAlignment,    \* granule and threshold of large requests (2048)
    vtcmAllocatedSize,  \* bytes the pool acquired from the device
    Requests,           \* the request sizes its clients use
    NullPtr             \* nullptr

ASSUME PoolAssumption ==
    /\ kSmallAlignment \in Nat \ {0}
    /\ kLargeAlignment \in Nat \ {0}
    /\ kSmallAlignment <= kLargeAlignment
    /\ kLargeAlignment % kSmallAlignment = 0
    /\ vtcmAllocatedSize \in Nat \ {0}
    /\ vtcmAllocatedSize % kSmallAlignment = 0
    /\ Requests \subseteq Nat
    /\ NullPtr \notin Nat

VARIABLES
    allocations,  \* allocations_: the live blocks; only ever searched by
                  \* pointer, so its order is not kept
    free,         \* free_: the free blocks, a vector
    ret,          \* what the last Allocate was asked for and returned
    status        \* "ok", "released" (destroyed) or the CHECK that aborted

vars == <<allocations, free, ret, status>>

Addr == 0 .. vtcmAllocatedSize
Block == [first : Nat, second : Nat]

Aborts == {"not allocated", "different size", "already free",
           "overlaps next", "overlaps previous"}
Status == {"ok", "released"} \cup Aborts

(***************************************************************************)
(* Helpers of the anonymous namespace.                                      *)
(***************************************************************************)
RoundUp(n, a) == ((n + (a - 1)) \div a) * a

alignSize(n) ==
    RoundUp(n, IF n >= kLargeAlignment THEN kLargeAlignment ELSE kSmallAlignment)

\* Mutant: a block of exactly the size is passed over.
FitsStrictly(n) == {i \in DOMAIN free : free[i].second > n}

\* The blocks findBestFit may return: the first of the smallest that suffice.
Fits(n) == {i \in DOMAIN free : free[i].second >= n}

findBestFit(n) ==
    {i \in Fits(n) :
        \A j \in Fits(n) : \/ free[i].second < free[j].second
                           \/ free[i].second = free[j].second /\ i <= j}

EndOf(b) == b.first + b.second

\* Mutant: an emptied block stays in the list.
ShrunkKeepsEmpty(i, b) == ReplaceAt(free, i, b)

\* A block that was cut is erased when nothing is left of it.
Shrunk(i, b) == IF b.second = 0 THEN RemoveAt(free, i) ELSE ReplaceAt(free, i, b)

-----------------------------------------------------------------------------
Init ==
    /\ allocations = {}
    /\ free = <<[first |-> 0, second |-> vtcmAllocatedSize]>>
    /\ ret = [n |-> 0, ptr |-> NullPtr]
    /\ status = "ok"

Take(n, ptr) ==
    /\ allocations' = allocations \cup {[first |-> ptr, second |-> alignSize(n)]}
    /\ ret' = [n |-> n, ptr |-> ptr]
    /\ UNCHANGED status

EndFits(size) == free # <<>> /\ free[Len(free)].second >= size

\* Allocate, small request, served by tryAllocateFromEnd.
AllocateFromEnd(n) ==
    LET size == alignSize(n)
        last == free[Len(free)]
    IN  /\ n # 0 /\ size <= vtcmAllocatedSize
        /\ size < kLargeAlignment
        /\ EndFits(size)
        /\ Take(n, last.first + (last.second - size))
        /\ free' = Shrunk(Len(free), [last EXCEPT !.second = @ - size])

\* Allocate, large request or small one that did not fit at the end.
AllocateBestFit(n) ==
    LET size == alignSize(n)
    IN  /\ n # 0 /\ size <= vtcmAllocatedSize
        /\ size < kLargeAlignment => ~EndFits(size)
        /\ \E i \in findBestFit(size) :
              /\ Take(n, free[i].first)
              /\ free' = Shrunk(i, [first |-> free[i].first + size,
                                    second |-> free[i].second - size])

\* Allocate returning nullptr: nothing asked for, more than the pool has, or
\* no free block large enough.
AllocateFails(n) ==
    /\ \/ n = 0
       \/ alignSize(n) > vtcmAllocatedSize
       \/ Fits(alignSize(n)) = {}
    /\ ret' = [n |-> n, ptr |-> NullPtr]
    /\ UNCHANGED <<allocations, free, status>>

Allocate(n) == AllocateFromEnd(n) \/ AllocateBestFit(n) \/ AllocateFails(n)

\* std::lower_bound over free_ by address.
LowerBound(ptr) ==
    {i \in 1 .. Len(free) + 1 :
        /\ \A j \in 1 .. i - 1 : free[j].first < ptr
        /\ i <= Len(free) => free[i].first >= ptr}

\* Two adjacent blocks as one.
Join(a, b) == [first |-> a.first, second |-> a.second + b.second]

\* Mutant: the previous block is never joined.
JoinPreviousNever(fr, i) == fr

\* Join the entry at i of the list fr, which starts at the freed pointer,
\* with the entry before it.
JoinPrevious(fr, i) ==
    IF i > 1 /\ EndOf(fr[i - 1]) = fr[i].first
    THEN RemoveAt(ReplaceAt(fr, i - 1, Join(fr[i - 1], fr[i])), i)
    ELSE fr

\* coalesceAndAddToFreeList, its three CHECKs passed.
Coalesced(b, i) ==
    JoinPrevious(IF i <= Len(free) /\ EndOf(b) = free[i].first
                 THEN ReplaceAt(free, i, Join(b, free[i]))
                 ELSE InsertAt(free, i, b),
                 i)

\* The CHECK of coalesceAndAddToFreeList that aborts, or "ok".
CoalesceCheck(b, i) ==
    CASE i <= Len(free) /\ b.first = free[i].first -> "already free"
      [] i <= Len(free) /\ EndOf(b) > free[i].first -> "overlaps next"
      [] i > 1 /\ EndOf(free[i - 1]) > b.first -> "overlaps previous"
      [] OTHER -> "ok"

\* Free of a pointer or size the CHECKs of Free reject: the process aborts.
FreeRejected(ptr, n) ==
    /\ ptr # NullPtr /\ n # 0
    /\ [first |-> ptr, second |-> alignSize(n)] \notin allocations
    /\ status' = IF \E a \in allocations : a.first = ptr
                 THEN "different size" ELSE "not allocated"
    /\ UNCHANGED <<allocations, free, ret>>

FreeAccepted(ptr, n) ==
    LET b == [first |-> ptr, second |-> alignSize(n)]
    IN  /\ ptr # NullPtr /\ n # 0
        /\ b \in allocations
        /\ allocations' = allocations \ {b}
        /\ \E i \in LowerBound(ptr) :
              /\ status' = CoalesceCheck(b, i)
              /\ free' = IF status' = "ok" THEN Coalesced(b, i) ELSE free
        /\ UNCHANGED ret

\* Free of nullptr or of zero bytes only logs.
FreeNothing(ptr, n) ==
    /\ ptr = NullPtr \/ n = 0
    /\ UNCHANGED vars

Free(ptr, n) == FreeAccepted(ptr, n) \/ FreeRejected(ptr, n) \/ FreeNothing(ptr, n)

\* ~VtcmPool: leaks are reported, the device memory goes back either way.
Destroy == status' = "released" /\ UNCHANGED <<allocations, free, ret>>

Next ==
    /\ status = "ok"
    /\ \/ \E n \in Requests : Allocate(n)
       \/ \E ptr \in Addr \cup {NullPtr}, n \in Requests : Free(ptr, n)
       \/ Destroy

Spec == Init /\ [][Next]_vars

-----------------------------------------------------------------------------
(***************************************************************************)
(* Properties.                                                              *)
(***************************************************************************)
\* The lists hold blocks of the pool and the status is one of the CHECKs.
TypeOK ==
    /\ allocations \subseteq Block
    /\ free \in Seq(Block)
    /\ ret \in [n : Nat, ptr : Nat \cup {NullPtr}]
    /\ status \in Status

Disjoint(a, b) == EndOf(a) <= b.first \/ EndOf(b) <= a.first

InPool(b) == b.second > 0 /\ EndOf(b) <= vtcmAllocatedSize

\* validateInvariants, first part: no two live allocations share a byte.
AllocationsDisjoint ==
    /\ \A a \in allocations : InPool(a)
    /\ \A a, b \in allocations : a # b => Disjoint(a, b)

\* Free blocks lie in address order with a gap between any two, that is, the
\* list stays sorted (lower_bound relies on it) and fully coalesced.
FreeSortedCoalesced ==
    /\ \A i \in DOMAIN free : InPool(free[i])
    /\ \A i, j \in DOMAIN free : i < j => EndOf(free[i]) < free[j].first

\* validateInvariants, third part: no byte is both free and allocated.
AllocationsNotFree ==
    \A a \in allocations, i \in DOMAIN free : Disjoint(a, free[i])

Holds(b, x) == b.first <= x /\ x < EndOf(b)

\* checkMemoryAccountedFor, byte by byte: no byte of the pool is ever lost.
EveryByteAccounted ==
    \A x \in 0 .. vtcmAllocatedSize - 1 :
        \/ \E a \in allocations : Holds(a, x)
        \/ \E i \in DOMAIN free : Holds(free[i], x)

\* An aborting CHECK of coalesceAndAddToFreeList would mean that the pool had
\* corrupted its own list; only the two CHECKs on the caller's arguments fire.
FreeListChecksUnreachable ==
    status \notin {"already free", "overlaps next", "overlaps previous"}

\* When the clients have freed everything the pool is one block again: no
\* sequence of calls leaves fragmentation behind.
EmptyPoolIsOneBlock ==
    (allocations = {} /\ status = "ok") =>
        free = <<[first |-> 0, second |-> vtcmAllocatedSize]>>

\* The pool implements the allocator its clients think of: a request fails
\* only when no contiguous hole of the rounded size exists anywhere.
Abstract == INSTANCE ScratchAllocator
                WITH Size <- vtcmAllocatedSize, Rounded <- alignSize,
                     live <- allocations

ImplementsAllocator == Abstract!Spec

\* The inductive invariant behind the safety properties.
PoolInv ==
    /\ TypeOK
    /\ FreeListChecksUnreachable
    /\ AllocationsDisjoint
    /\ FreeSortedCoalesced
    /\ AllocationsNotFree
    /\ EveryByteAccounted

=============================================================================
