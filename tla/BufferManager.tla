---------------------------- MODULE BufferManager ----------------------------
(***************************************************************************)
(* The buffers behind the C API of the runtime (HexagonAPI, BufferManager,   *)
(* HexagonBuffer): a session owns the VTCM pool and a map from the pointers  *)
(* it handed out to the buffers it keeps.  A buffer in VTCM holds a block of *)
(* the pool, one in DDR a block of the heap; a 2D buffer is one block cut    *)
(* into rows, and its pointer is the table of the row addresses.            *)
(*                                                                         *)
(* A client is a piece of generated code that allocates a buffer, frees it   *)
(* once, and does not look at the pointer in between.                       *)
(***************************************************************************)
EXTENDS VTCMPool, FiniteSets

CONSTANTS
    Clients,
    HeapPtrs,   \* addresses malloc and posix_memalign return, outside the pool
    Shapes,     \* the buffers the clients ask for
    None

\* rows is 0 for the 1D entry point.
Shape == [rows : Nat, nbytes : Nat, alignment : Nat \ {0}, isVtcm : BOOLEAN]

ASSUME BufferAssumption ==
    /\ Shapes \subseteq Shape
    /\ \A r \in Shapes : r.isVtcm => \/ r.alignment <= kSmallAlignment
                                     \/ r.alignment = kLargeAlignment
    /\ HeapPtrs \cap (Nat \cup {NullPtr}) = {}
    /\ None \notin HeapPtrs \cup Nat \cup {NullPtr}

VARIABLES
    bufferMap,  \* bufferMap_: buffers by the pointer handed out
    session,    \* "open", "releasing" or "closed"
    held,       \* the pointer each client was given, or None
    exhausted   \* history: some VTCM allocation of this session failed

bufferVars == <<bufferMap, session, held, exhausted>>
allVars == <<vars, bufferVars>>

Put(f, k, v) == [x \in DOMAIN f \cup {k} |-> IF x = k THEN v ELSE f[x]]
Without(f, k) == [x \in DOMAIN f \ {k} |-> f[x]]

(***************************************************************************)
(* Sizes.                                                                   *)
(***************************************************************************)
\* The distance between two rows of a 2D buffer.
nbytesAligned(r) == RoundUp(r.nbytes, r.alignment)

\* The bytes the constructor of HexagonBuffer asks its allocator for.
nbytesMonolithic(r) ==
    IF r.rows = 0 THEN r.nbytes ELSE r.rows * nbytesAligned(r)

\* VTCMAllocation rounds to the granule of its alignment before it asks the
\* pool, which rounds again.
allocatedBytes(r) ==
    RoundUp(nbytesMonolithic(r),
            IF r.alignment = kLargeAlignment THEN kLargeAlignment ELSE kSmallAlignment)

\* What a row of the buffer can hold; a 1D buffer is one row.
Rows(r) == IF r.rows = 0 THEN {0} ELSE 0 .. r.rows - 1

HeapInUse ==
    (DOMAIN bufferMap \cup {bufferMap[p].data : p \in DOMAIN bufferMap}) \cap HeapPtrs

-----------------------------------------------------------------------------
BufferInit ==
    /\ Init
    /\ bufferMap = <<>> /\ session = "open"
    /\ held = [c \in Clients |-> None]
    /\ exhausted = FALSE

\* bufferMap_.insert does nothing when the key is there, and the new buffer
\* dies with the pair; its data can only be null then.
Insert(key, b) ==
    bufferMap' = IF key \in DOMAIN bufferMap THEN bufferMap ELSE Put(bufferMap, key, b)

\* AllocateHexagonBuffer with block data: the pointer handed out is the block
\* itself or a fresh table of rows.
HandOut(c, r, data) ==
    \E key \in IF r.rows = 0 THEN {data} ELSE HeapPtrs \ (HeapInUse \cup {data}) :
        /\ Insert(key, [data |-> data, shape |-> r])
        /\ held' = [held EXCEPT ![c] = key]
        /\ exhausted' = (exhausted \/ data = NullPtr)
        /\ UNCHANGED session

MayCall == status = "ok" /\ session = "open"

AllocVtcm(c, r) ==
    /\ MayCall /\ held[c] = None /\ r.isVtcm
    /\ Allocate(allocatedBytes(r))
    /\ HandOut(c, r, ret'.ptr)

AllocDDR(c, r) ==
    /\ MayCall /\ held[c] = None /\ ~r.isVtcm
    /\ \E data \in HeapPtrs \ HeapInUse : HandOut(c, r, data)
    /\ UNCHANGED vars

\* Mutant: the destructor passes the size asked for.
FreeBlockAsAsked(b) ==
    IF b.shape.isVtcm THEN Free(b.data, nbytesMonolithic(b.shape)) ELSE UNCHANGED vars

\* The destructor of a buffer gives its block back.
FreeBlock(b) ==
    IF b.shape.isVtcm THEN Free(b.data, allocatedBytes(b.shape)) ELSE UNCHANGED vars

\* Mutant: the entry stays in the map.
FreeKnownKeepsEntry(c) ==
    /\ MayCall /\ held[c] # None
    /\ held[c] \in DOMAIN bufferMap
    /\ FreeBlock(bufferMap[held[c]])
    /\ held' = [held EXCEPT ![c] = None]
    /\ UNCHANGED <<bufferMap, session, exhausted>>

\* FreeHexagonBuffer of a pointer in the map: the buffer is destroyed.
FreeKnown(c) ==
    /\ MayCall /\ held[c] # None
    /\ held[c] \in DOMAIN bufferMap
    /\ FreeBlock(bufferMap[held[c]])
    /\ bufferMap' = Without(bufferMap, held[c])
    /\ held' = [held EXCEPT ![c] = None]
    /\ UNCHANGED <<session, exhausted>>

\* "Attempt made to free unknown or already freed allocation".
FreeUnknown(c) ==
    /\ MayCall /\ held[c] # None
    /\ held[c] \notin DOMAIN bufferMap
    /\ status' = "unknown allocation"
    /\ UNCHANGED <<allocations, free, ret, bufferVars>>

\* ReleaseResources: the buffer manager goes first, and its buffers with it.
BeginRelease ==
    /\ status = "ok" /\ session = "open"
    /\ session' = "releasing"
    /\ held' = [c \in Clients |-> None]
    /\ UNCHANGED <<vars, bufferMap, exhausted>>

DestroyBuffer(p) ==
    /\ status = "ok" /\ session = "releasing"
    /\ p \in DOMAIN bufferMap
    /\ FreeBlock(bufferMap[p])
    /\ bufferMap' = Without(bufferMap, p)
    /\ UNCHANGED <<session, held, exhausted>>

\* Then the pool.
ReleasePool ==
    /\ status = "ok" /\ session = "releasing"
    /\ bufferMap = <<>>
    /\ Destroy
    /\ session' = "closed"
    /\ UNCHANGED <<bufferMap, held, exhausted>>

\* AcquireResources: a new pool and an empty map.
Acquire ==
    /\ session = "closed" /\ status = "released"
    /\ allocations' = {}
    /\ free' = <<[first |-> 0, second |-> vtcmAllocatedSize]>>
    /\ ret' = [n |-> 0, ptr |-> NullPtr]
    /\ status' = "ok"
    /\ bufferMap' = <<>> /\ session' = "open" /\ exhausted' = FALSE
    /\ UNCHANGED held

BufferNext ==
    \/ \E c \in Clients :
          \/ \E r \in Shapes : AllocVtcm(c, r) \/ AllocDDR(c, r)
          \/ FreeKnown(c) \/ FreeUnknown(c)
    \/ BeginRelease \/ ReleasePool \/ Acquire
    \/ \E p \in DOMAIN bufferMap : DestroyBuffer(p)

BufferSpec == BufferInit /\ [][BufferNext]_allVars

-----------------------------------------------------------------------------
Pointer == 0 .. vtcmAllocatedSize \cup HeapPtrs \cup {NullPtr}

\* The map takes pointers to buffers, the clients hold pointers.
BufferTypeOK ==
    /\ DOMAIN bufferMap \subseteq Pointer
    /\ \A p \in DOMAIN bufferMap : bufferMap[p] \in [data : Pointer, shape : Shapes]
    /\ session \in {"open", "releasing", "closed"}
    /\ \A c \in Clients : held[c] \in Pointer \cup {None}
    /\ exhausted \in BOOLEAN

VtcmBuffers == {p \in DOMAIN bufferMap : bufferMap[p].shape.isVtcm
                                            /\ bufferMap[p].data # NullPtr}

BlockOf(p) == [first |-> bufferMap[p].data,
               second |-> alignSize(allocatedBytes(bufferMap[p].shape))]

\* The map and the pool agree: the live blocks of the pool are those of the
\* VTCM buffers in the map, one each.  A block without a buffer would be lost
\* until the session ends, a buffer without a block would be given out twice.
MapMatchesPool ==
    status = "ok" =>
        /\ {BlockOf(p) : p \in VtcmBuffers} = allocations
        /\ \A p, q \in VtcmBuffers : p # q => bufferMap[p].data # bufferMap[q].data

\* The addresses of the bytes of a buffer, row by row, from the start of its
\* block: what the copy operations write.
Extent(b) ==
    UNION {LET row == b.data + i * nbytesAligned(b.shape)
           IN  row .. row + b.shape.nbytes - 1 : i \in Rows(b.shape)}

\* The rows of all VTCM buffers together are disjoint and lie in the pool,
\* after both roundings of their sizes.
ExtentsDisjoint ==
    status = "ok" =>
        /\ \A p \in VtcmBuffers : Extent(bufferMap[p]) \subseteq 0 .. vtcmAllocatedSize - 1
        /\ \A p, q \in VtcmBuffers :
               p # q => Extent(bufferMap[p]) \cap Extent(bufferMap[q]) = {}

\* A client's pointer is in the map and nobody else has it, as long as the
\* scratchpad was never exhausted.
HandlesLive ==
    (session = "open" /\ ~exhausted) =>
        \A c \in Clients : held[c] # None =>
            /\ held[c] \in DOMAIN bufferMap
            /\ \A d \in Clients : d # c => held[d] # held[c]

\* The session gives every block back before its pool goes.
ReleasedEmpty == status = "released" => allocations = {}

\* The invariant of the buffers: the map, the pool and the clients agree on what
\* is allocated and where, to the end of the session.
MapInv ==
    /\ BufferTypeOK
    /\ MapMatchesPool
    /\ ExtentsDisjoint
    /\ HandlesLive
    /\ ReleasedEmpty

\* Clients that free what they were given, once, abort the process only
\* after an allocation failed: no two roundings of a size disagree and no
\* order of calls and session changes confuses the map.
OnlyExhaustionAborts == status \notin {"ok", "released"} => exhausted

=============================================================================
