------------------------------- MODULE UserDMA -------------------------------
(***************************************************************************)
(* The user DMA runtime (bin/runtime/UserDMA): a ring buffer of descriptors *)
(* between the kernel thread, which starts transfers and waits for their     *)
(* tokens, and the DMA engine, which walks the chain of descriptors and sets *)
(* their done bits.  The kernel thread is the code LowerDMAStart and         *)
(* LowerDMAWait generate: it keeps the token in a tag and nothing else.      *)
(*                                                                         *)
(* head and tail are 32-bit counters that wrap; TokenMod stands for 2^32.    *)
(* Each accepted transfer has a serial number (1, 2, ...), a history value   *)
(* that no code reads.                                                      *)
(***************************************************************************)
EXTENDS Integers, Sequences, FiniteSets

CONSTANTS
    Capacity,       \* descriptors in the ring, a power of 2 (128)
    TokenMod,       \* 2^32: the counters and tokens are uint32_t
    MaxLength,      \* DESC_LENGTH_MASK: the longest 1D transfer
    FieldMod,       \* 2^16: the width of the 2D size and stride fields
    Tags,           \* the tag memrefs of the kernel
    Requests,       \* the transfers the kernel may ask for
    MaxTransfers    \* bound on the accepted transfers of a run

\* len is the byte count of a 1D transfer and the largest of width, height
\* and strides of a 2D one; addrOk is FALSE when an address is null, as it is
\* when the VTCM pool had no room for the buffer.
Request == [api : {"copy", "copy2D"}, len : Nat, addrOk : BOOLEAN]

ASSUME DMAAssumption ==
    /\ Capacity \in Nat /\ Capacity > 1
    /\ TokenMod \in Nat /\ TokenMod > Capacity /\ TokenMod % Capacity = 0
    /\ MaxLength \in Nat /\ FieldMod \in Nat \ {0}
    /\ Requests \subseteq Request
    /\ MaxTransfers \in Nat
    /\ Tags # {}

VARIABLES
    head, tail,     \* RingBuffer: next index to free, next to allocate
    desc,           \* the descriptors, by slot
    tailDMADesc,    \* slot of the last descriptor, or NoSlot
    isFirstDMA,
    pc,             \* where the kernel thread is
    cur,            \* tag and request of the call in progress
    numFreed, sampledSize,  \* locals of RingBuffer::alloc
    tags,           \* the token each tag holds
    chain,          \* engine: linked descriptors not yet fetched, in order
    active,         \* engine: descriptors whose transfers are in progress
    issued,         \* history: number of accepted transfers
    completed,      \* history: transfers the engine finished
    returned        \* history: transfers whose wait returned

ring == <<head, tail, desc>>
submit == <<tailDMADesc, isFirstDMA>>
alloc == <<numFreed, sampledSize>>
engine == <<chain, active>>
history == <<issued, completed, returned>>
vars == <<ring, submit, pc, cur, alloc, tags, engine, history>>

Slots == 0 .. Capacity - 1
NoSlot == Capacity
NoTag == [token |-> 0, xfer |-> 0, pending |-> FALSE]
NoRequest == [api |-> "copy", len |-> 0, addrOk |-> FALSE]

(***************************************************************************)
(* RingBuffer.                                                              *)
(***************************************************************************)
size == IF head <= tail THEN tail - head ELSE ((TokenMod - 1) - head) + tail + 1

\* Mutant: off by one.
isFullLate == size > Capacity

isFull == size = Capacity

\* getDataPtr: token & (capacity - 1).
getDataPtr(token) == token % Capacity

inFlight(slot) == ~desc[slot].done

(***************************************************************************)
(* The checks at the top of copy and copy2D, and the descriptor they fill.  *)
(***************************************************************************)
Accepted(req) == req.addrOk /\ (req.api = "copy" => req.len <= MaxLength)

\* dmaDescSetLength, dmaDescSetROIWidth and the other setters mask the value.
FieldOf(req) ==
    IF req.api = "copy" THEN req.len % (MaxLength + 1) ELSE req.len % FieldMod

\* The descriptor of transfer x.  Both functions set DESC_ORDER_NOORDER,
\* whatever the caller asked for.
Descriptor(x, req) ==
    [xfer |-> x, done |-> FALSE, len |-> FieldOf(req), req |-> req]

-----------------------------------------------------------------------------
Init ==
    /\ head = 0 /\ tail = 0
    /\ desc = [s \in Slots |-> Descriptor(0, NoRequest)]
    /\ tailDMADesc = NoSlot /\ isFirstDMA = TRUE
    /\ pc = "run" /\ cur = [tag |-> CHOOSE t \in Tags : TRUE, req |-> NoRequest]
    /\ numFreed = 0 /\ sampledSize = 0
    /\ tags = [t \in Tags |-> NoTag]
    /\ chain = <<>> /\ active = {}
    /\ issued = 0 /\ completed = {} /\ returned = {}

\* hexagon_runtime_dma_start with arguments that copy or copy2D rejects: it
\* returns 0.  The generated code passes the tag as the status address and
\* then stores the result over it, so the failure is not seen.
StartRejected(t, req) ==
    /\ pc = "run" /\ ~tags[t].pending
    /\ ~Accepted(req)
    /\ tags' = [tags EXCEPT ![t] = [token |-> 0, xfer |-> 0, pending |-> TRUE]]
    /\ UNCHANGED <<ring, submit, pc, cur, alloc, engine, history>>

\* The same with good arguments: on to RingBuffer::alloc.
StartAccepted(t, req) ==
    /\ pc = "run" /\ ~tags[t].pending
    /\ Accepted(req)
    /\ issued < MaxTransfers
    /\ pc' = "alloc"
    /\ cur' = [tag |-> t, req |-> req]
    /\ UNCHANGED <<ring, submit, alloc, tags, engine, history>>

\* alloc, the queue is full: sample its size and scan from head.
BeginScan ==
    /\ pc = "alloc" /\ isFull
    /\ numFreed' = 0 /\ sampledSize' = size
    /\ pc' = "scan"
    /\ UNCHANGED <<ring, submit, cur, tags, engine, history>>

\* One turn of the inner loop: the entry at head is done, free it.
FreeHead ==
    /\ pc = "scan"
    /\ ~inFlight(getDataPtr(head)) /\ numFreed < sampledSize
    /\ head' = (head + 1) % TokenMod
    /\ numFreed' = numFreed + 1
    /\ UNCHANGED <<tail, desc, submit, pc, cur, sampledSize, tags, engine, history>>

\* The inner loop ends; the outer one tests isFull again.
EndScan ==
    /\ pc = "scan"
    /\ inFlight(getDataPtr(head)) \/ numFreed >= sampledSize
    /\ pc' = "alloc"
    /\ UNCHANGED <<ring, submit, cur, alloc, tags, engine, history>>

\* dmstart begins a chain; dmlink appends to the chain that ends at prev.
dmstart(slot) == chain' = <<slot>>
dmlink(prev, slot) == chain' = IF prev \in Slots THEN Append(chain, slot) ELSE chain

\* The token and the descriptor of the new transfer, common to what follows.
TakeEntry ==
    LET slot == getDataPtr(tail)
    IN  /\ pc = "alloc" /\ ~isFull
        /\ issued' = issued + 1
        /\ desc' = [desc EXCEPT ![slot] = Descriptor(issued + 1, cur.req)]
        /\ tailDMADesc' = slot
        /\ tags' = [tags EXCEPT ![cur.tag] = [token |-> tail, xfer |-> issued + 1,
                                              pending |-> TRUE]]
        /\ pc' = "run"
        /\ UNCHANGED <<head, cur, alloc, active, completed, returned>>

\* Hand the descriptor to the engine.
Launch(slot) == IF isFirstDMA THEN dmstart(slot) ELSE dmlink(tailDMADesc, slot)

\* Mutant: every transfer starts a new chain.
SubmitRestarts ==
    /\ TakeEntry
    /\ tail' = (tail + 1) % TokenMod
    /\ dmstart(getDataPtr(tail))
    /\ isFirstDMA' = TRUE

\* The rest of copy and copy2D: take the entry at tail, fill its descriptor,
\* hand it to the engine, and the generated store of the token to the tag.
Submit ==
    /\ TakeEntry
    /\ tail' = (tail + 1) % TokenMod
    /\ Launch(getDataPtr(tail))
    /\ isFirstDMA' = FALSE

\* hexagon_runtime_dma_wait: spin on the done bit of the token's slot.
Wait(t) ==
    /\ pc = "run" /\ tags[t].pending
    /\ pc' = "wait"
    /\ cur' = [cur EXCEPT !.tag = t]
    /\ UNCHANGED <<ring, submit, alloc, tags, engine, history>>

\* Mutant: the done bit is not looked at.
WaitReturnsAtOnce ==
    /\ pc = "wait"
    /\ returned' = returned \cup {tags[cur.tag].xfer}
    /\ tags' = [tags EXCEPT ![cur.tag].pending = FALSE]
    /\ pc' = "run"
    /\ UNCHANGED <<ring, submit, cur, alloc, engine, issued, completed>>

WaitReturns ==
    /\ pc = "wait"
    /\ ~inFlight(getDataPtr(tags[cur.tag].token))
    /\ returned' = returned \cup {tags[cur.tag].xfer}
    /\ tags' = [tags EXCEPT ![cur.tag].pending = FALSE]
    /\ pc' = "run"
    /\ UNCHANGED <<ring, submit, cur, alloc, engine, issued, completed>>

\* ~UserDMA at exit: the engine is paused and the ring is freed.
Shutdown ==
    /\ pc = "run"
    /\ pc' = "stopped"
    /\ UNCHANGED <<ring, submit, cur, alloc, tags, engine, history>>

\* The engine fetches descriptors in chain order.
EngineFetch ==
    /\ pc # "stopped" /\ chain # <<>>
    /\ active' = active \cup {Head(chain)}
    /\ chain' = Tail(chain)
    /\ UNCHANGED <<ring, submit, pc, cur, alloc, tags, history>>

\* Without the order bit transfers complete in any order.
EngineComplete(slot) ==
    /\ pc # "stopped" /\ slot \in active
    /\ desc' = [desc EXCEPT ![slot].done = TRUE]
    /\ active' = active \ {slot}
    /\ completed' = completed \cup {desc[slot].xfer}
    /\ UNCHANGED <<head, tail, submit, pc, cur, alloc, tags, chain, issued, returned>>

Kernel ==
    \/ \E t \in Tags, req \in Requests : StartRejected(t, req) \/ StartAccepted(t, req)
    \/ BeginScan \/ FreeHead \/ EndScan \/ Submit
    \/ \E t \in Tags : Wait(t)
    \/ WaitReturns
    \/ Shutdown

Next == Kernel \/ EngineFetch \/ \E slot \in Slots : EngineComplete(slot)

Spec == Init /\ [][Next]_vars

\* The thread keeps running inside a call, and the engine finishes what it
\* was given; nothing obliges the kernel to make another call.
Fairness ==
    /\ WF_vars(BeginScan) /\ WF_vars(FreeHead) /\ WF_vars(EndScan)
    /\ WF_vars(Submit) /\ WF_vars(WaitReturns)
    /\ WF_vars(EngineFetch)
    /\ \A slot \in Slots : WF_vars(EngineComplete(slot))

FairSpec == Spec /\ Fairness

-----------------------------------------------------------------------------
Xfers == 1 .. issued

SlotOf(x) == getDataPtr((x - 1) % TokenMod)

\* Counters, tokens, slots and serial numbers stay in range.
TypeOK ==
    /\ head \in 0 .. TokenMod - 1 /\ tail \in 0 .. TokenMod - 1
    /\ desc \in [Slots -> [xfer : Nat, done : BOOLEAN, len : Nat, req : Request]]
    /\ tailDMADesc \in Slots \cup {NoSlot} /\ isFirstDMA \in BOOLEAN
    /\ pc \in {"run", "alloc", "scan", "wait", "stopped"}
    /\ cur \in [tag : Tags, req : Request]
    /\ numFreed \in Nat /\ sampledSize \in Nat
    /\ tags \in [Tags -> [token : 0 .. TokenMod - 1, xfer : Nat, pending : BOOLEAN]]
    /\ chain \in Seq(Slots) /\ active \in SUBSET Slots
    /\ issued \in Nat /\ completed \in SUBSET Nat /\ returned \in SUBSET Nat

\* A descriptor is never reused while the engine still has to transfer it:
\* every unfinished transfer still owns its slot, its done bit clear.
UnfinishedOwnSlot ==
    \A x \in Xfers \ completed :
        desc[SlotOf(x)].xfer = x /\ ~desc[SlotOf(x)].done

\* dma_wait on the token of a transfer returns only once that transfer is
\* done, even when its slot was given to a later transfer in between.
WaitMeansTransferred == returned \ {0} \subseteq completed

\* alloc's assertion: freeing every sampled entry empties the ring.
AllocAssertion == (pc = "scan" /\ numFreed = sampledSize) => head = tail

\* The ring never holds more than its capacity, across wrap-around of the
\* counters, and everything outside the ring is finished.
RingBounded ==
    /\ size <= Capacity
    /\ \A x \in Xfers \ completed : x > issued - size

\* The engine knows of every unfinished transfer: none was linked behind a
\* descriptor that is not the end of the chain.
UnfinishedAreLinked ==
    \A x \in Xfers \ completed :
        SlotOf(x) \in active \/ \E i \in DOMAIN chain : chain[i] = SlotOf(x)

\* The invariant of the ring: no descriptor is taken from a transfer that is
\* under way, whatever order transfers finish in and however the counters wrap,
\* and the engine knows of every transfer.
RingInv ==
    /\ TypeOK
    /\ UnfinishedOwnSlot
    /\ AllocAssertion
    /\ RingBounded
    /\ UnfinishedAreLinked

\* A dma_start blocked by a full ring returns, and so does a dma_wait on the
\* token of an accepted transfer.
CallsReturn ==
    \/ pc \in {"alloc", "scan"}
    \/ pc = "wait" /\ tags[cur.tag].xfer # 0
    ~> pc = "run"

=============================================================================
