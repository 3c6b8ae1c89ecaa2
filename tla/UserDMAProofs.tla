---------------------------- MODULE UserDMAProofs ----------------------------
(***************************************************************************)
(* Proofs about the DMA runtime, for every capacity of the ring, every      *)
(* width of the counters and every set of tags and requests.                *)
(***************************************************************************)
EXTENDS UserDMA, VectorLemmas

(***************************************************************************)
(* The inductive invariant.                                                 *)
(***************************************************************************)
\* How many transfers have left the ring.  The ring holds the others.
freed == issued - size

\* head and tail are the counts of freed and accepted transfers, wrapped.
CountersMatch ==
    /\ size <= Capacity /\ size <= issued
    /\ tail = issued % TokenMod
    /\ head = freed % TokenMod

\* Everything before the ring is finished.
FreedAreDone ==
    /\ completed \subseteq Xfers
    /\ \A x \in Xfers : x <= freed => x \in completed

\* Every transfer of the ring owns its slot, and the done bit there is its own.
RingOwnsSlots ==
    \A x \in Xfers : x > freed =>
        /\ desc[SlotOf(x)].xfer = x
        /\ desc[SlotOf(x)].done <=> x \in completed

Unfinished(s) == \E x \in Xfers \ completed : SlotOf(x) = s

\* The engine knows each unfinished transfer once, and nothing else.
EngineKnows ==
    /\ UnfinishedAreLinked
    /\ \A s \in active : Unfinished(s)
    /\ \A i \in 1 .. Len(chain) : Unfinished(chain[i]) /\ chain[i] \notin active
    /\ \A i, j \in 1 .. Len(chain) : chain[i] = chain[j] => i = j

\* The next transfer is linked behind the last one, if there was one.
LinksBehindLast ==
    IF isFirstDMA THEN issued = 0 ELSE tailDMADesc \in Slots

\* A token in a tag is the one of the tag's transfer.
TokensMatch ==
    \A t \in Tags : tags[t].xfer # 0 =>
        tags[t].xfer \in Xfers /\ tags[t].token = (tags[t].xfer - 1) % TokenMod

\* The scan has freed what left the ring since it sampled the size.
ScanCounts == pc = "scan" => sampledSize = numFreed + size

RingIInv ==
    /\ TypeOK
    /\ CountersMatch
    /\ FreedAreDone
    /\ RingOwnsSlots
    /\ EngineKnows
    /\ LinksBehindLast
    /\ TokensMatch
    /\ ScanCounts
    /\ WaitMeansTransferred

-----------------------------------------------------------------------------
\* What the code's constants are.
LEMMA Widths ==
    /\ Capacity \in Nat \ {0} /\ Capacity > 1
    /\ TokenMod \in Nat \ {0} /\ TokenMod > Capacity
    /\ TokenMod % Capacity = 0
  BY DMAAssumption

\* A token names the slot its transfer has: both are remainders of one count.
LEMMA SlotOfCount ==
    ASSUME NEW x \in Nat \ {0}
    PROVE  SlotOf(x) = (x - 1) % Capacity /\ SlotOf(x) \in Slots
<1> PICK y \in Nat : y = x - 1
  OBVIOUS
<1>1. (y % TokenMod) % Capacity = y % Capacity
  BY Widths, ModOfMod
<1>2. y % Capacity \in 0 .. Capacity - 1
  BY Widths, DivMod
<1> QED BY <1>1, <1>2 DEF SlotOf, getDataPtr, Slots

\* Transfers less than a capacity apart have slots of their own.
LEMMA SlotsApart ==
    ASSUME NEW x \in Nat \ {0}, NEW y \in Nat \ {0}, x < y, y < x + Capacity
    PROVE  SlotOf(x) # SlotOf(y)
<1> PICK u \in Nat : u = x - 1
  OBVIOUS
<1> PICK v \in Nat : v = y - 1
  OBVIOUS
<1>1. u < v /\ v < u + Capacity
  BY Widths
<1>2. u % Capacity # v % Capacity
  BY <1>1, Widths, ModApart
<1> QED BY <1>2, SlotOfCount

\* The size is a number, and the only empty ring is the one whose counters
\* meet.
LEMMA SizeOfRing ==
    ASSUME TypeOK
    PROVE  size \in Nat /\ (size = 0 => head = tail)
  BY Widths DEF TypeOK, size

\* Two transfers of the ring have different slots, and so does the next one
\* while the ring is not full.
LEMMA RingSlotsApart ==
    ASSUME TypeOK, CountersMatch
    PROVE  /\ \A x, y \in Xfers : x > freed /\ y > freed /\ x # y => SlotOf(x) # SlotOf(y)
           /\ ~isFull => \A x \in Xfers : x > freed => SlotOf(x) # SlotOf(issued + 1)
<1>0. issued \in Nat /\ size \in Nat /\ size <= Capacity /\ freed = issued - size
      /\ Capacity \in Nat
  BY SizeOfRing, Widths DEF TypeOK, CountersMatch, freed
<1>1. ASSUME NEW x \in Xfers, NEW y \in Xfers, x > freed, y > freed, x < y
      PROVE  SlotOf(x) # SlotOf(y)
  <2>1. x \in Nat \ {0} /\ y \in Nat \ {0} /\ y < x + Capacity
    BY <1>0, <1>1 DEF Xfers
  <2> QED BY <1>1, <2>1, SlotsApart
<1>2. ASSUME NEW x \in Xfers, NEW y \in Xfers, x > freed, y > freed, x # y
      PROVE  SlotOf(x) # SlotOf(y)
  <2>1. x < y \/ y < x
    BY <1>0, <1>2 DEF Xfers
  <2> QED BY <1>1, <1>2, <2>1
<1>3. ASSUME ~isFull, NEW x \in Xfers, x > freed
      PROVE  SlotOf(x) # SlotOf(issued + 1)
  <2> PICK y \in Nat \ {0} : y = issued + 1
    BY <1>0
  <2>1. x \in Nat \ {0} /\ x < y /\ y < x + Capacity
    BY <1>0, <1>3 DEF Xfers, isFull
  <2> QED BY <2>1, SlotsApart
<1> QED BY <1>2, <1>3

\* An unfinished transfer is in the ring.
LEMMA UnfinishedInRing ==
    ASSUME TypeOK, CountersMatch, FreedAreDone, NEW x \in Xfers \ completed
    PROVE  x > freed
<1>0. issued \in Nat /\ size \in Nat /\ freed = issued - size
  BY SizeOfRing DEF TypeOK, freed
<1> QED BY <1>0 DEF FreedAreDone, Xfers

\* The size after head moves on, and after tail does.
LEMMA SizeSteps ==
    ASSUME TypeOK
    PROVE  /\ size > 0 /\ head' = (head + 1) % TokenMod /\ UNCHANGED tail
                => size' = size - 1
           /\ size < Capacity /\ tail' = (tail + 1) % TokenMod /\ UNCHANGED head
                => size' = size + 1
<1>1. head \in 0 .. TokenMod - 1 /\ tail \in 0 .. TokenMod - 1
  BY DEF TypeOK
<1>2. (head + 1) % TokenMod = IF head + 1 = TokenMod THEN 0 ELSE head + 1
  BY <1>1, Widths, WrapStep
<1>3. (tail + 1) % TokenMod = IF tail + 1 = TokenMod THEN 0 ELSE tail + 1
  BY <1>1, Widths, WrapStep
<1>4. ASSUME size > 0, head' = (head + 1) % TokenMod, UNCHANGED tail
      PROVE  size' = size - 1
  <2>0. tail' = tail /\ TokenMod \in Nat
    BY <1>4, Widths
  <2>1. CASE head + 1 = TokenMod
    <3>1. head' = 0 /\ head > tail
      BY <1>1, <1>2, <1>4, <2>0, <2>1 DEF size
    <3> QED BY <1>1, <2>0, <2>1, <3>1 DEF size
  <2>2. CASE head + 1 # TokenMod
    <3>1. head' = head + 1
      BY <1>2, <1>4, <2>2
    <3> QED BY <1>1, <1>4, <2>0, <2>2, <3>1 DEF size
  <2> QED BY <2>1, <2>2
<1>5. ASSUME size < Capacity, tail' = (tail + 1) % TokenMod, UNCHANGED head
      PROVE  size' = size + 1
  BY <1>1, <1>3, <1>5, Widths DEF size
<1> QED BY <1>4, <1>5

-----------------------------------------------------------------------------
\* A descriptor has the type of the ring's entries.
LEMMA DescriptorType ==
    ASSUME NEW x \in Nat, NEW req \in Request
    PROVE  Descriptor(x, req) \in [xfer : Nat, done : BOOLEAN, len : Nat, req : Request]
<1>1. req.len \in Nat
  BY DEF Request
<1>2. req.len % (MaxLength + 1) \in Nat
  <2> PICK m \in Nat \ {0} : m = MaxLength + 1
    BY DMAAssumption
  <2>1. req.len % m \in 0 .. m - 1
    BY <1>1, DivMod
  <2> QED BY <2>1
<1>3. req.len % FieldMod \in Nat
  BY <1>1, DivMod, DMAAssumption
<1>4. FieldOf(req) \in Nat
  BY <1>2, <1>3 DEF FieldOf
<1> QED BY <1>4 DEF Descriptor

\* The invariant holds before the first call.
LEMMA InitEstablishesRing == Init => RingIInv
<1> SUFFICES ASSUME Init PROVE RingIInv
  OBVIOUS
<1>0. /\ head = 0 /\ tail = 0 /\ issued = 0 /\ completed = {} /\ returned = {}
      /\ chain = <<>> /\ active = {} /\ isFirstDMA = TRUE /\ pc = "run"
  BY DEF Init
<1>1. size = 0 /\ freed = 0
  BY <1>0 DEF size, freed
<1>2. TypeOK
  <2>1. NoRequest \in Request
    BY DEF NoRequest, Request
  <2>2. Descriptor(0, NoRequest) \in [xfer : Nat, done : BOOLEAN, len : Nat, req : Request]
    BY <2>1, DescriptorType
  <2>3. (CHOOSE t \in Tags : TRUE) \in Tags
    BY DMAAssumption
  <2> QED BY <2>1, <2>2, <2>3, Widths DEF Init, TypeOK, NoTag
<1>3. 0 % TokenMod = 0
  BY Widths, ModSmall
<1>4. Xfers = {}
  BY <1>0 DEF Xfers
<1>5. CountersMatch /\ FreedAreDone /\ RingOwnsSlots
  BY <1>0, <1>1, <1>3, <1>4, Widths DEF CountersMatch, FreedAreDone, RingOwnsSlots
<1>6. EngineKnows /\ LinksBehindLast
  BY <1>0, <1>4 DEF EngineKnows, UnfinishedAreLinked, LinksBehindLast
<1>7. TokensMatch /\ ScanCounts /\ WaitMeansTransferred
  BY <1>0 DEF Init, TokensMatch, NoTag, ScanCounts, WaitMeansTransferred
<1> QED BY <1>2, <1>5, <1>6, <1>7 DEF RingIInv

\* Types are kept.
LEMMA NextKeepsTypes == TypeOK /\ Next => TypeOK'
<1> SUFFICES ASSUME TypeOK, Next PROVE TypeOK'
  OBVIOUS
<1> USE DEF TypeOK
<1>1. ASSUME NEW t \in Tags, NEW req \in Requests, StartRejected(t, req) PROVE TypeOK'
  BY <1>1, Widths DEF StartRejected, ring, submit, alloc, engine, history
<1>2. ASSUME NEW t \in Tags, NEW req \in Requests, StartAccepted(t, req) PROVE TypeOK'
  BY <1>2, DMAAssumption DEF StartAccepted, ring, submit, alloc, engine, history
<1>3. CASE BeginScan
  BY <1>3, SizeOfRing DEF BeginScan, ring, submit, engine, history
<1>4. CASE FreeHead
  <2>0. head + 1 \in Nat
    OBVIOUS
  <2>1. (head + 1) % TokenMod \in 0 .. TokenMod - 1
    BY <2>0, Widths, DivMod
  <2> QED BY <1>4, <2>1 DEF FreeHead, submit, engine, history
<1>5. CASE EndScan
  BY <1>5 DEF EndScan, ring, submit, alloc, engine, history
<1>6. CASE Submit
  <2>0. tail + 1 \in Nat /\ tail \in Nat
    OBVIOUS
  <2>1. (tail + 1) % TokenMod \in 0 .. TokenMod - 1
    BY <2>0, Widths, DivMod
  <2>2. getDataPtr(tail) \in Slots
    BY <2>0, Widths, DivMod DEF getDataPtr, Slots
  <2>3. Descriptor(issued + 1, cur.req)
          \in [xfer : Nat, done : BOOLEAN, len : Nat, req : Request]
    BY DescriptorType
  <2>4. chain' \in Seq(Slots)
    <3> PICK s \in Slots : s = getDataPtr(tail)
      BY <2>2
    <3>1. \/ chain' = <<s>> \/ chain' = Append(chain, s) \/ chain' = chain
      BY <1>6 DEF Submit, Launch, dmstart, dmlink
    <3>2. chain \in Seq(Slots)
      OBVIOUS
    <3> HIDE DEF TypeOK
    <3>3. <<s>> \in Seq(Slots) /\ Append(chain, s) \in Seq(Slots)
      BY <3>2
    <3> QED BY <3>1, <3>2, <3>3
  <2>5. /\ issued' = issued + 1 /\ tailDMADesc' = getDataPtr(tail)
        /\ desc' = [desc EXCEPT ![getDataPtr(tail)] = Descriptor(issued + 1, cur.req)]
        /\ tail' = (tail + 1) % TokenMod /\ isFirstDMA' = FALSE /\ pc' = "run"
        /\ UNCHANGED <<head, cur, alloc, active, completed, returned>>
    BY <1>6 DEF Submit, TakeEntry
  <2>6. tags' = [tags EXCEPT ![cur.tag] = [token |-> tail, xfer |-> issued + 1,
                                           pending |-> TRUE]]
    BY <1>6 DEF Submit, TakeEntry
  <2>7. desc' \in [Slots -> [xfer : Nat, done : BOOLEAN, len : Nat, req : Request]]
    BY <2>2, <2>3, <2>5
  <2>8. tags' \in [Tags -> [token : 0 .. TokenMod - 1, xfer : Nat, pending : BOOLEAN]]
    BY <2>6
  <2>9. /\ head' \in 0 .. TokenMod - 1 /\ tail' \in 0 .. TokenMod - 1
        /\ tailDMADesc' \in Slots \cup {NoSlot} /\ isFirstDMA' \in BOOLEAN
        /\ issued' \in Nat /\ pc' = "run"
    <3>1. isFirstDMA' \in BOOLEAN
      BY <2>5
    <3>2. issued' \in Nat /\ head' = head /\ tail' = (tail + 1) % TokenMod
      BY <2>5
    <3>3. tailDMADesc' \in Slots /\ pc' = "run"
      BY <2>2, <2>5
    <3> QED BY <2>1, <3>1, <3>2, <3>3
  <2>10. /\ cur' \in [tag : Tags, req : Request] /\ active' \in SUBSET Slots
         /\ numFreed' \in Nat /\ sampledSize' \in Nat
         /\ completed' \in SUBSET Nat /\ returned' \in SUBSET Nat
    BY <2>5 DEF alloc
  <2> QED BY <2>4, <2>7, <2>8, <2>9, <2>10
<1>7. ASSUME NEW t \in Tags, Wait(t) PROVE TypeOK'
  BY <1>7 DEF Wait, ring, submit, alloc, engine, history
<1>8. CASE WaitReturns
  BY <1>8 DEF WaitReturns, ring, submit, alloc, engine
<1>9. CASE Shutdown
  BY <1>9 DEF Shutdown, ring, submit, alloc, engine, history
<1>10. CASE EngineFetch
  BY <1>10 DEF EngineFetch, ring, submit, alloc, history
<1>11. ASSUME NEW slot \in Slots, EngineComplete(slot) PROVE TypeOK'
  BY <1>11 DEF EngineComplete, submit, alloc
<1> QED BY <1>1, <1>2, <1>3, <1>4, <1>5, <1>6, <1>7, <1>8, <1>9, <1>10, <1>11
        DEF Next, Kernel

\* What the invariant says of the ring does not change with the call.
LEMMA RingStays ==
    ASSUME RingIInv, UNCHANGED <<head, tail, desc, tailDMADesc, isFirstDMA, chain, active,
                                 issued, completed>>
    PROVE  /\ UNCHANGED <<size, freed>>
           /\ CountersMatch' /\ FreedAreDone' /\ RingOwnsSlots' /\ EngineKnows'
           /\ LinksBehindLast'
<1>1. UNCHANGED <<size, freed, Xfers>>
  BY DEF size, freed, Xfers
<1>2. CountersMatch' /\ FreedAreDone' /\ RingOwnsSlots' /\ LinksBehindLast'
  BY <1>1 DEF RingIInv, CountersMatch, FreedAreDone, RingOwnsSlots, LinksBehindLast
<1>3. EngineKnows'
  BY <1>1 DEF RingIInv, EngineKnows, UnfinishedAreLinked, Unfinished
<1> QED BY <1>1, <1>2, <1>3

\* alloc frees a head whose descriptor is done: a finished transfer leaves.
LEMMA FreeHeadKeepsRing ==
    ASSUME RingIInv, FreeHead
    PROVE  /\ CountersMatch' /\ FreedAreDone' /\ RingOwnsSlots' /\ EngineKnows'
           /\ LinksBehindLast' /\ TokensMatch' /\ ScanCounts' /\ WaitMeansTransferred'
<1> USE DEF RingIInv
<1>1. /\ pc = "scan" /\ ~inFlight(getDataPtr(head)) /\ numFreed < sampledSize
      /\ head' = (head + 1) % TokenMod /\ numFreed' = numFreed + 1
      /\ UNCHANGED <<tail, desc, tailDMADesc, isFirstDMA, pc, sampledSize, tags, chain,
                     active, issued, completed, returned>>
  BY DEF FreeHead, submit, engine, history
<1>2. /\ size \in Nat /\ issued \in Nat /\ numFreed \in Nat /\ sampledSize \in Nat
      /\ freed = issued - size
      /\ size <= issued /\ size <= Capacity /\ Capacity \in Nat
  BY SizeOfRing, Widths DEF TypeOK, CountersMatch, freed
<1>3. size > 0
  BY <1>1, <1>2 DEF ScanCounts
<1>4. size' = size - 1 /\ freed' = freed + 1 /\ Xfers' = Xfers
  BY <1>1, <1>2, <1>3, SizeSteps DEF freed, Xfers
<1> PICK f \in Nat : f = freed
  BY <1>2
<1>5. f + 1 \in Xfers /\ f + 1 \in Nat
  BY <1>2, <1>3 DEF Xfers
<1>6. getDataPtr(head) = SlotOf(f + 1)
  BY <1>5 DEF SlotOf, CountersMatch
<1>7. f + 1 \in completed
  BY <1>1, <1>5, <1>6 DEF RingOwnsSlots, inFlight
<1>8. CountersMatch'
  <2>1. ((freed % TokenMod) + 1) % TokenMod = (f + 1) % TokenMod
    BY Widths, ModNext
  <2> QED BY <1>1, <1>2, <1>3, <1>4, <2>1 DEF CountersMatch
<1>9. FreedAreDone'
  <2>1. ASSUME NEW x \in Xfers, x <= f + 1 PROVE x \in completed
    <3>1. x <= f \/ x = f + 1
      BY <2>1 DEF Xfers
    <3> QED BY <1>7, <3>1 DEF FreedAreDone
  <2> QED BY <1>1, <1>4, <2>1 DEF FreedAreDone
<1>10. RingOwnsSlots'
  <2>1. ASSUME NEW x \in Xfers, x > f + 1 PROVE x > f
    BY <2>1 DEF Xfers
  <2> QED BY <1>1, <1>4, <2>1 DEF RingOwnsSlots
<1>11. EngineKnows' /\ LinksBehindLast' /\ TokensMatch' /\ WaitMeansTransferred'
  BY <1>1, <1>4
  DEF EngineKnows, UnfinishedAreLinked, Unfinished, LinksBehindLast, TokensMatch,
      WaitMeansTransferred
<1>12. ScanCounts'
  BY <1>1, <1>2, <1>4 DEF ScanCounts
<1> QED BY <1>8, <1>9, <1>10, <1>11, <1>12

\* A transfer takes the slot behind the ring, which the engine is done with.
LEMMA SubmitKeepsRing ==
    ASSUME RingIInv, Submit
    PROVE  /\ CountersMatch' /\ FreedAreDone' /\ RingOwnsSlots' /\ EngineKnows'
           /\ LinksBehindLast' /\ TokensMatch' /\ ScanCounts' /\ WaitMeansTransferred'
<1> USE DEF RingIInv
<1>0. issued \in Nat /\ (issued + 1) - 1 = issued
  BY DEF TypeOK
<1> PICK n \in Nat \ {0} : n = issued + 1 /\ n - 1 = issued
  BY <1>0
<1>6. getDataPtr(tail) = SlotOf(n) /\ SlotOf(n) \in Slots
  BY SlotOfCount DEF SlotOf, CountersMatch
<1> PICK s \in Slots : s = getDataPtr(tail) /\ s = SlotOf(n)
  BY <1>6
<1>1. /\ ~isFull /\ issued' = n /\ tailDMADesc' = s /\ isFirstDMA' = FALSE /\ pc' = "run"
      /\ tail' = (tail + 1) % TokenMod
      /\ desc' = [desc EXCEPT ![s] = Descriptor(n, cur.req)]
      /\ Launch(s)
      /\ UNCHANGED <<head, cur, active, completed, returned>>
  BY DEF Submit, TakeEntry
<1>2. tags' = [tags EXCEPT ![cur.tag] = [token |-> tail, xfer |-> n, pending |-> TRUE]]
  BY DEF Submit, TakeEntry
<1>3. /\ size \in Nat /\ issued \in Nat /\ freed = issued - size
      /\ size <= issued /\ size < Capacity /\ Capacity \in Nat
  <2>1. TypeOK /\ CountersMatch
    OBVIOUS
  <2>2. size \in Nat
    BY <2>1, SizeOfRing
  <2>3. issued \in Nat /\ Capacity \in Nat
    BY <2>1, Widths DEF TypeOK
  <2>4. size <= issued /\ size <= Capacity
    BY <2>1 DEF CountersMatch
  <2>5. size # Capacity
    BY <1>1 DEF isFull
  <2> HIDE DEF RingIInv, TypeOK, CountersMatch
  <2>6. size < Capacity
    BY <2>2, <2>3, <2>4, <2>5
  <2> QED BY <2>2, <2>3, <2>4, <2>6 DEF freed
<1>4. size' = size + 1 /\ freed' = freed
  BY <1>1, <1>3, SizeSteps DEF freed
<1>5. Xfers' = Xfers \cup {n} /\ n \notin Xfers /\ n \notin completed /\ n \in Nat \ {0}
      /\ n > freed
  BY <1>1, <1>3 DEF Xfers, FreedAreDone
<1>7. \A x \in Xfers : x > freed => SlotOf(x) # s
  BY <1>1, <1>6, RingSlotsApart
<1>8. \A a : Unfinished(a) => a # s
  BY <1>7, UnfinishedInRing DEF Unfinished
<1>9. CountersMatch'
  <2>1. ((issued % TokenMod) + 1) % TokenMod = n % TokenMod
    BY <1>3, Widths, ModNext
  <2> QED BY <1>1, <1>3, <1>4, <2>1 DEF CountersMatch
<1>10. FreedAreDone'
  BY <1>1, <1>4, <1>5, <1>3 DEF FreedAreDone
<1>11. RingOwnsSlots'
  <2>1. ASSUME NEW x \in Xfers, x > freed
        PROVE  desc'[SlotOf(x)] = desc[SlotOf(x)]
    BY <1>1, <1>7, <2>1 DEF TypeOK
  <2>2. desc'[s].xfer = n /\ desc'[s].done = FALSE
    BY <1>1, <1>6 DEF TypeOK, Descriptor
  <2> QED BY <1>1, <1>4, <1>5, <1>6, <2>1, <2>2 DEF RingOwnsSlots
<1>12. chain \in Seq(Slots) /\ Len(chain) \in Nat
  BY DEF TypeOK
<1>13. chain' = Append(chain, s)
  <2>1. CASE isFirstDMA
    <3>1. Xfers = {}
      BY <1>3, <2>1 DEF LinksBehindLast, Xfers
    <3>2. \A i \in 1 .. Len(chain) : FALSE
      BY <3>1 DEF EngineKnows, Unfinished
    <3>3. chain = <<>>
      <4>1. Len(chain) = 0
        BY <1>12, <3>2
      <4> QED BY <1>12, <4>1
    <3>4. chain' = <<s>>
      BY <1>1, <2>1 DEF Launch, dmstart
    <3> QED BY <3>3, <3>4
  <2>2. CASE ~isFirstDMA
    BY <1>1, <2>2 DEF LinksBehindLast, Launch, dmlink
  <2> QED BY <2>1, <2>2
<1>14. /\ Len(chain') = Len(chain) + 1 /\ chain'[Len(chain) + 1] = s
       /\ \A i \in 1 .. Len(chain) : chain'[i] = chain[i]
  BY <1>6, <1>12, <1>13
<1>15. EngineKnows'
  <2>1. ASSUME NEW a, Unfinished(a) PROVE Unfinished(a)'
    BY <1>1, <1>5, <2>1 DEF Unfinished
  <2>2. Unfinished(s)'
    BY <1>1, <1>5 DEF Unfinished
  <2>3. \A i \in 1 .. Len(chain) : chain[i] # s /\ Unfinished(chain[i]) /\ chain[i] \notin active
    BY <1>8 DEF EngineKnows
  <2>4. s \notin active
    BY <1>8 DEF EngineKnows
  <2>5. ASSUME NEW i \in 1 .. Len(chain')
        PROVE  (Unfinished(chain[i]) /\ chain[i] \notin active)'
    <3>1. CASE i = Len(chain) + 1
      <4>1. chain'[i] = s
        BY <1>14, <3>1
      <4> QED BY <1>1, <2>2, <2>4, <4>1 DEF Unfinished
    <3>2. CASE i # Len(chain) + 1
      <4>1. i \in 1 .. Len(chain) /\ chain'[i] = chain[i]
        BY <1>12, <1>14, <3>2
      <4> PICK a : a = chain[i]
        OBVIOUS
      <4>2. Unfinished(a)' /\ a \notin active'
        BY <1>1, <2>1, <2>3, <4>1
      <4> QED BY <4>1, <4>2 DEF Unfinished
    <3> QED BY <3>1, <3>2
  <2>6. \A i, j \in 1 .. Len(chain') : chain'[i] = chain'[j] => i = j
    <3> SUFFICES ASSUME NEW i \in 1 .. Len(chain'), NEW j \in 1 .. Len(chain'),
                        chain'[i] = chain'[j]
                 PROVE  i = j
      OBVIOUS
    <3>1. \/ i \in 1 .. Len(chain) /\ chain'[i] = chain[i]
          \/ i = Len(chain) + 1 /\ chain'[i] = s
      BY <1>12, <1>14
    <3>2. \/ j \in 1 .. Len(chain) /\ chain'[j] = chain[j]
          \/ j = Len(chain) + 1 /\ chain'[j] = s
      BY <1>12, <1>14
    <3> QED BY <2>3, <3>1, <3>2 DEF EngineKnows
  <2>7. \A a \in active' : Unfinished(a)'
    BY <1>1, <2>1 DEF EngineKnows
  <2>8. UnfinishedAreLinked'
    <3> SUFFICES ASSUME NEW x \in Xfers' \ completed'
                 PROVE  SlotOf(x) \in active' \/ \E i \in 1 .. Len(chain') : chain'[i] = SlotOf(x)
      <4>1. DOMAIN chain' = 1 .. Len(chain')
        BY <1>12, <1>13
      <4> QED BY <4>1 DEF UnfinishedAreLinked, SlotOf, getDataPtr
    <3>1. CASE x = n
      <4>1. Len(chain) + 1 \in 1 .. Len(chain')
        BY <1>12, <1>14
      <4> QED BY <1>14, <3>1, <4>1
    <3>2. CASE x # n
      <4>1. x \in Xfers \ completed
        BY <1>1, <1>5, <3>2
      <4>2. SlotOf(x) \in active \/ \E i \in 1 .. Len(chain) : chain[i] = SlotOf(x)
        BY <1>12, <4>1 DEF EngineKnows, UnfinishedAreLinked
      <4>3. \A i \in 1 .. Len(chain) : i \in 1 .. Len(chain')
        BY <1>12, <1>14
      <4> QED BY <1>1, <1>14, <4>2, <4>3
    <3> QED BY <3>1, <3>2
  <2> QED BY <2>5, <2>6, <2>7, <2>8 DEF EngineKnows
<1>16. LinksBehindLast' /\ ScanCounts' /\ WaitMeansTransferred'
  BY <1>1 DEF LinksBehindLast, ScanCounts, WaitMeansTransferred
<1>17. TokensMatch'
  <2> SUFFICES ASSUME NEW t \in Tags, tags'[t].xfer # 0
               PROVE  tags'[t].xfer \in Xfers' /\ tags'[t].token = (tags'[t].xfer - 1) % TokenMod
    BY DEF TokensMatch
  <2>1. CASE t = cur.tag
    <3>1. tags'[t].xfer = n /\ tags'[t].token = tail
      BY <1>2, <2>1 DEF TypeOK
    <3> QED BY <1>5, <3>1 DEF CountersMatch
  <2>2. CASE t # cur.tag
    <3>1. tags'[t] = tags[t]
      BY <1>2, <2>2 DEF TypeOK
    <3> QED BY <1>5, <3>1 DEF TokensMatch
  <2> QED BY <2>1, <2>2
<1> QED BY <1>9, <1>10, <1>11, <1>15, <1>16, <1>17

\* A wait returns on a done bit: the transfer of the token is finished, be
\* it the one in the slot or one that left the ring before.
LEMMA WaitKeepsRing ==
    ASSUME RingIInv, WaitReturns
    PROVE  TokensMatch' /\ ScanCounts' /\ WaitMeansTransferred'
<1> USE DEF RingIInv
<1>1. /\ pc' = "run" /\ ~inFlight(getDataPtr(tags[cur.tag].token))
      /\ returned' = returned \cup {tags[cur.tag].xfer}
      /\ tags' = [tags EXCEPT ![cur.tag].pending = FALSE]
      /\ UNCHANGED <<completed, issued>>
  BY DEF WaitReturns
<1> PICK t \in Tags : t = cur.tag
  BY DEF TypeOK
<1>2. ASSUME tags[t].xfer # 0 PROVE tags[t].xfer \in completed
  <2> PICK x \in Xfers : x = tags[t].xfer /\ tags[t].token = (x - 1) % TokenMod
    BY <1>2 DEF TokensMatch
  <2>1. getDataPtr(tags[t].token) = SlotOf(x)
    BY DEF SlotOf
  <2>2. desc[SlotOf(x)].done
    BY <1>1, <2>1 DEF inFlight
  <2>3. x <= freed \/ x > freed
    <3>1. issued \in Nat /\ size \in Nat /\ freed = issued - size
      BY SizeOfRing DEF TypeOK, freed
    <3> QED BY <3>1 DEF Xfers
  <2> QED BY <2>2, <2>3 DEF FreedAreDone, RingOwnsSlots
<1>3. WaitMeansTransferred'
  BY <1>1, <1>2 DEF WaitMeansTransferred
<1>4. \A u \in Tags : tags'[u].xfer = tags[u].xfer /\ tags'[u].token = tags[u].token
  BY <1>1 DEF TypeOK
<1>5. TokensMatch'
  BY <1>1, <1>4 DEF TokensMatch, Xfers
<1> QED BY <1>1, <1>3, <1>5 DEF ScanCounts

\* The engine fetches the first descriptor of the chain.
LEMMA FetchKeepsEngine ==
    ASSUME RingIInv, EngineFetch
    PROVE  EngineKnows'
<1> USE DEF RingIInv
<1>1. /\ chain \in Seq(Slots) /\ chain # <<>>
      /\ active' = active \cup {Head(chain)} /\ chain' = Tail(chain)
      /\ UNCHANGED <<issued, completed>>
  BY DEF EngineFetch, history, TypeOK
<1>2. /\ Len(chain) \in Nat \ {0} /\ Len(chain') = Len(chain) - 1
      /\ Head(chain) = chain[1] /\ chain' \in Seq(Slots)
      /\ \A i \in 1 .. Len(chain) - 1 : chain'[i] = chain[i + 1]
  BY <1>1
<1>3. \A a : Unfinished(a)' <=> Unfinished(a)
  BY <1>1 DEF Unfinished, Xfers
<1>4. \A a \in active' : Unfinished(a)'
  BY <1>1, <1>2, <1>3 DEF EngineKnows
<1>5. ASSUME NEW i \in 1 .. Len(chain')
      PROVE  (Unfinished(chain[i]) /\ chain[i] \notin active)'
  <2>1. i + 1 \in 1 .. Len(chain) /\ chain'[i] = chain[i + 1] /\ 1 \in 1 .. Len(chain)
        /\ i + 1 # 1
    BY <1>2
  <2>2. chain[i + 1] # chain[1] /\ chain[i + 1] \notin active /\ Unfinished(chain[i + 1])
    BY <2>1 DEF EngineKnows
  <2> PICK a : a = chain'[i]
    OBVIOUS
  <2>3. Unfinished(a)' /\ a \notin active'
    BY <1>1, <1>2, <1>3, <2>1, <2>2
  <2> QED BY <2>3 DEF Unfinished
<1>6. ASSUME NEW i \in 1 .. Len(chain'), NEW j \in 1 .. Len(chain'), chain'[i] = chain'[j]
      PROVE  i = j
  <2>1. i + 1 \in 1 .. Len(chain) /\ j + 1 \in 1 .. Len(chain)
        /\ chain[i + 1] = chain[j + 1]
    BY <1>2, <1>6
  <2>2. i + 1 = j + 1
    BY <2>1 DEF EngineKnows
  <2> QED BY <2>2
<1>7. UnfinishedAreLinked'
  <2> SUFFICES ASSUME NEW x \in Xfers \ completed
               PROVE  SlotOf(x) \in active' \/ \E i \in 1 .. Len(chain') : chain'[i] = SlotOf(x)
    <3>1. DOMAIN chain' = 1 .. Len(chain')
      BY <1>2
    <3> QED BY <1>1, <3>1 DEF UnfinishedAreLinked, SlotOf, getDataPtr, Xfers
  <2>1. SlotOf(x) \in active \/ \E i \in 1 .. Len(chain) : chain[i] = SlotOf(x)
    <3>1. DOMAIN chain = 1 .. Len(chain)
      BY <1>1
    <3> QED BY <3>1 DEF EngineKnows, UnfinishedAreLinked
  <2>2. ASSUME NEW i \in 1 .. Len(chain), chain[i] = SlotOf(x)
        PROVE  SlotOf(x) \in active' \/ \E j \in 1 .. Len(chain') : chain'[j] = SlotOf(x)
    <3>1. CASE i = 1
      BY <1>1, <1>2, <2>2, <3>1
    <3>2. CASE i # 1
      <4>1. i - 1 \in 1 .. Len(chain') /\ chain'[i - 1] = chain[i]
        BY <1>2, <3>2
      <4> QED BY <2>2, <4>1
    <3> QED BY <3>1, <3>2
  <2> QED BY <1>1, <2>1, <2>2
<1> QED BY <1>4, <1>5, <1>6, <1>7 DEF EngineKnows

\* The engine finishes a transfer, in whatever order.
LEMMA CompleteKeepsRing ==
    ASSUME RingIInv, NEW slot \in Slots, EngineComplete(slot)
    PROVE  /\ CountersMatch' /\ FreedAreDone' /\ RingOwnsSlots' /\ EngineKnows'
           /\ LinksBehindLast' /\ TokensMatch' /\ ScanCounts' /\ WaitMeansTransferred'
<1> USE DEF RingIInv
<1>1. /\ slot \in active /\ active' = active \ {slot}
      /\ desc' = [desc EXCEPT ![slot].done = TRUE]
      /\ completed' = completed \cup {desc[slot].xfer}
      /\ UNCHANGED <<head, tail, tailDMADesc, isFirstDMA, pc, cur, numFreed, sampledSize,
                     tags, chain, issued, returned>>
  BY DEF EngineComplete, submit, alloc
<1>2. UNCHANGED <<size, freed, Xfers>>
  BY <1>1 DEF size, freed, Xfers
<1> PICK x \in Xfers \ completed : SlotOf(x) = slot
  BY <1>1 DEF EngineKnows, Unfinished
<1>3. x > freed
  BY UnfinishedInRing
<1>4. desc[slot].xfer = x /\ completed' = completed \cup {x}
  BY <1>1, <1>3 DEF RingOwnsSlots
<1>5. \A y \in Xfers : y > freed /\ y # x => SlotOf(y) # slot
  BY <1>3, RingSlotsApart
<1>6. \A y \in Xfers \ completed : y # x => SlotOf(y) # slot
  BY <1>5, UnfinishedInRing
<1>7. FreedAreDone' /\ CountersMatch'
  BY <1>1, <1>2, <1>4 DEF FreedAreDone, CountersMatch
<1>8. RingOwnsSlots'
  <2>1. ASSUME NEW y \in Xfers, y > freed
        PROVE  /\ desc'[SlotOf(y)].xfer = y
               /\ desc'[SlotOf(y)].done <=> y \in completed'
    <3>1. CASE y = x
      BY <1>1, <1>4, <3>1 DEF TypeOK
    <3>2. CASE y # x
      <4>1. desc'[SlotOf(y)] = desc[SlotOf(y)]
        BY <1>1, <1>5, <2>1, <3>2, SlotOfCount DEF TypeOK
      <4> QED BY <1>4, <2>1, <3>2, <4>1 DEF RingOwnsSlots
    <3> QED BY <3>1, <3>2
  <2> QED BY <1>2, <2>1 DEF RingOwnsSlots
<1>9. EngineKnows'
  <2>1. ASSUME NEW a, a # slot, Unfinished(a) PROVE Unfinished(a)'
    BY <1>2, <1>4, <2>1 DEF Unfinished
  <2>2. \A i \in 1 .. Len(chain) : chain[i] # slot
    BY <1>1 DEF EngineKnows
  <2>3. \A a \in active' : Unfinished(a)'
    BY <1>1, <2>1 DEF EngineKnows
  <2>4. ASSUME NEW i \in 1 .. Len(chain')
        PROVE  (Unfinished(chain[i]) /\ chain[i] \notin active)'
    <3> PICK a : a = chain[i]
      OBVIOUS
    <3>1. Unfinished(a)' /\ a \notin active'
      BY <1>1, <2>1, <2>2 DEF EngineKnows
    <3> QED BY <1>1, <3>1 DEF Unfinished
  <2>5. UnfinishedAreLinked'
    BY <1>1, <1>2, <1>4, <1>6 DEF EngineKnows, UnfinishedAreLinked
  <2> QED BY <1>1, <2>3, <2>4, <2>5 DEF EngineKnows
<1>10. LinksBehindLast' /\ TokensMatch' /\ ScanCounts'
  BY <1>1, <1>2 DEF LinksBehindLast, TokensMatch, ScanCounts
<1>11. WaitMeansTransferred'
  BY <1>1, <1>4 DEF WaitMeansTransferred
<1> QED BY <1>7, <1>8, <1>9, <1>10, <1>11

\* Every step of the kernel and of the engine keeps the invariant.
LEMMA NextKeepsRing == RingIInv /\ [Next]_vars => RingIInv'
<1> SUFFICES ASSUME RingIInv, [Next]_vars PROVE RingIInv'
  OBVIOUS
<1>1. CASE UNCHANGED vars
  <2>1. UNCHANGED <<head, tail, desc, tailDMADesc, isFirstDMA, chain, active, issued,
                    completed, pc, cur, numFreed, sampledSize, tags, returned>>
    BY <1>1 DEF vars, ring, submit, alloc, engine, history
  <2>2. TypeOK' /\ TokensMatch' /\ ScanCounts' /\ WaitMeansTransferred'
    BY <2>1, RingStays
    DEF RingIInv, TypeOK, TokensMatch, ScanCounts, WaitMeansTransferred, Xfers
  <2> QED BY <2>1, <2>2, RingStays DEF RingIInv
<1>2. CASE Next
  <2>0. TypeOK'
    BY <1>2, NextKeepsTypes DEF RingIInv
  <2>1. ASSUME NEW t \in Tags,
               \/ \E req \in Requests : StartRejected(t, req) \/ StartAccepted(t, req)
               \/ Wait(t)
        PROVE  RingIInv'
    <3>1. UNCHANGED <<head, tail, desc, tailDMADesc, isFirstDMA, chain, active, issued,
                      completed, returned>>
      BY <2>1 DEF StartRejected, StartAccepted, Wait, ring, submit, engine, history
    <3>2. ScanCounts'
      BY <2>1 DEF StartRejected, StartAccepted, Wait, ScanCounts
    <3>3. \/ tags' = tags
          \/ tags' = [tags EXCEPT ![t] = [token |-> 0, xfer |-> 0, pending |-> TRUE]]
      BY <2>1 DEF StartRejected, StartAccepted, Wait
    <3>4. TokensMatch'
      <4> SUFFICES ASSUME NEW u \in Tags, tags'[u].xfer # 0
                   PROVE  /\ tags'[u].xfer \in Xfers
                          /\ tags'[u].token = (tags'[u].xfer - 1) % TokenMod
        BY <3>1 DEF TokensMatch, Xfers
      <4>1. tags'[u] = tags[u]
        BY <3>3 DEF RingIInv, TypeOK
      <4> QED BY <4>1 DEF RingIInv, TokensMatch
    <3>5. WaitMeansTransferred'
      BY <3>1 DEF RingIInv, WaitMeansTransferred
    <3> QED BY <2>0, <3>1, <3>2, <3>4, <3>5, RingStays DEF RingIInv
  <2>2. CASE BeginScan \/ EndScan \/ Shutdown
    <3>1. UNCHANGED <<head, tail, desc, tailDMADesc, isFirstDMA, chain, active, issued,
                      completed, returned, tags>>
      BY <2>2 DEF BeginScan, EndScan, Shutdown, ring, submit, engine, history
    <3>2. ScanCounts'
      <4>1. size \in Nat /\ size' = size
        BY <3>1, SizeOfRing, RingStays DEF RingIInv
      <4> QED BY <2>2, <4>1 DEF BeginScan, EndScan, Shutdown, ScanCounts
    <3>3. TokensMatch' /\ WaitMeansTransferred'
      BY <3>1 DEF RingIInv, TokensMatch, WaitMeansTransferred, Xfers
    <3> QED BY <2>0, <3>1, <3>2, <3>3, RingStays DEF RingIInv
  <2>3. CASE FreeHead
    BY <2>0, <2>3, FreeHeadKeepsRing DEF RingIInv
  <2>4. CASE Submit
    BY <2>0, <2>4, SubmitKeepsRing DEF RingIInv
  <2>5. CASE WaitReturns
    <3>1. UNCHANGED <<head, tail, desc, tailDMADesc, isFirstDMA, chain, active, issued,
                      completed>>
      BY <2>5 DEF WaitReturns, ring, submit, engine
    <3> QED BY <2>0, <2>5, <3>1, RingStays, WaitKeepsRing DEF RingIInv
  <2>6. CASE EngineFetch
    <3>1. UNCHANGED <<head, tail, desc, tailDMADesc, isFirstDMA, pc, numFreed, sampledSize,
                      tags, issued, completed, returned>>
      BY <2>6 DEF EngineFetch, ring, submit, alloc, history
    <3>2. UNCHANGED <<size, freed, Xfers>>
      BY <3>1 DEF size, freed, Xfers
    <3>3. CountersMatch' /\ FreedAreDone' /\ RingOwnsSlots' /\ LinksBehindLast'
      BY <3>1, <3>2
      DEF RingIInv, CountersMatch, FreedAreDone, RingOwnsSlots, LinksBehindLast
    <3>4. TokensMatch' /\ ScanCounts' /\ WaitMeansTransferred'
      BY <3>1, <3>2 DEF RingIInv, TokensMatch, ScanCounts, WaitMeansTransferred
    <3> QED BY <2>0, <2>6, <3>3, <3>4, FetchKeepsEngine DEF RingIInv
  <2>7. ASSUME NEW slot \in Slots, EngineComplete(slot) PROVE RingIInv'
    BY <2>0, <2>7, CompleteKeepsRing DEF RingIInv
  <2> QED BY <1>2, <2>1, <2>2, <2>3, <2>4, <2>5, <2>6, <2>7 DEF Next, Kernel
<1> QED BY <1>1, <1>2

-----------------------------------------------------------------------------
\* The inductive invariant gives the ones the runs check.
LEMMA RingIInvGivesInv == RingIInv => RingInv
<1> SUFFICES ASSUME RingIInv PROVE RingInv
  OBVIOUS
<1>0. /\ issued \in Nat /\ size \in Nat /\ freed = issued - size
      /\ numFreed \in Nat /\ sampledSize \in Nat
  BY SizeOfRing DEF RingIInv, TypeOK, freed
<1>1. UnfinishedOwnSlot
  BY UnfinishedInRing DEF RingIInv, UnfinishedOwnSlot, RingOwnsSlots
<1>2. AllocAssertion
  BY <1>0, SizeOfRing DEF RingIInv, AllocAssertion, ScanCounts
<1>3. RingBounded
  BY <1>0, UnfinishedInRing DEF RingIInv, RingBounded, CountersMatch
<1> QED BY <1>1, <1>2, <1>3 DEF RingIInv, RingInv, EngineKnows

\* No descriptor is taken from a transfer that is under way, for any capacity,
\* however often the counters wrap and in whatever order transfers finish.
THEOREM RingInvariant == Spec => []RingInv
<1>1. Spec => []RingIInv
  BY InitEstablishesRing, NextKeepsRing, PTL DEF Spec
<1> QED BY <1>1, RingIInvGivesInv, PTL

\* dma_wait on the token of a transfer returns only once it is done, even
\* when its slot was given to a later transfer in between.
THEOREM WaitIsForItsTransfer == Spec => []WaitMeansTransferred
<1>1. RingIInv => WaitMeansTransferred
  BY DEF RingIInv
<1>2. Spec => []RingIInv
  BY InitEstablishesRing, NextKeepsRing, PTL DEF Spec
<1> QED BY <1>1, <1>2, PTL
=============================================================================
