------------------------- MODULE DoubleBufferProofs -------------------------
(***************************************************************************)
(* Proofs about the double-buffered loop, for every number of operands and   *)
(* stores, every tile size and every set of loops.                          *)
(***************************************************************************)
EXTENDS DoubleBuffer, VectorLemmas, TLAPS

(***************************************************************************)
(* Which fetches are under way, and for which tile.                         *)
(***************************************************************************)
\* The side whose kernel runs in this iteration.
Kern ==
    IF (IF pc \in {"prologue", "head"} THEN toggle ELSE toggleVal) THEN "ping" ELSE "pong"

BeforeKernel == pc \in {"head", "ping"} \/ (pc = "pong" /\ ~toggleVal)
InKernel == pc \in {"prefetch", "wait", "compute", "store", "storeWait", "toggle"}
AfterWaits ==
    pc \in {"compute", "store", "storeWait", "toggle", "next"} \/ (pc = "pong" /\ toggleVal)

\* Started and not waited for.
Pending(s, o) ==
    IF s = Kern
    THEN \/ pc = "prologue" /\ o < index
         \/ (BeforeKernel \/ pc = "prefetch") /\ iv < loop.ub
         \/ pc = "wait" /\ index <= o
    ELSE nextExists /\ (AfterWaits \/ pc = "wait" \/ (pc = "prefetch" /\ o < index))

\* Started, and the tile not yet used.
Loaded(s, o) == Pending(s, o) \/ (s = Kern /\ pc \in {"wait", "compute"})

\* The tile the fetch of a side brings, and the one that is stored.
Due(s) == IF s = Kern THEN iv ELSE iv + step
DueTile(s, o) == View(o, Due(s))

StoreFrom == Buffer(side, Stored[index])
StoreTo == View(Stored[index], iv)

-----------------------------------------------------------------------------
(***************************************************************************)
(* The inductive invariant.                                                 *)
(***************************************************************************)
\* The toggle and the side follow the statement that runs, and the index
\* stays in its range.
Control ==
    /\ generateSchedule(loop)
    /\ pc \notin {"head", "done"} => iv < loop.ub \/ pc = "prologue"
    /\ pc = "prologue" => iv = 0 /\ toggle
    /\ pc = "prologue" /\ iv >= loop.ub => index = 1
    /\ pc = "ping" \/ (pc = "pong" /\ ~toggleVal) \/ InKernel => toggle = toggleVal
    /\ pc = "next" \/ (pc = "pong" /\ toggleVal) => toggle = ~toggleVal
    /\ InKernel => side = Kern
    /\ pc \in {"prologue", "prefetch"} => index <= NumOperands + 1
    /\ pc = "wait" => index <= NumOperands
    /\ pc \in {"store", "storeWait"} => index <= Len(Stored)
    /\ pc = "done" => iv >= loop.ub

Places == Locations \cup {<<>>}

TagRecords ==
    /\ tags \in [TagIds -> [id : Nat, from : Places, to : Places]]
    /\ issued \in Nat
    /\ \A t \in TagIds : tags[t].id <= issued
    /\ \A t, u \in TagIds : t # u /\ tags[t].id = tags[u].id => tags[t].id = 0

EngineRecords ==
    /\ \A x \in engine : x = [id |-> x.id, from |-> x.from, to |-> x.to,
                              read |-> x.read, data |-> x.data]
    /\ \A x, y \in engine : x.id = y.id => x = y
    /\ \A x \in engine : x.id \in Nat \ {0}

\* What a tag was last given to is the transfer that is meant.
FetchTags ==
    \A s \in Sides, o \in Operands : Pending(s, o) =>
        /\ tags[FetchTag(s, o)].from = DueTile(s, o)
        /\ tags[FetchTag(s, o)].to = Buffer(s, o)

IsFetch(x, s, o) ==
    /\ x.id = tags[FetchTag(s, o)].id
    /\ x.from = DueTile(s, o) /\ x.to = Buffer(s, o)

IsStore(x) ==
    /\ pc = "storeWait" /\ x.id = tags[StoreTag(side, index)].id
    /\ x.from = StoreFrom /\ x.to = StoreTo

\* The engine works on what was started and not waited for.
EngineKnown ==
    \A x \in engine :
        \/ IsStore(x)
        \/ \E s \in Sides, o \in Operands : Pending(s, o) /\ IsFetch(x, s, o)

\* A transfer moves what is in its source now, and a fetch that is over has
\* brought the tile.
ReadIsCurrent == \A x \in engine : x.read => x.data = memory[x.from]

TilesArrive ==
    \A s \in Sides, o \in Operands : Loaded(s, o) =>
        InFlight(FetchTag(s, o)) \/ memory[Buffer(s, o)] = memory[DueTile(s, o)]

PipelineIInv ==
    /\ TypeOK
    /\ Control
    /\ TagRecords
    /\ EngineRecords
    /\ FetchTags
    /\ EngineKnown
    /\ ReadIsCurrent
    /\ TilesArrive

\* The results of a loop advance: a tile that is stored is no tile that the
\* next iteration reads.
ResultsAdvance(l) ==
    \A k \in DOMAIN Stored :
        /\ Stored[k] \notin l.fixed
        /\ \A o \in l.fixed : Memref[o] # Memref[Stored[k]]

\* Of the loop that was rewritten.  The parser does not establish it: a nested
\* scf.for asks for the annotation of a parallel loop, an scf.forall for nothing.
LoopAdvances == ResultsAdvance(loop)

-----------------------------------------------------------------------------
(***************************************************************************)
(* Facts about the constants, the places and the tags.                      *)
(***************************************************************************)
LEMMA ConstantFacts ==
    /\ NumOperands \in Nat \ {0} /\ step \in Nat
    /\ Operands = 1 .. NumOperands
    /\ Len(Stored) \in Nat \ {0} /\ DOMAIN Stored = 1 .. Len(Stored)
    /\ \A k \in 1 .. Len(Stored) : Stored[k] \in Operands
    /\ \A l \in Loops : l.lb \in Nat /\ l.ub \in Nat
<1>1. Operands = 1 .. NumOperands
  BY DEF Operands, Single!Operands
<1> QED BY <1>1, DoubleBufferAssumption

\* Buffers, tiles and tags are what their names say: no two are the same.
LEMMA PlacesApart ==
    /\ \A s, t, o, p : Buffer(s, o) = Buffer(t, p) => s = t /\ o = p
    /\ \A s, o, p, i : Buffer(s, o) # View(p, i)
    /\ \A s, t, o, p : FetchTag(s, o) = FetchTag(t, p) => s = t /\ o = p
    /\ \A s, t, o, p : StoreTag(s, o) = StoreTag(t, p) => s = t /\ o = p
    /\ \A s, t, o, p : FetchTag(s, o) # StoreTag(t, p)
<1>1. \A s, t, o, p : Buffer(s, o) = Buffer(t, p) => s = t /\ o = p
  BY DEF Buffer
<1>2. \A s, o, p, i : Buffer(s, o) # View(p, i)
  BY DEF Buffer, View, Single!View
<1>3. \A s, t, o, p : FetchTag(s, o) = FetchTag(t, p) => s = t /\ o = p
  BY DEF FetchTag
<1>4. \A s, t, o, p : StoreTag(s, o) = StoreTag(t, p) => s = t /\ o = p
  BY DEF StoreTag
<1>5. \A s, t, o, p : FetchTag(s, o) # StoreTag(t, p)
  BY DEF FetchTag, StoreTag
<1> QED BY <1>1, <1>2, <1>3, <1>4, <1>5

\* The buffers and tags of every side, operand and store exist.
LEMMA PlacesExist ==
    /\ \A s \in Sides, o \in Operands : /\ Buffer(s, o) \in Buffers
                                        /\ Buffer(s, o) \in Locations
                                        /\ FetchTag(s, o) \in TagIds
    /\ \A s \in Sides, k \in 1 .. Len(Stored) : StoreTag(s, k) \in TagIds
  BY ConstantFacts DEF Locations, Buffers, TagIds

\* The tiles of every loop are in DDR.
LEMMA ViewsInDDR ==
    ASSUME loop \in Loops, NEW o \in Operands, NEW i \in 0 .. loop.ub
    PROVE  View(o, i) \in Single!DDR /\ View(o, i) \in Locations
<1> DEFINE bounds == {l.ub + step : l \in Loops}
<1>1. PICK longest \in Loops : \A l \in Loops : l.ub <= longest.ub
  BY DoubleBufferAssumption
<1>2. longest.ub + step \in bounds /\ \A y \in bounds : longest.ub + step >= y
  BY <1>1, ConstantFacts
<1>3. Single!Max(bounds) \in bounds /\ \A y \in bounds : Single!Max(bounds) >= y
  BY <1>2 DEF Single!Max
<1>4. PICK most \in Nat : most = Single!Max(bounds)
  <2>1. \A b \in bounds : b \in Nat
    BY ConstantFacts
  <2> HIDE DEF bounds
  <2>2. Single!Max(bounds) \in Nat
    BY <1>3, <2>1
  <2> QED BY <2>2
<1>5. i \in 0 .. most /\ 0 \in 0 .. most
  <2>1. loop.ub + step \in bounds /\ loop.ub \in Nat
    BY ConstantFacts
  <2>2. most >= loop.ub + step
    BY <1>3, <1>4, <2>1
  <2> QED BY <1>4, <2>1, <2>2, ConstantFacts
<1>6. View(o, i) \in {<<"ddr", Memref[p], j>> : p \in Operands, j \in 0 .. most}
  BY <1>5 DEF View, Single!View
<1>7. View(o, i) \in Single!DDR
  BY <1>4, <1>6 DEF Single!DDR, Operands
<1> QED BY <1>7 DEF Locations

\* A tile that is stored is not a tile of another iteration.
LEMMA ViewsApart ==
    ASSUME ResultsAdvance(loop), NEW k \in 1 .. Len(Stored), NEW o \in Operands,
           NEW i, NEW j, i # j
    PROVE  View(Stored[k], i) # View(o, j)
<1>1. Stored[k] \notin loop.fixed
      /\ \A f \in loop.fixed : Memref[f] # Memref[Stored[k]]
  BY ConstantFacts DEF ResultsAdvance
<1>2. View(Stored[k], i) = <<"ddr", Memref[Stored[k]], i>>
  BY <1>1 DEF View, Single!View
<1>3. View(o, j) = <<"ddr", Memref[o], IF o \in loop.fixed THEN 0 ELSE j>>
  BY DEF View, Single!View
<1>4. CASE o \in loop.fixed
  BY <1>1, <1>2, <1>3, <1>4
<1>5. CASE o \notin loop.fixed
  BY <1>2, <1>3, <1>5
<1> QED BY <1>4, <1>5

\* The loop counts from zero in whole tiles.
LEMMA LoopFacts ==
    ASSUME TypeOK, Control
    PROVE  /\ step \in Nat \ {0} /\ loop.lb = 0 /\ loop.ub \in Nat /\ iv \in Nat
           /\ iv <= loop.ub
           /\ iv < loop.ub => iv + step \in 0 .. loop.ub /\ (iv + step) % step = 0
           /\ nextExists <=> iv + step < loop.ub
           /\ toggle \in BOOLEAN /\ toggleVal \in BOOLEAN /\ loop \in Loops
<1>1. isZeroBasedEvenlyDivisible(loop)
  BY DEF Control, generateSchedule
<1>2. step \in Nat \ {0} /\ loop.lb = 0 /\ loop.ub \in Nat /\ loop.ub % step = 0
  BY <1>1, ConstantFacts DEF isZeroBasedEvenlyDivisible, TypeOK
<1>3. iv \in Nat /\ iv <= loop.ub /\ iv % step = 0
  BY <1>2 DEF TypeOK
<1>4. PICK p \in Nat : iv = step * p
  <2>1. PICK q \in Nat, r \in 0 .. step - 1 : r = iv % step /\ iv = step * q + r
    BY <1>2, <1>3, DivModNames
  <2>2. iv = step * q
    BY <1>2, <1>3, <2>1
  <2> QED BY <2>2
<1>5. PICK u \in Nat : loop.ub = step * u
  <2>1. PICK q \in Nat, r \in 0 .. step - 1 : r = loop.ub % step /\ loop.ub = step * q + r
    BY <1>2, DivModNames
  <2>2. loop.ub = step * q
    BY <1>2, <2>1
  <2> QED BY <2>2
<1>6. iv + step = step * (p + 1)
  BY <1>2, <1>3, <1>4, NextMultiple
<1>7. (iv + step) % step = 0
  <2>1. (step * (p + 1) + 0) % step = 0
    BY <1>2, ModUnique
  <2> QED BY <1>2, <1>3, <1>6, <2>1
<1>8. ASSUME NEW a \in Nat, NEW b \in Nat, step * a < step * b
      PROVE  step * (a + 1) <= step * b
  <2>1. a < b
    <3>1. SUFFICES ASSUME b <= a PROVE FALSE
      OBVIOUS
    <3>2. step * b <= step * a
      BY <1>2, <3>1
    <3> QED BY <1>2, <1>8, <3>2
  <2> QED BY <1>2, <2>1
<1>9. iv < loop.ub => iv + step <= loop.ub
  BY <1>4, <1>5, <1>6, <1>8
<1>10. iv + step < loop.ub => iv + step + step <= loop.ub
  <2>1. step * (p + 1) + step = step * (p + 1 + 1)
    BY <1>2, NextMultiple
  <2>2. PICK r \in Nat : r = p + 1
    OBVIOUS
  <2>3. step * r = iv + step /\ step * (r + 1) = iv + step + step
    BY <1>6, <2>1, <2>2
  <2> QED BY <1>5, <1>8, <2>2, <2>3
<1>11. nextExists <=> iv + step < loop.ub
  BY <1>2, <1>3, <1>10 DEF nextExists
<1>12. iv < loop.ub => iv + step \in 0 .. loop.ub
  BY <1>2, <1>3, <1>9
<1> QED BY <1>2, <1>3, <1>7, <1>11, <1>12 DEF TypeOK

-----------------------------------------------------------------------------
(***************************************************************************)
(* The steps of the program that move no transfer.                          *)
(***************************************************************************)
\* Such a step forgets only fetches that are over.
LEMMA ControlStep ==
    ASSUME PipelineIInv, TypeOK', Control', UNCHANGED <<loop, memory, tags, engine, issued>>,
           \A s \in Sides, o \in Operands :
               /\ Loaded(s, o)' => Loaded(s, o) /\ Due(s)' = Due(s)
               /\ Pending(s, o)' => Pending(s, o)
               /\ Pending(s, o) /\ InFlight(FetchTag(s, o)) => Pending(s, o)',
           pc = "storeWait" => ~InFlight(StoreTag(side, index)), pc' # "storeWait"
    PROVE  PipelineIInv'
<1>1. TagRecords' /\ EngineRecords' /\ ReadIsCurrent'
  BY DEF PipelineIInv, TagRecords, EngineRecords, ReadIsCurrent
<1>2. \A s \in Sides, o \in Operands : Loaded(s, o)' => DueTile(s, o)' = DueTile(s, o)
  BY DEF DueTile, View, Single!View
<1>3. \A s, o : Pending(s, o)' => Loaded(s, o)'
  BY DEF Loaded
<1>4. FetchTags'
  BY <1>2, <1>3 DEF PipelineIInv, FetchTags
<1>5. TilesArrive'
  <2> SUFFICES ASSUME NEW s \in Sides, NEW o \in Operands, Loaded(s, o)'
               PROVE  \/ InFlight(FetchTag(s, o))'
                      \/ memory'[Buffer(s, o)] = memory'[DueTile(s, o)']
    BY DEF TilesArrive
  <2>1. InFlight(FetchTag(s, o)) \/ memory[Buffer(s, o)] = memory[DueTile(s, o)]
    BY DEF PipelineIInv, TilesArrive
  <2> QED BY <1>2, <2>1 DEF InFlight
<1>6. EngineKnown'
  <2> SUFFICES ASSUME NEW x \in engine
               PROVE  \E s \in Sides, o \in Operands : Pending(s, o)' /\ IsFetch(x, s, o)'
    BY DEF EngineKnown
  <2>1. ~IsStore(x)
    BY DEF IsStore, InFlight
  <2>2. PICK s \in Sides, o \in Operands : Pending(s, o) /\ IsFetch(x, s, o)
    BY <2>1 DEF PipelineIInv, EngineKnown
  <2>3. Pending(s, o)'
    BY <2>2 DEF IsFetch, InFlight
  <2>4. IsFetch(x, s, o)'
    BY <1>2, <1>3, <2>2, <2>3 DEF IsFetch
  <2> QED BY <2>3, <2>4
<1> QED BY <1>1, <1>4, <1>5, <1>6 DEF PipelineIInv

\* What the type invariant asks of a step that moves no transfer.
LEMMA TypeStays ==
    ASSUME TypeOK, UNCHANGED <<loop, memory, engine, issued>>,
           iv' \in 0 .. loop.ub, iv' % step = 0, toggle' \in BOOLEAN, toggleVal' \in BOOLEAN,
           side' \in Sides,
           pc' \in {"prologue", "head", "ping", "pong", "prefetch", "wait", "compute",
                    "store", "storeWait", "toggle", "next", "done"},
           index' \in 1 .. NumOperands + Len(Stored) + 1
    PROVE  TypeOK'
  BY DEF TypeOK, Locations

\* The statements between the kernels.
LEMMA BetweenKeeps ==
    ASSUME PipelineIInv, LoopHead \/ EnterKernel \/ StoreToggle
    PROVE  PipelineIInv'
<1>1. /\ UNCHANGED <<loop, iv, memory, tags, engine, issued>> /\ index' = 1
      /\ pc # "prologue" /\ pc' # "prologue" /\ pc # "storeWait" /\ pc' # "storeWait"
  BY DEF LoopHead, EnterKernel, StoreToggle, Goto
<1>2. TypeOK /\ Control
  BY DEF PipelineIInv
<1>3. /\ toggle' \in BOOLEAN /\ toggleVal' \in BOOLEAN /\ side' \in Sides
      /\ pc' \in {"head", "ping", "pong", "prefetch", "toggle", "next", "done"}
  BY <1>2 DEF LoopHead, EnterKernel, StoreToggle, Goto, TypeOK, Sides
<1>4. TypeOK'
  BY <1>1, <1>2, <1>3, TypeStays, ConstantFacts DEF TypeOK
<1>5. nextExists' = nextExists
  BY <1>1 DEF nextExists
<1>6. CASE LoopHead
  <2>1. /\ pc = "head" /\ toggle' = toggle /\ side' = side
        /\ \/ iv < loop.ub /\ toggleVal' = toggle /\ pc' = "ping"
           \/ ~(iv < loop.ub) /\ toggleVal' = toggleVal /\ pc' = "done"
    BY <1>6 DEF LoopHead, Goto
  <2>2. Control'
    BY <1>1, <1>2, <2>1, LoopFacts DEF Control, InKernel
  <2>3. CASE pc' = "ping"
    <3>1. Kern' = Kern
      BY <2>1, <2>3 DEF Kern
    <3>2. \A s \in Sides, o \in Operands :
             /\ Pending(s, o)' <=> Pending(s, o)
             /\ Loaded(s, o)' <=> Loaded(s, o)
             /\ Due(s)' = Due(s)
      BY <1>1, <1>5, <2>1, <2>3, <3>1 DEF Pending, Loaded, Due, BeforeKernel, AfterWaits
    <3> QED BY <1>1, <1>4, <2>2, <3>2, ControlStep
  <2>4. CASE pc' = "done"
    <3>1. \A s, o : ~Pending(s, o)' /\ ~Loaded(s, o)' /\ ~Pending(s, o)
      BY <1>1, <2>1, <2>4 DEF Pending, Loaded, BeforeKernel, AfterWaits
    <3> QED BY <1>1, <1>4, <2>2, <3>1, ControlStep
  <2> QED BY <2>1, <2>3, <2>4
<1>7. CASE EnterKernel
  <2>1. /\ toggle' = toggle /\ toggleVal' = toggleVal
        /\ \/ pc = "ping" /\ toggleVal  /\ side' = "ping" /\ pc' = "prefetch"
           \/ pc = "ping" /\ ~toggleVal /\ side' = side   /\ pc' = "pong"
           \/ pc = "pong" /\ ~toggleVal /\ side' = "pong" /\ pc' = "prefetch"
           \/ pc = "pong" /\ toggleVal  /\ side' = side   /\ pc' = "next"
    BY <1>7 DEF EnterKernel, Goto
  <2>2. Kern' = Kern /\ Kern = IF toggleVal THEN "ping" ELSE "pong"
    BY <2>1 DEF Kern
  <2>3. Control'
    BY <1>1, <1>2, <2>1, <2>2, ConstantFacts DEF Control, InKernel
  <2>4. \A s \in Sides, o \in Operands :
           /\ Pending(s, o)' <=> Pending(s, o)
           /\ Loaded(s, o)' <=> Loaded(s, o)
           /\ Due(s)' = Due(s)
    <3>1. \A o \in Operands : ~(o < 1)
      BY ConstantFacts
    <3> QED BY <1>1, <1>5, <2>1, <2>2, <3>1
            DEF Pending, Loaded, Due, BeforeKernel, AfterWaits
  <2> QED BY <1>1, <1>4, <2>3, <2>4, ControlStep
<1>8. CASE StoreToggle
  <2>1. /\ pc = "toggle" /\ toggle' = (side = "pong") /\ toggleVal' = toggleVal
        /\ side' = side /\ pc' = IF side = "ping" THEN "pong" ELSE "next"
    BY <1>8 DEF StoreToggle, Goto
  <2>2. Kern' = Kern /\ Kern = (IF toggleVal THEN "ping" ELSE "pong") /\ side = Kern
        /\ toggleVal \in BOOLEAN
    BY <1>2, <2>1 DEF Kern, Control, InKernel, TypeOK
  <2>3. \/ toggleVal /\ pc' = "pong" /\ toggle' = FALSE
        \/ ~toggleVal /\ pc' = "next" /\ toggle' = TRUE
    BY <2>1, <2>2
  <2>4. Control'
    BY <1>1, <1>2, <2>1, <2>2, <2>3 DEF Control, InKernel
  <2>5. \A s \in Sides, o \in Operands :
           /\ Pending(s, o)' <=> Pending(s, o)
           /\ Loaded(s, o)' <=> Loaded(s, o)
           /\ Due(s)' = Due(s)
    BY <1>1, <1>5, <2>1, <2>2, <2>3 DEF Pending, Loaded, Due, BeforeKernel, AfterWaits
  <2> QED BY <1>1, <1>4, <2>4, <2>5, ControlStep
<1> QED BY <1>6, <1>7, <1>8

\* The next iteration runs the other kernel, on the tile fetched in this one.
LEMMA NextIterationKeeps ==
    ASSUME PipelineIInv, NextIteration
    PROVE  PipelineIInv'
<1>1. /\ UNCHANGED <<loop, toggle, toggleVal, side, memory, tags, engine, issued>>
      /\ pc = "next" /\ pc' = "head" /\ index' = 1 /\ iv' = iv + step
  BY DEF NextIteration, Goto
<1>2. TypeOK /\ Control
  BY DEF PipelineIInv
<1>3. toggle = ~toggleVal /\ iv < loop.ub
  BY <1>1, <1>2 DEF Control
<1>4. TypeOK'
  BY <1>1, <1>2, <1>3, TypeStays, LoopFacts, ConstantFacts DEF TypeOK
<1>5. Control'
  BY <1>1, <1>2 DEF Control, InKernel
<1>6. \A s \in Sides : s = Kern' <=> s # Kern
  BY <1>1, <1>2, <1>3 DEF Kern, Sides, TypeOK
<1>7. \A s \in Sides, o \in Operands : Pending(s, o) <=> s # Kern /\ nextExists
  BY <1>1 DEF Pending, BeforeKernel, AfterWaits
<1>8. \A s \in Sides, o \in Operands : Pending(s, o)' <=> s = Kern' /\ iv' < loop.ub
  BY <1>1 DEF Pending, BeforeKernel, AfterWaits
<1>9. nextExists <=> iv' < loop.ub
  BY <1>1, <1>2, LoopFacts
<1>10. \A s \in Sides, o \in Operands :
          /\ Pending(s, o)' <=> Pending(s, o)
          /\ Loaded(s, o)' <=> Pending(s, o)'
          /\ Pending(s, o)' => Due(s)' = Due(s)
  BY <1>1, <1>6, <1>7, <1>8, <1>9 DEF Loaded, Due
<1> QED BY <1>1, <1>4, <1>5, <1>10, ControlStep DEF Loaded

\* The loop begins when all first tiles were asked for; so does the wait of a
\* kernel with the next tiles.
LEMMA FetchesEnd ==
    ASSUME PipelineIInv, Prologue \/ Prefetch, Idle
    PROVE  PipelineIInv'
<1>1. /\ UNCHANGED <<loop, iv, toggle, toggleVal, side, memory, tags, engine, issued>>
      /\ index' = 1 /\ pc \in {"prologue", "prefetch"}
      /\ pc' = IF pc = "prologue" THEN "head" ELSE "wait"
      /\ pc = "prologue" => ~(loop.lb < loop.ub /\ index \in Operands)
      /\ pc = "prefetch" => ~(nextExists /\ index \in Operands)
  <2>1. issued \in Nat /\ issued + 1 # issued
    BY DEF PipelineIInv, TagRecords
  <2> QED BY <2>1 DEF Prologue, Prefetch, Start, Goto, Idle
<1>2. TypeOK /\ Control
  BY DEF PipelineIInv
<1>3. TypeOK'
  BY <1>1, <1>2, TypeStays, ConstantFacts DEF TypeOK
<1>4. Kern' = Kern /\ nextExists' = nextExists
  BY <1>1, <1>2 DEF Kern, Control, InKernel, nextExists
<1>5. Control'
  BY <1>1, <1>2, <1>4, ConstantFacts DEF Control, InKernel
<1>6. \A o \in Operands : 1 <= o /\ (index \notin Operands => o < index)
  BY <1>2, ConstantFacts DEF TypeOK
<1>7. CASE pc = "prologue"
  <2>1. \A s \in Sides, o \in Operands :
           /\ Pending(s, o)' <=> s = Kern /\ iv < loop.ub
           /\ Loaded(s, o)' <=> Pending(s, o)'
    BY <1>1, <1>4, <1>7 DEF Pending, Loaded, BeforeKernel, AfterWaits
  <2>2. \A s \in Sides, o \in Operands : Pending(s, o) <=> s = Kern /\ o < index
    BY <1>1, <1>7 DEF Pending, BeforeKernel, AfterWaits
  <2>3. CASE iv < loop.ub
    <3>1. index \notin Operands
      BY <1>1, <1>2, <1>7, <2>3, LoopFacts DEF Control
    <3>2. \A s \in Sides, o \in Operands : (Pending(s, o)' => Pending(s, o))
                                           /\ (Pending(s, o) => Pending(s, o)')
      BY <1>6, <2>1, <2>2, <2>3, <3>1
    <3>3. \A s \in Sides, o \in Operands :
             /\ Loaded(s, o)' => Loaded(s, o)
             /\ Due(s)' = Due(s)
      BY <1>1, <1>4, <2>1, <3>2 DEF Loaded, Due
    <3>4. pc' # "storeWait" /\ pc # "storeWait"
      BY <1>1, <1>7
    <3> QED BY <1>1, <1>3, <1>5, <3>2, <3>3, <3>4, ControlStep
  <2>4. CASE ~(iv < loop.ub)
    <3>1. index = 1
      <4>1. iv >= loop.ub
        BY <1>2, <2>4, LoopFacts
      <4> QED BY <1>2, <1>7, <4>1 DEF Control
    <3>2. \A s \in Sides, o \in Operands : ~Pending(s, o)' /\ ~Pending(s, o) /\ ~Loaded(s, o)'
      BY <2>1, <2>2, <2>4, <3>1, ConstantFacts
    <3> QED BY <1>1, <1>3, <1>5, <1>7, <3>2, ControlStep
  <2> QED BY <2>3, <2>4
<1>8. CASE pc = "prefetch"
  <2>1. iv < loop.ub
    BY <1>2, <1>8 DEF Control
  <2>2. \A s \in Sides, o \in Operands :
           /\ Pending(s, o)' <=> s = Kern \/ nextExists
           /\ Loaded(s, o)' <=> s = Kern \/ nextExists
           /\ Pending(s, o) <=> s = Kern \/ (nextExists /\ o < index)
           /\ nextExists => o < index
           /\ Due(s)' = Due(s)
    BY <1>1, <1>4, <1>6, <1>8, <2>1 DEF Pending, Loaded, Due, BeforeKernel, AfterWaits
  <2>3. \A s \in Sides, o \in Operands : (Pending(s, o)' <=> Pending(s, o))
                                         /\ (Loaded(s, o)' <=> Loaded(s, o))
    BY <1>8, <2>2 DEF Loaded
  <2> QED BY <1>1, <1>3, <1>5, <1>8, <2>2, <2>3, ControlStep
<1> QED BY <1>1, <1>7, <1>8

\* Waiting for a fetch, and for a store.
LEMMA WaitsKeep ==
    ASSUME PipelineIInv, WaitFetch \/ WaitStore
    PROVE  PipelineIInv'
<1>1. UNCHANGED <<loop, iv, toggle, toggleVal, side, memory, tags, engine, issued>>
  BY DEF WaitFetch, WaitStore
<1>2. TypeOK /\ Control
  BY DEF PipelineIInv
<1>3. nextExists' = nextExists
  BY <1>1 DEF nextExists
<1>4. index \in Nat
  BY <1>2 DEF TypeOK
<1>5. CASE WaitFetch
  <2>1. /\ pc = "wait" /\ ~InFlight(FetchTag(side, index))
        /\ \/ index = NumOperands /\ pc' = "compute" /\ index' = 1
           \/ index # NumOperands /\ pc' = "wait" /\ index' = index + 1
    BY <1>5 DEF WaitFetch, Goto, Stay
  <2>2. Kern' = Kern /\ side = Kern /\ index <= NumOperands
    BY <1>1, <1>2, <2>1 DEF Kern, Control, InKernel
  <2>3. TypeOK'
    BY <1>1, <1>2, <1>4, <2>1, <2>2, TypeStays, ConstantFacts DEF TypeOK
  <2>4. Control'
    BY <1>1, <1>2, <1>4, <2>1, <2>2, ConstantFacts DEF Control, InKernel
  <2>5. \A s \in Sides, o \in Operands :
           /\ Loaded(s, o)' => Loaded(s, o)
           /\ Due(s)' = Due(s)
    BY <1>1, <1>3, <2>1, <2>2 DEF Loaded, Pending, Due, BeforeKernel, AfterWaits
  <2>6. ASSUME NEW s \in Sides, NEW o \in Operands
        PROVE  /\ Pending(s, o)' => Pending(s, o)
               /\ Pending(s, o) /\ InFlight(FetchTag(s, o)) => Pending(s, o)'
    <3>1. CASE s = Kern
      <4>1. (Pending(s, o) <=> index <= o)
            /\ (Pending(s, o)' <=> pc' = "wait" /\ index' <= o)
        BY <2>1, <2>2, <3>1 DEF Pending, BeforeKernel, AfterWaits
      <4>2. o # index \/ ~InFlight(FetchTag(s, o))
        BY <2>1, <2>2, <3>1
      <4> QED BY <1>4, <2>1, <2>2, <4>1, <4>2, ConstantFacts
    <3>2. CASE s # Kern
      BY <1>3, <2>1, <2>2, <3>2 DEF Pending, BeforeKernel, AfterWaits
    <3> QED BY <3>1, <3>2
  <2> QED BY <1>1, <2>1, <2>3, <2>4, <2>5, <2>6, ControlStep
<1>6. CASE WaitStore
  <2>1. /\ pc = "storeWait" /\ ~InFlight(StoreTag(side, index))
        /\ \/ index = Len(Stored) /\ pc' = "toggle" /\ index' = 1
           \/ index # Len(Stored) /\ pc' = "store" /\ index' = index + 1
    BY <1>6 DEF WaitStore, Goto
  <2>2. Kern' = Kern /\ side = Kern /\ index <= Len(Stored)
    BY <1>1, <1>2, <2>1 DEF Kern, Control, InKernel
  <2> PICK K \in Nat : K = Len(Stored)
    BY ConstantFacts
  <2>0. /\ index' \in 1 .. K + 1 /\ index' \in 1 .. NumOperands + Len(Stored) + 1
        /\ pc' = "store" => index' <= Len(Stored)
    <3>1. index \in 1 .. K /\ NumOperands \in Nat
      BY <1>2, <1>4, <2>2, ConstantFacts DEF TypeOK
    <3>2. /\ index' \in 1 .. K + 1
          /\ pc' = "store" => index' <= K
      BY <2>1, <3>1
    <3> QED BY <3>1, <3>2
  <2>3. TypeOK'
    BY <1>1, <1>2, <2>1, <2>0, TypeStays DEF TypeOK
  <2>4. Control'
    BY <1>1, <1>2, <2>1, <2>2, <2>0 DEF Control, InKernel
  <2>5. \A s \in Sides, o \in Operands :
           /\ Pending(s, o)' <=> Pending(s, o)
           /\ Loaded(s, o)' <=> Loaded(s, o)
           /\ Due(s)' = Due(s)
    BY <1>1, <1>3, <2>1, <2>2 DEF Loaded, Pending, Due, BeforeKernel, AfterWaits
  <2> QED BY <1>1, <2>1, <2>3, <2>4, <2>5, ControlStep
<1> QED BY <1>5, <1>6

-----------------------------------------------------------------------------
(***************************************************************************)
(* The computation and the transfers.                                       *)
(***************************************************************************)
\* What is fetched is a tile of the loop.
LEMMA DueTileExists ==
    ASSUME TypeOK, Control, NEW s \in Sides, NEW o \in Operands, s = Kern \/ nextExists
    PROVE  DueTile(s, o) \in Single!DDR /\ DueTile(s, o) \in Locations
<1>1. Due(s) \in 0 .. loop.ub
  BY LoopFacts DEF Due
<1>2. PICK d \in 0 .. loop.ub : d = Due(s)
  BY <1>1
<1> QED BY <1>2, ViewsInDDR, LoopFacts DEF DueTile

\* A tile that was loaded is one of a memref.
LEMMA LoadedExists ==
    ASSUME TypeOK, Control, NEW s \in Sides, NEW o \in Operands, Loaded(s, o)
    PROVE  DueTile(s, o) \in Single!DDR /\ DueTile(s, o) \in Locations
  BY DueTileExists DEF Loaded, Pending

\* A tile is no buffer.
LEMMA DueTileIsNoBuffer ==
    \A s, t, o, p : DueTile(s, o) # Buffer(t, p)
  BY PlacesApart DEF DueTile

\* No transfer meets another one, or the computation.
LEMMA TransfersApart ==
    ASSUME PipelineIInv, ResultsAdvance(loop)
    PROVE  NoRace
<1>1. TypeOK /\ Control /\ EngineKnown /\ EngineRecords
  BY DEF PipelineIInv
<1>2. ASSUME NEW s \in Sides, NEW o \in Operands, Pending(s, o), pc = "storeWait"
      PROVE  s # side /\ DueTile(s, o) # StoreTo
  <2>1. s # Kern /\ side = Kern
    BY <1>1, <1>2 DEF Pending, BeforeKernel, AfterWaits, Control, InKernel
  <2>2. index \in 1 .. Len(Stored)
    BY <1>1, <1>2, ConstantFacts DEF TypeOK, Control
  <2>3. iv + step # iv
    BY <1>1, LoopFacts
  <2>4. PICK i, j : i = iv /\ j = iv + step
    OBVIOUS
  <2>5. View(Stored[index], i) # View(o, j)
    BY <2>2, <2>3, <2>4, ViewsApart
  <2> QED BY <2>1, <2>4, <2>5 DEF DueTile, Due, StoreTo
<1>3. ASSUME NEW x \in engine, NEW y \in engine, x.id # y.id
      PROVE  x.to \notin {y.from, y.to}
  <2>1. CASE IsStore(x)
    <3>1. ~IsStore(y)
      BY <1>3, <2>1 DEF IsStore
    <3>2. PICK t \in Sides, p \in Operands : Pending(t, p) /\ IsFetch(y, t, p)
      BY <1>1, <3>1 DEF EngineKnown
    <3>3. x.to = StoreTo /\ y.from = DueTile(t, p) /\ y.to = Buffer(t, p) /\ pc = "storeWait"
      BY <2>1, <3>2 DEF IsStore, IsFetch
    <3>4. StoreTo # Buffer(t, p)
      BY PlacesApart DEF StoreTo
    <3> QED BY <1>2, <3>2, <3>3, <3>4
  <2>2. CASE ~IsStore(x)
    <3>1. PICK s \in Sides, o \in Operands : Pending(s, o) /\ IsFetch(x, s, o)
      BY <1>1, <2>2 DEF EngineKnown
    <3>2. x.to = Buffer(s, o)
      BY <3>1 DEF IsFetch
    <3>3. CASE IsStore(y)
      <4>1. y.from = StoreFrom /\ y.to = StoreTo /\ pc = "storeWait"
        BY <3>3 DEF IsStore
      <4>2. s # side
        BY <1>2, <3>1, <4>1
      <4>3. StoreTo # Buffer(s, o) /\ StoreFrom # Buffer(s, o)
        BY <4>2, PlacesApart DEF StoreTo, StoreFrom
      <4> QED BY <3>2, <4>1, <4>3
    <3>4. CASE ~IsStore(y)
      <4>1. PICK t \in Sides, p \in Operands : Pending(t, p) /\ IsFetch(y, t, p)
        BY <1>1, <3>4 DEF EngineKnown
      <4>2. y.from = DueTile(t, p) /\ y.to = Buffer(t, p)
        BY <4>1 DEF IsFetch
      <4>3. s # t \/ o # p
        BY <1>3, <3>1, <4>1 DEF IsFetch
      <4> QED BY <3>2, <4>2, <4>3, PlacesApart, DueTileIsNoBuffer
    <3> QED BY <3>3, <3>4
  <2> QED BY <2>1, <2>2
<1>4. ASSUME pc = "compute", NEW x \in engine, NEW o \in Operands
      PROVE  Buffer(side, o) \notin {x.from, x.to}
  <2>1. ~IsStore(x)
    BY <1>4 DEF IsStore
  <2>2. PICK t \in Sides, p \in Operands : Pending(t, p) /\ IsFetch(x, t, p)
    BY <1>1, <2>1 DEF EngineKnown
  <2>3. t # side
    BY <1>1, <1>4, <2>2 DEF Pending, BeforeKernel, AfterWaits, Control, InKernel
  <2> QED BY <2>2, <2>3, PlacesApart, DueTileIsNoBuffer DEF IsFetch
<1> QED BY <1>3, <1>4 DEF NoRace

\* The computation writes the buffers of its own kernel.
LEMMA ComputeKeeps ==
    ASSUME PipelineIInv, Compute
    PROVE  PipelineIInv'
<1>1. /\ pc = "compute" /\ pc' = "store" /\ index' = 1
      /\ UNCHANGED <<loop, iv, toggle, toggleVal, side, tags, engine, issued>>
      /\ DOMAIN memory' = DOMAIN memory
      /\ \A w \in DOMAIN memory :
            w \notin {Buffer(side, o) : o \in ToSet(Stored)} => memory'[w] = memory[w]
  BY DEF Compute, Goto
<1>2. /\ TypeOK /\ Control /\ TagRecords /\ EngineRecords /\ FetchTags /\ EngineKnown
      /\ ReadIsCurrent /\ TilesArrive
  BY DEF PipelineIInv
<1>3. Kern' = Kern /\ side = Kern /\ nextExists' = nextExists
  BY <1>1, <1>2 DEF Kern, Control, InKernel, nextExists
<1>4. TypeOK'
  BY <1>1, <1>2, ConstantFacts DEF TypeOK, Locations
<1>5. Control'
  BY <1>1, <1>2, <1>3, ConstantFacts DEF Control, InKernel
<1>6. TagRecords' /\ EngineRecords'
  BY <1>1, <1>2 DEF TagRecords, EngineRecords
<1>7. \A s \in Sides, o \in Operands :
         /\ Pending(s, o)' <=> Pending(s, o)
         /\ Loaded(s, o)' <=> Pending(s, o)
         /\ Pending(s, o) => s # side /\ Loaded(s, o)
  BY <1>1, <1>3 DEF Pending, Loaded, BeforeKernel, AfterWaits
<1>8. \A s, o : DueTile(s, o)' = DueTile(s, o)
  BY <1>1, <1>3 DEF DueTile, Due, View, Single!View
<1>9. FetchTags'
  BY <1>1, <1>2, <1>7, <1>8 DEF FetchTags
<1>10. ASSUME NEW x \in engine PROVE ~IsStore(x)
  BY <1>1 DEF IsStore
<1>11. EngineKnown'
  <2>1. \A s, o, x : IsFetch(x, s, o)' <=> IsFetch(x, s, o)
    BY <1>1, <1>8 DEF IsFetch
  <2> QED BY <1>1, <1>2, <1>7, <1>10, <2>1 DEF EngineKnown
<1>12. ASSUME NEW s \in Sides, NEW o \in Operands, Pending(s, o)
       PROVE  /\ memory'[DueTile(s, o)] = memory[DueTile(s, o)]
              /\ memory'[Buffer(s, o)] = memory[Buffer(s, o)]
  <2>1. s # side /\ DueTile(s, o) \in Locations /\ Buffer(s, o) \in Locations
    BY <1>2, <1>7, <1>12, LoadedExists, PlacesExist
  <2>2. DOMAIN memory = Locations
    BY <1>2 DEF TypeOK
  <2>3. \A p : DueTile(s, o) # Buffer(side, p) /\ Buffer(s, o) # Buffer(side, p)
    BY <2>1, DueTileIsNoBuffer, PlacesApart
  <2> QED BY <1>1, <2>1, <2>2, <2>3
<1>13. ReadIsCurrent'
  <2> SUFFICES ASSUME NEW x \in engine, x.read PROVE x.data = memory'[x.from]
    BY <1>1 DEF ReadIsCurrent
  <2>1. PICK s \in Sides, o \in Operands : Pending(s, o) /\ IsFetch(x, s, o)
    BY <1>2, <1>10 DEF EngineKnown
  <2> QED BY <1>2, <1>12, <2>1 DEF ReadIsCurrent, IsFetch
<1>14. TilesArrive'
  <2>1. \A t : InFlight(t)' <=> InFlight(t)
    BY <1>1 DEF InFlight
  <2> QED BY <1>2, <1>7, <1>8, <1>12, <2>1 DEF TilesArrive
<1> QED BY <1>4, <1>5, <1>6, <1>9, <1>11, <1>13, <1>14 DEF PipelineIInv

\* What memref.dma_start adds, for every tag.
LEMMA StartAdds ==
    ASSUME PipelineIInv, NEW tag \in TagIds, NEW from \in Locations, NEW to \in Locations,
           Start(from, to, tag)
    PROVE  \E new : /\ engine' = engine \cup {new} /\ issued' = issued + 1
                    /\ new.id = issued' /\ new.from = from /\ new.to = to /\ ~new.read
                    /\ tags'[tag] = [id |-> new.id, from |-> from, to |-> to]
                    /\ \A t \in TagIds : t # tag => tags'[t] = tags[t]
                    /\ TagRecords' /\ EngineRecords'
<1>1. PICK n \in Nat : n = issued /\ n + 1 \in Nat
  BY DEF PipelineIInv, TagRecords
<1>2. PICK new : new = [id |-> n + 1, from |-> from, to |-> to,
                        read |-> FALSE, data |-> Garbage]
  OBVIOUS
<1>3. /\ issued' = n + 1 /\ engine' = engine \cup {new}
      /\ tags' = [tags EXCEPT ![tag] = [id |-> n + 1, from |-> from, to |-> to]]
  BY <1>1, <1>2 DEF Start
<1>4. /\ tags \in [TagIds -> [id : Nat, from : Places, to : Places]]
      /\ \A t \in TagIds : tags[t].id \in Nat /\ tags[t].id <= n
      /\ \A t, u \in TagIds : t # u /\ tags[t].id = tags[u].id => tags[t].id = 0
  BY <1>1 DEF PipelineIInv, TagRecords
<1>5. /\ tags'[tag] = [id |-> n + 1, from |-> from, to |-> to]
      /\ \A t \in TagIds : t # tag => tags'[t] = tags[t]
      /\ tags' \in [TagIds -> [id : Nat, from : Places, to : Places]]
  <2>1. [id |-> n + 1, from |-> from, to |-> to] \in [id : Nat, from : Places, to : Places]
    BY <1>1 DEF Places
  <2> QED BY <1>3, <1>4, <2>1
<1>6. TagRecords'
  <2>1. \A t \in TagIds : tags'[t].id <= n + 1
    BY <1>4, <1>5
  <2>2. \A t, u \in TagIds : t # u /\ tags'[t].id = tags'[u].id => tags'[t].id = 0
    <3> SUFFICES ASSUME NEW t \in TagIds, NEW u \in TagIds, t # u, tags'[t].id = tags'[u].id
                 PROVE  tags'[t].id = 0
      OBVIOUS
    <3>1. \A v \in TagIds : tags[v].id # n + 1
      BY <1>4
    <3> QED BY <1>4, <1>5, <3>1
  <2> QED BY <1>1, <1>3, <1>5, <2>1, <2>2 DEF TagRecords, Places
<1>7. EngineRecords'
  <2>1. \A x \in engine : x.id # n + 1
    <3>1. \A x \in engine : x.id \in 1 .. n
      BY <1>1 DEF PipelineIInv, TypeOK
    <3> QED BY <3>1
  <2>2. /\ new.id = n + 1
        /\ new = [id |-> new.id, from |-> new.from, to |-> new.to,
                  read |-> new.read, data |-> new.data]
    BY <1>2
  <2> QED BY <1>1, <1>3, <2>1, <2>2 DEF PipelineIInv, EngineRecords
<1>8. new.id = n + 1 /\ new.from = from /\ new.to = to /\ new.read = FALSE
  BY <1>2
<1> QED BY <1>1, <1>3, <1>5, <1>6, <1>7, <1>8

\* A transfer that is started leaves the others alone.
LEMMA StartFrame ==
    ASSUME PipelineIInv, TypeOK', Control', TagRecords', EngineRecords', UNCHANGED memory,
           NEW new, engine' = engine \cup {new}, ~new.read, NEW tag \in TagIds,
           \A t \in TagIds : t # tag => tags'[t] = tags[t],
           pc # "storeWait",
           \A s \in Sides, o \in Operands :
               /\ DueTile(s, o)' = DueTile(s, o)
               /\ tag = FetchTag(s, o) => Pending(s, o)' /\ IsFetch(new, s, o)'
                                          /\ tags'[tag].from = DueTile(s, o)
                                          /\ tags'[tag].to = Buffer(s, o)
               /\ tag # FetchTag(s, o) => /\ Pending(s, o)' <=> Pending(s, o)
                                          /\ Loaded(s, o)' => Loaded(s, o)
               /\ Pending(s, o) => tag # FetchTag(s, o),
           \/ IsStore(new)'
           \/ \E s \in Sides, o \in Operands : tag = FetchTag(s, o)
    PROVE  PipelineIInv'
<1>1. /\ TypeOK /\ Control /\ TagRecords /\ EngineRecords /\ FetchTags /\ EngineKnown
      /\ ReadIsCurrent /\ TilesArrive
  BY DEF PipelineIInv
<1>2. FetchTags'
  <2> SUFFICES ASSUME NEW s \in Sides, NEW o \in Operands, Pending(s, o)'
               PROVE  /\ tags'[FetchTag(s, o)].from = DueTile(s, o)'
                      /\ tags'[FetchTag(s, o)].to = Buffer(s, o)
    BY DEF FetchTags
  <2>1. CASE tag = FetchTag(s, o)
    BY <2>1
  <2>2. CASE tag # FetchTag(s, o)
    BY <1>1, <2>2, PlacesExist DEF FetchTags
  <2> QED BY <2>1, <2>2
<1>3. EngineKnown'
  <2> SUFFICES ASSUME NEW x \in engine'
               PROVE  \/ IsStore(x)'
                      \/ \E s \in Sides, o \in Operands : Pending(s, o)' /\ IsFetch(x, s, o)'
    BY DEF EngineKnown
  <2>1. CASE x = new
    BY <2>1
  <2>2. CASE x \in engine
    <3>1. PICK s \in Sides, o \in Operands : Pending(s, o) /\ IsFetch(x, s, o)
      BY <1>1, <2>2 DEF EngineKnown, IsStore
    <3>2. Pending(s, o)' /\ tags'[FetchTag(s, o)] = tags[FetchTag(s, o)]
      BY <3>1, PlacesExist
    <3>3. IsFetch(x, s, o)'
      BY <3>1, <3>2 DEF IsFetch
    <3> QED BY <3>2, <3>3
  <2> QED BY <2>1, <2>2
<1>4. ReadIsCurrent'
  BY <1>1 DEF ReadIsCurrent
<1>5. TilesArrive'
  <2> SUFFICES ASSUME NEW s \in Sides, NEW o \in Operands, Loaded(s, o)'
               PROVE  \/ InFlight(FetchTag(s, o))'
                      \/ memory'[Buffer(s, o)] = memory'[DueTile(s, o)']
    BY DEF TilesArrive
  <2>1. CASE tag = FetchTag(s, o)
    <3>1. IsFetch(new, s, o)'
      BY <2>1
    <3> QED BY <3>1 DEF IsFetch, InFlight
  <2>2. CASE tag # FetchTag(s, o)
    <3>1. InFlight(FetchTag(s, o)) \/ memory[Buffer(s, o)] = memory[DueTile(s, o)]
      BY <1>1, <2>2 DEF TilesArrive
    <3>2. tags'[FetchTag(s, o)] = tags[FetchTag(s, o)]
      BY <2>2, PlacesExist
    <3> QED BY <3>1, <3>2 DEF InFlight
  <2> QED BY <2>1, <2>2
<1> QED BY <1>2, <1>3, <1>4, <1>5 DEF PipelineIInv

\* Asking for a tile.
LEMMA StartFetchKeeps ==
    ASSUME PipelineIInv, Prologue \/ Prefetch, ~Idle
    PROVE  PipelineIInv'
<1>1. /\ TypeOK /\ Control
  BY DEF PipelineIInv
<1>2. /\ UNCHANGED <<loop, iv, toggle, toggleVal, side, memory, pc>> /\ index' = index + 1
      /\ index \in Operands
      /\ \/ /\ pc = "prologue" /\ iv < loop.ub
            /\ Start(View(index, loop.lb), Buffer("ping", index), FetchTag("ping", index))
         \/ /\ pc = "prefetch" /\ nextExists
            /\ Start(View(index, iv + step), Buffer(NextSide(side), index),
                     NextTag(side, index))
  BY <1>1, LoopFacts DEF Prologue, Prefetch, Stay, Control
<1>3. PICK s \in Sides, o \in Operands :
         /\ o = index /\ s = (IF pc = "prologue" THEN Kern ELSE Other(Kern))
  BY <1>2 DEF Kern, Other, Sides
<1>4. Start(DueTile(s, o), Buffer(s, o), FetchTag(s, o))
  <2>1. CASE pc = "prologue"
    <3>1. Kern = "ping" /\ iv = loop.lb
      BY <1>1, <2>1, LoopFacts DEF Control, Kern
    <3> QED BY <1>2, <1>3, <2>1, <3>1 DEF DueTile, Due
  <2>2. CASE pc = "prefetch"
    <3>1. side = Kern /\ Other(Kern) # Kern
      BY <1>1, <2>2 DEF Control, InKernel, Kern, Other
    <3> QED BY <1>2, <1>3, <2>2, <3>1 DEF DueTile, Due, NextSide, NextTag
  <2> QED BY <1>2, <2>1, <2>2
<1>5. Kern' = Kern /\ nextExists' = nextExists
  BY <1>2 DEF Kern, nextExists
<1>6. s = Kern <=> pc = "prologue"
  BY <1>2, <1>3 DEF Kern, Other
<1>7. DueTile(s, o) \in Locations /\ Buffer(s, o) \in Locations /\ FetchTag(s, o) \in TagIds
  BY <1>1, <1>2, <1>6, DueTileExists, PlacesExist
<1>8. PICK new : /\ engine' = engine \cup {new} /\ issued' = issued + 1
                 /\ new.id = issued' /\ new.from = DueTile(s, o) /\ new.to = Buffer(s, o)
                 /\ ~new.read
                 /\ tags'[FetchTag(s, o)] = [id |-> new.id, from |-> DueTile(s, o),
                                             to |-> Buffer(s, o)]
                 /\ \A t \in TagIds : t # FetchTag(s, o) => tags'[t] = tags[t]
                 /\ TagRecords' /\ EngineRecords'
  <2>1. PICK tag \in TagIds, from \in Locations, to \in Locations :
           tag = FetchTag(s, o) /\ from = DueTile(s, o) /\ to = Buffer(s, o)
    BY <1>7
  <2>2. Start(from, to, tag)
    BY <1>4, <2>1
  <2> QED BY <2>1, <2>2, StartAdds
<1>9. /\ tags'[FetchTag(s, o)].id = new.id /\ tags'[FetchTag(s, o)].from = DueTile(s, o)
      /\ tags'[FetchTag(s, o)].to = Buffer(s, o)
  BY <1>8
<1>10. \A t, p : DueTile(t, p)' = DueTile(t, p)
  BY <1>2, <1>5 DEF DueTile, Due, View, Single!View
<1>11. IsFetch(new, s, o)'
  BY <1>8, <1>9, <1>10 DEF IsFetch
<1>12. \A t \in Sides, p \in Operands :
          /\ Pending(t, p) <=> IF t = Kern THEN \/ pc = "prologue" /\ p < index
                                                \/ pc = "prefetch"
                               ELSE pc = "prefetch" /\ p < index
          /\ Pending(t, p)' <=> IF t = Kern THEN \/ pc = "prologue" /\ p < index + 1
                                                 \/ pc = "prefetch"
                                ELSE pc = "prefetch" /\ p < index + 1
          /\ Loaded(t, p)' <=> Pending(t, p)'
  <2>1. pc = "prefetch" => iv < loop.ub /\ nextExists
    BY <1>1, <1>2 DEF Control
  <2> QED BY <1>2, <1>5, <2>1 DEF Pending, Loaded, BeforeKernel, AfterWaits
<1>13. /\ Pending(s, o)' /\ ~Pending(s, o)
       /\ \A t \in Sides, p \in Operands : t # s \/ p # o =>
             /\ Pending(t, p)' <=> Pending(t, p)
             /\ Loaded(t, p)' => Loaded(t, p)
  <2>1. \A p \in Operands : p \in Nat /\ (p < index + 1 <=> p < index \/ p = index)
    BY <1>2, ConstantFacts
  <2>2. \A t \in Sides : t = s <=> (t = Kern <=> pc = "prologue")
    BY <1>2, <1>3 DEF Sides, Other, Kern
  <2>3. ~(index < index) /\ index < index + 1
    BY <1>2, ConstantFacts
  <2>4. \A t \in Sides, p \in Operands : t # s \/ p # o => (Pending(t, p)' <=> Pending(t, p))
    BY <1>2, <1>3, <1>12, <2>1, <2>2
  <2>5. Pending(s, o)' /\ ~Pending(s, o)
    BY <1>2, <1>3, <1>6, <1>12, <2>3
  <2> QED BY <1>12, <2>4, <2>5 DEF Loaded
<1>14. TypeOK'
  <2>1. index' \in 1 .. NumOperands + Len(Stored) + 1
    BY <1>2, ConstantFacts
  <2>2. issued \in Nat /\ issued' \in Nat /\ issued' = issued + 1
    BY <1>8 DEF PipelineIInv, TagRecords
  <2>3. \A x \in engine' : {x.from, x.to} \subseteq Locations /\ x.id \in 1 .. issued'
    <3>1. \A x \in engine : {x.from, x.to} \subseteq Locations /\ x.id \in 1 .. issued
      BY <1>1 DEF TypeOK
    <3>2. \A j \in 1 .. issued : j \in 1 .. issued'
      BY <2>2
    <3>3. issued' \in 1 .. issued'
      BY <2>2
    <3> QED BY <1>7, <1>8, <3>1, <3>2, <3>3
  <2> QED BY <1>1, <1>2, <2>1, <2>3 DEF TypeOK, Locations
<1>15. Control'
  <2>1. index' <= NumOperands + 1 /\ pc \in {"prologue", "prefetch"} /\ pc' = pc
    BY <1>2, ConstantFacts
  <2>2. pc = "prologue" => ~(iv >= loop.ub)
    BY <1>1, <1>2, LoopFacts
  <2> QED BY <1>1, <1>2, <1>5, <2>1, <2>2 DEF Control, InKernel
<1>16. \A t \in Sides, p \in Operands : FetchTag(s, o) = FetchTag(t, p) => t = s /\ p = o
  BY PlacesApart
<1>17. pc # "storeWait" /\ UNCHANGED memory
  BY <1>2
<1>18. PICK tag \in TagIds : tag = FetchTag(s, o)
  BY <1>7
<1> QED BY <1>8, <1>9, <1>10, <1>11, <1>13, <1>14, <1>15, <1>16, <1>17, <1>18, StartFrame

\* Starting a store.
LEMMA StartStoreKeeps ==
    ASSUME PipelineIInv, StartStore
    PROVE  PipelineIInv'
<1>1. TypeOK /\ Control
  BY DEF PipelineIInv
<1>2. /\ pc = "store" /\ pc' = "storeWait"
      /\ UNCHANGED <<loop, iv, toggle, toggleVal, side, index, memory>>
      /\ Start(StoreFrom, StoreTo, StoreTag(side, index))
  BY DEF StartStore, StoreFrom, StoreTo
<1>3. /\ index \in 1 .. Len(Stored) /\ Stored[index] \in Operands /\ side \in Sides
      /\ iv \in 0 .. loop.ub
  BY <1>1, <1>2, ConstantFacts, LoopFacts DEF TypeOK, Control
<1>4. StoreFrom \in Locations /\ StoreTo \in Locations /\ StoreTag(side, index) \in TagIds
  <2>1. PICK i \in 0 .. loop.ub, o \in Operands : i = iv /\ o = Stored[index]
    BY <1>3
  <2>2. View(o, i) \in Locations /\ Buffer(side, o) \in Locations
    BY <1>1, <1>3, ViewsInDDR, PlacesExist, LoopFacts
  <2> QED BY <1>3, <2>1, <2>2, PlacesExist DEF StoreFrom, StoreTo
<1>5. PICK tag \in TagIds : tag = StoreTag(side, index)
  BY <1>4
<1>6. PICK new : /\ engine' = engine \cup {new} /\ issued' = issued + 1
                 /\ new.id = issued' /\ new.from = StoreFrom /\ new.to = StoreTo
                 /\ ~new.read
                 /\ tags'[tag] = [id |-> new.id, from |-> StoreFrom, to |-> StoreTo]
                 /\ \A t \in TagIds : t # tag => tags'[t] = tags[t]
                 /\ TagRecords' /\ EngineRecords'
  <2>1. PICK from \in Locations, to \in Locations : from = StoreFrom /\ to = StoreTo
    BY <1>4
  <2>2. Start(from, to, tag)
    BY <1>2, <1>5, <2>1
  <2> QED BY <2>1, <2>2, StartAdds
<1>7. IsStore(new)'
  <2>1. tags'[tag].id = new.id
    BY <1>6
  <2>2. StoreFrom' = StoreFrom /\ StoreTo' = StoreTo
    BY <1>2 DEF StoreFrom, StoreTo, View, Single!View
  <2>3. tag = StoreTag(side', index')
    BY <1>2, <1>5
  <2> QED BY <1>2, <1>6, <2>1, <2>2, <2>3 DEF IsStore
<1>8. Kern' = Kern /\ nextExists' = nextExists
  BY <1>2 DEF Kern, nextExists
<1>9. \A s \in Sides, o \in Operands :
         /\ DueTile(s, o)' = DueTile(s, o)
         /\ Pending(s, o)' <=> Pending(s, o)
         /\ Loaded(s, o)' <=> Loaded(s, o)
         /\ tag # FetchTag(s, o)
  <2>1. \A s, o : DueTile(s, o)' = DueTile(s, o)
    BY <1>2, <1>8 DEF DueTile, Due, View, Single!View
  <2>2. \A s, o : (Pending(s, o)' <=> Pending(s, o)) /\ (Loaded(s, o)' <=> Loaded(s, o))
    BY <1>2, <1>8 DEF Pending, Loaded, BeforeKernel, AfterWaits
  <2> QED BY <1>5, <2>1, <2>2, PlacesApart
<1>10. TypeOK'
  <2>1. issued \in Nat /\ issued' \in Nat /\ issued' = issued + 1
    BY <1>6 DEF PipelineIInv, TagRecords
  <2>2. \A x \in engine' : {x.from, x.to} \subseteq Locations /\ x.id \in 1 .. issued'
    <3>1. \A x \in engine : {x.from, x.to} \subseteq Locations /\ x.id \in 1 .. issued
      BY <1>1 DEF TypeOK
    <3>2. \A j \in 1 .. issued : j \in 1 .. issued'
      BY <2>1
    <3>3. issued' \in 1 .. issued'
      BY <2>1
    <3> QED BY <1>4, <1>6, <3>1, <3>2, <3>3
  <2> QED BY <1>1, <1>2, <2>2 DEF TypeOK, Locations
<1>11. Control'
  BY <1>1, <1>2, <1>8 DEF Control, InKernel
<1>12. pc # "storeWait" /\ UNCHANGED memory
  BY <1>2
<1> QED BY <1>6, <1>7, <1>9, <1>10, <1>11, <1>12, StartFrame

-----------------------------------------------------------------------------
(***************************************************************************)
(* The engine.                                                              *)
(***************************************************************************)
\* A step of the engine leaves the program where it is.
LEMMA ProgramStays ==
    ASSUME UNCHANGED <<program, tags, issued>>
    PROVE  /\ \A s, o : /\ DueTile(s, o)' = DueTile(s, o)
                        /\ Pending(s, o)' <=> Pending(s, o)
                        /\ Loaded(s, o)' <=> Loaded(s, o)
           /\ \A x, s, o : IsFetch(x, s, o)' <=> IsFetch(x, s, o)
           /\ \A x : IsStore(x)' <=> IsStore(x)
           /\ Control => Control'
           /\ TagRecords => TagRecords'
           /\ FetchTags => FetchTags'
<1>1. UNCHANGED <<loop, iv, pc, toggle, toggleVal, side, index, tags, issued>>
  BY DEF program
<1>2. Kern' = Kern /\ nextExists' = nextExists
  BY <1>1 DEF Kern, nextExists
<1>3. \A s, o : DueTile(s, o)' = DueTile(s, o)
  BY <1>1, <1>2 DEF DueTile, Due, View, Single!View
<1>4. \A s, o : (Pending(s, o)' <=> Pending(s, o)) /\ (Loaded(s, o)' <=> Loaded(s, o))
  BY <1>1, <1>2 DEF Pending, Loaded, BeforeKernel, AfterWaits
<1>5. \A x, s, o : IsFetch(x, s, o)' <=> IsFetch(x, s, o)
  BY <1>1, <1>3 DEF IsFetch
<1>6. \A x : IsStore(x)' <=> IsStore(x)
  BY <1>1 DEF IsStore, StoreFrom, StoreTo, View, Single!View
<1>7. Control => Control'
  BY <1>1, <1>2 DEF Control, InKernel
<1>8. TagRecords => TagRecords'
  BY <1>1 DEF TagRecords
<1>9. FetchTags => FetchTags'
  BY <1>1, <1>3, <1>4 DEF FetchTags
<1> QED BY <1>3, <1>4, <1>5, <1>6, <1>7, <1>8, <1>9

\* A transfer reads its source.
LEMMA ReadKeeps ==
    ASSUME PipelineIInv, NEW x \in engine, EngineRead(x)
    PROVE  PipelineIInv'
<1>1. UNCHANGED <<program, memory, tags, issued>>
  BY DEF EngineRead
<1>2. /\ TypeOK /\ Control /\ TagRecords /\ EngineRecords /\ FetchTags /\ EngineKnown
      /\ ReadIsCurrent /\ TilesArrive
  BY DEF PipelineIInv
<1>3. PICK d : d = memory[x.from]
  OBVIOUS
<1>4. PICK y : y = [x EXCEPT !.read = TRUE, !.data = d] /\ engine' = (engine \ {x}) \cup {y}
  BY <1>3 DEF EngineRead
<1>5. /\ y.id = x.id /\ y.from = x.from /\ y.to = x.to /\ y.data = memory[y.from]
      /\ y = [id |-> y.id, from |-> y.from, to |-> y.to, read |-> y.read, data |-> y.data]
  <2>1. PICK i, f, t, r, e :
           /\ x = [id |-> i, from |-> f, to |-> t, read |-> r, data |-> e]
           /\ i = x.id /\ f = x.from /\ t = x.to
    BY <1>2 DEF EngineRecords
  <2>2. y.id = i /\ y.from = f /\ y.to = t /\ y.data = d
    BY <1>4, <2>1
  <2>3. y = [id |-> y.id, from |-> y.from, to |-> y.to, read |-> y.read, data |-> y.data]
    BY <1>4, <2>1
  <2> QED BY <1>3, <2>1, <2>2, <2>3
<1>6. EngineRecords'
  <2>1. \A z \in engine' : z = y \/ z \in engine
    BY <1>4
  <2>2. \A z \in engine' : z # y => z.id # y.id
    BY <1>2, <1>4, <1>5 DEF EngineRecords
  <2>3. y.id \in Nat \ {0}
    BY <1>2, <1>5 DEF EngineRecords
  <2>4. \A z \in engine' : z = [id |-> z.id, from |-> z.from, to |-> z.to,
                                read |-> z.read, data |-> z.data]
    BY <1>2, <1>5, <2>1 DEF EngineRecords
  <2>5. \A z, u \in engine' : z.id = u.id => z = u
    BY <1>2, <2>1, <2>2 DEF EngineRecords
  <2> QED BY <1>2, <2>1, <2>3, <2>4, <2>5 DEF EngineRecords
<1>7. TypeOK'
  BY <1>1, <1>2, <1>4, <1>5 DEF TypeOK, Locations, program
<1>8. ReadIsCurrent'
  BY <1>1, <1>2, <1>4, <1>5 DEF ReadIsCurrent
<1>9. EngineKnown'
  <2>1. \A z \in engine' : \E u \in engine : z.id = u.id /\ z.from = u.from /\ z.to = u.to
    BY <1>4, <1>5
  <2>2. \A z, u : z.id = u.id /\ z.from = u.from /\ z.to = u.to =>
           /\ IsStore(z) <=> IsStore(u)
           /\ \A s, o : IsFetch(z, s, o) <=> IsFetch(u, s, o)
    BY DEF IsStore, IsFetch
  <2> SUFFICES ASSUME NEW z \in engine'
               PROVE  \/ IsStore(z)'
                      \/ \E s \in Sides, o \in Operands : Pending(s, o)' /\ IsFetch(z, s, o)'
    BY DEF EngineKnown
  <2>3. PICK u \in engine : z.id = u.id /\ z.from = u.from /\ z.to = u.to
    BY <2>1
  <2>4. CASE IsStore(u)
    BY <1>1, <2>2, <2>3, <2>4, ProgramStays
  <2>5. CASE ~IsStore(u)
    <3>1. PICK s \in Sides, o \in Operands : Pending(s, o) /\ IsFetch(u, s, o)
      BY <1>2, <2>5 DEF EngineKnown
    <3> QED BY <1>1, <2>2, <2>3, <3>1, ProgramStays
  <2> QED BY <2>4, <2>5
<1>10. TilesArrive'
  <2>1. \A t : InFlight(t) => InFlight(t)'
    BY <1>1, <1>4, <1>5 DEF InFlight
  <2> QED BY <1>1, <1>2, <2>1, ProgramStays DEF TilesArrive
<1> QED BY <1>1, <1>2, <1>6, <1>7, <1>8, <1>9, <1>10, ProgramStays DEF PipelineIInv

\* A transfer writes its destination, and is over.
LEMMA WriteKeeps ==
    ASSUME PipelineIInv, ResultsAdvance(loop), NEW x \in engine, EngineWrite(x)
    PROVE  PipelineIInv'
<1>1. /\ UNCHANGED <<program, tags, issued>> /\ x.read
      /\ memory' = [memory EXCEPT ![x.to] = x.data] /\ engine' = engine \ {x}
  BY DEF EngineWrite
<1>2. /\ TypeOK /\ Control /\ TagRecords /\ EngineRecords /\ FetchTags /\ EngineKnown
      /\ ReadIsCurrent /\ TilesArrive
  BY DEF PipelineIInv
<1>3. /\ DOMAIN memory = Locations /\ DOMAIN memory' = Locations /\ x.to \in Locations
      /\ memory'[x.to] = x.data
      /\ \A w \in Locations : w # x.to => memory'[w] = memory[w]
  BY <1>1, <1>2 DEF TypeOK
<1>4. TypeOK'
  BY <1>1, <1>2, <1>3 DEF TypeOK, Locations, program
<1>5. EngineRecords'
  BY <1>1, <1>2 DEF EngineRecords
<1>6. EngineKnown'
  <2> SUFFICES ASSUME NEW z \in engine'
               PROVE  \/ IsStore(z)'
                      \/ \E s \in Sides, o \in Operands : Pending(s, o)' /\ IsFetch(z, s, o)'
    BY DEF EngineKnown
  <2>1. CASE IsStore(z)
    BY <1>1, <2>1, ProgramStays
  <2>2. CASE ~IsStore(z)
    <3>1. PICK s \in Sides, o \in Operands : Pending(s, o) /\ IsFetch(z, s, o)
      BY <1>1, <1>2, <2>2 DEF EngineKnown
    <3> QED BY <1>1, <3>1, ProgramStays
  <2> QED BY <2>1, <2>2
<1>7. ReadIsCurrent'
  <2> SUFFICES ASSUME NEW z \in engine, z # x, z.read PROVE z.data = memory'[z.from]
    BY <1>1 DEF ReadIsCurrent
  <2>1. z.id # x.id
    BY <1>2 DEF EngineRecords
  <2>2. z.from # x.to /\ z.from \in Locations
    BY <1>2, <2>1, TransfersApart DEF NoRace, TypeOK
  <2> QED BY <1>2, <1>3, <2>2 DEF ReadIsCurrent
<1>8. TilesArrive'
  <2> SUFFICES ASSUME NEW t \in Sides, NEW p \in Operands, Loaded(t, p)
               PROVE  \/ InFlight(FetchTag(t, p))'
                      \/ memory'[Buffer(t, p)] = memory'[DueTile(t, p)]
    BY <1>1, ProgramStays DEF TilesArrive
  <2>1. /\ DueTile(t, p) \in Locations /\ Buffer(t, p) \in Locations
        /\ DueTile(t, p) # Buffer(t, p) /\ FetchTag(t, p) \in TagIds
    BY <1>2, LoadedExists, PlacesExist, DueTileIsNoBuffer
  <2>2. InFlight(FetchTag(t, p)) \/ memory[Buffer(t, p)] = memory[DueTile(t, p)]
    BY <1>2 DEF TilesArrive
  <2>3. x.id # tags[FetchTag(t, p)].id /\ InFlight(FetchTag(t, p))
           => InFlight(FetchTag(t, p))'
    BY <1>1 DEF InFlight
  <2>4. CASE IsStore(x)
    <3>1. x.to = StoreTo /\ x.id = tags[StoreTag(side, index)].id /\ pc = "storeWait"
      BY <2>4 DEF IsStore
    <3>2. t # Kern
      BY <3>1 DEF Loaded, Pending, BeforeKernel
    <3>3. index \in 1 .. Len(Stored) /\ side \in Sides /\ iv + step # iv
      BY <1>2, <3>1, LoopFacts, ConstantFacts DEF TypeOK, Control
    <3>4. DueTile(t, p) # x.to
      <4>1. PICK i, j : i = iv /\ j = iv + step
        OBVIOUS
      <4>2. View(Stored[index], i) # View(p, j)
        BY <3>3, <4>1, ViewsApart
      <4> QED BY <3>1, <3>2, <4>1, <4>2 DEF DueTile, Due, StoreTo
    <3>5. Buffer(t, p) # x.to
      BY <3>1, PlacesApart DEF StoreTo
    <3>6. x.id # tags[FetchTag(t, p)].id
      <4>1. StoreTag(side, index) \in TagIds /\ StoreTag(side, index) # FetchTag(t, p)
        BY <3>3, PlacesExist, PlacesApart
      <4>2. x.id # 0
        BY <1>2 DEF EngineRecords
      <4> QED BY <1>2, <2>1, <3>1, <4>1, <4>2 DEF TagRecords
    <3> QED BY <1>3, <2>1, <2>2, <2>3, <3>4, <3>5, <3>6
  <2>5. CASE ~IsStore(x)
    <3>1. PICK s \in Sides, o \in Operands : Pending(s, o) /\ IsFetch(x, s, o)
      BY <1>2, <2>5 DEF EngineKnown
    <3>2. /\ x.to = Buffer(s, o) /\ x.from = DueTile(s, o)
          /\ x.id = tags[FetchTag(s, o)].id /\ FetchTag(s, o) \in TagIds
      BY <3>1, PlacesExist DEF IsFetch
    <3>3. DueTile(t, p) # x.to
      BY <3>2, DueTileIsNoBuffer
    <3>4. CASE s = t /\ o = p
      <4>1. x.data = memory[DueTile(t, p)]
        BY <1>1, <1>2, <3>2, <3>4 DEF ReadIsCurrent
      <4> QED BY <1>3, <2>1, <3>2, <3>3, <3>4, <4>1
    <3>5. CASE ~(s = t /\ o = p)
      <4>1. Buffer(t, p) # x.to /\ FetchTag(t, p) # FetchTag(s, o)
        BY <3>2, <3>5, PlacesApart
      <4>2. x.id # 0
        BY <1>2 DEF EngineRecords
      <4>3. x.id # tags[FetchTag(t, p)].id
        BY <1>2, <2>1, <3>2, <4>1, <4>2 DEF TagRecords
      <4> QED BY <1>3, <2>1, <2>2, <2>3, <3>3, <4>1, <4>3
    <3> QED BY <3>4, <3>5
  <2> QED BY <2>4, <2>5
<1> QED BY <1>1, <1>2, <1>4, <1>5, <1>6, <1>7, <1>8, ProgramStays DEF PipelineIInv

-----------------------------------------------------------------------------
\* Before the first fetch nothing is under way.
LEMMA InitEstablishesPipeline == Init => PipelineIInv
<1> SUFFICES ASSUME Init PROVE PipelineIInv
  OBVIOUS
<1>1. /\ loop \in Loops /\ generateSchedule(loop) /\ iv = loop.lb
      /\ pc = "prologue" /\ index = 1 /\ toggle = TRUE /\ toggleVal = TRUE /\ side = "ping"
      /\ tags = [t \in TagIds |-> NoTransfer] /\ engine = {} /\ issued = 0
      /\ DOMAIN memory = Locations
  BY DEF Init, Locations
<1>2. loop.lb = 0 /\ loop.ub \in Nat /\ step \in Nat \ {0}
  BY <1>1, ConstantFacts DEF generateSchedule, isZeroBasedEvenlyDivisible
<1>3. TypeOK
  <2>1. 0 % step = 0
    BY <1>2
  <2> QED BY <1>1, <1>2, <2>1, ConstantFacts DEF TypeOK, Sides
<1>4. Control
  BY <1>1, <1>2, ConstantFacts DEF Control, InKernel
<1>5. TagRecords
  <2>1. NoTransfer \in [id : Nat, from : Places, to : Places] /\ NoTransfer.id = 0
    BY DEF NoTransfer, Places
  <2> QED BY <1>1, <2>1 DEF TagRecords
<1>6. \A s \in Sides, o \in Operands : ~Pending(s, o) /\ ~Loaded(s, o)
  BY <1>1, ConstantFacts DEF Pending, Loaded, BeforeKernel, AfterWaits
<1> QED BY <1>1, <1>3, <1>4, <1>5, <1>6
        DEF PipelineIInv, EngineRecords, FetchTags, EngineKnown, ReadIsCurrent, TilesArrive

\* Every statement and every step of the engine keeps the invariant of a loop
\* whose results advance.
LEMMA NextKeepsPipeline ==
    PipelineIInv /\ LoopAdvances /\ [Next]_vars => PipelineIInv'
<1> SUFFICES ASSUME PipelineIInv, LoopAdvances, [Next]_vars PROVE PipelineIInv'
  OBVIOUS
<1>1. ResultsAdvance(loop)
  BY DEF LoopAdvances
<1>2. CASE Prologue \/ Prefetch
  BY <1>2, FetchesEnd, StartFetchKeeps
<1>3. CASE LoopHead \/ EnterKernel \/ StoreToggle
  BY <1>3, BetweenKeeps
<1>4. CASE WaitFetch \/ WaitStore
  BY <1>4, WaitsKeep
<1>5. CASE NextIteration
  BY <1>5, NextIterationKeeps
<1>6. CASE Compute
  BY <1>6, ComputeKeeps
<1>7. CASE StartStore
  BY <1>7, StartStoreKeeps
<1>8. CASE Engine
  BY <1>1, <1>8, ReadKeeps, WriteKeeps DEF Engine
<1>9. CASE UNCHANGED vars
  <2>1. UNCHANGED <<program, memory, tags, engine, issued>>
    BY <1>9 DEF vars
  <2>2. TypeOK'
    BY <2>1 DEF PipelineIInv, TypeOK, Locations, program
  <2>3. EngineRecords' /\ ReadIsCurrent'
    BY <2>1 DEF PipelineIInv, EngineRecords, ReadIsCurrent
  <2>4. EngineKnown' /\ TilesArrive'
    BY <2>1, ProgramStays DEF PipelineIInv, EngineKnown, TilesArrive, InFlight
  <2> QED BY <2>1, <2>2, <2>3, <2>4, ProgramStays DEF PipelineIInv
<1> QED BY <1>2, <1>3, <1>4, <1>5, <1>6, <1>7, <1>8, <1>9 DEF Next, Kernel

\* The program stays with its loop.
LEMMA NextKeepsAdvance ==
    LoopAdvances /\ [Next]_vars => LoopAdvances'
<1> SUFFICES ASSUME LoopAdvances, [Next]_vars PROVE LoopAdvances'
  OBVIOUS
<1>1. loop' = loop
  BY DEF Next, Kernel, Engine, Prologue, LoopHead, EnterKernel, Prefetch, WaitFetch, Compute, StartStore,
         WaitStore, StoreToggle, NextIteration, EngineRead, EngineWrite, program, vars
<1> QED BY <1>1 DEF LoopAdvances, ResultsAdvance

\* The strengthened invariant holds in every state of a loop whose results advance.
LEMMA PipelineInvariant ==
    Spec /\ LoopAdvances => [](PipelineIInv /\ LoopAdvances)
  BY InitEstablishesPipeline, NextKeepsPipeline, NextKeepsAdvance, PTL DEF Spec

\* Every wait of a kernel is for the transfer that brings the tile of this
\* iteration to its buffer, and no transfer meets another one, or the
\* computation, in a buffer or a tile: for every number of operands and
\* stores, tile size and bound, in whatever order the engine works, as long as
\* the results of the loop advance.
THEOREM PipelineIsSafe ==
    Spec /\ LoopAdvances => []PipelineInv
<1>1. ASSUME PipelineIInv, LoopAdvances PROVE PipelineInv
  <2>1. ResultsAdvance(loop)
    BY <1>1 DEF LoopAdvances
  <2>2. TagNamesThisTile
    <3> SUFFICES ASSUME pc = "wait"
                 PROVE  /\ tags[FetchTag(side, index)].from = View(index, iv)
                        /\ tags[FetchTag(side, index)].to = Buffer(side, index)
      BY DEF TagNamesThisTile
    <3>1. side = Kern /\ side \in Sides /\ index \in Operands
      BY <1>1, ConstantFacts DEF PipelineIInv, Control, InKernel, TypeOK
    <3>2. Pending(side, index)
      BY <3>1, ConstantFacts DEF Pending
    <3>3. /\ tags[FetchTag(side, index)].from = DueTile(side, index)
          /\ tags[FetchTag(side, index)].to = Buffer(side, index)
      BY <1>1, <3>1, <3>2 DEF PipelineIInv, FetchTags
    <3> QED BY <3>1, <3>3 DEF DueTile, Due
  <2> QED BY <1>1, <2>1, <2>2, TransfersApart DEF PipelineInv, PipelineIInv
<1> QED BY <1>1, PipelineInvariant, PTL

\* After a loop whose results advance no transfer is under way, so the buffers
\* and the tags can be deallocated.
THEOREM ExitIsQuiet ==
    Spec /\ LoopAdvances => []QuietAtExit
<1>1. ASSUME PipelineIInv PROVE QuietAtExit
  <2> SUFFICES ASSUME pc = "done", NEW x \in engine PROVE FALSE
    BY DEF QuietAtExit
  <2>1. ~IsStore(x) /\ \A s, o : ~Pending(s, o)
    BY DEF IsStore, Pending, BeforeKernel, AfterWaits
  <2> QED BY <1>1, <2>1 DEF PipelineIInv, EngineKnown
<1> QED BY <1>1, PipelineInvariant, PTL

-----------------------------------------------------------------------------
(***************************************************************************)
(* The single-buffered loop that the pipeline implements.                   *)
(***************************************************************************)
\* What the rest of a sequence is.
Suffix(e, n) == [k \in 1 .. Len(Stored) - n |-> e[n + k]]

\* What is left of a sequence of results, as the plain loop stores them one by one.
LEMMA SuffixFacts ==
    ASSUME NEW S, NEW e \in [1 .. Len(Stored) -> S], NEW n \in 0 .. Len(Stored)
    PROVE  /\ n = Len(Stored) => Suffix(e, n) = <<>>
           /\ n < Len(Stored) =>
                 /\ Suffix(e, n) # <<>> /\ Len(Suffix(e, n)) = Len(Stored) - n
                 /\ Head(Suffix(e, n)) = e[n + 1]
                 /\ Tail(Suffix(e, n)) = Suffix(e, n + 1)
<1> PICK K \in Nat : K = Len(Stored)
  BY ConstantFacts
<1>1. ASSUME NEW m \in 0 .. K
      PROVE  /\ Suffix(e, m) \in Seq(S) /\ Len(Suffix(e, m)) = K - m
             /\ \A k \in 1 .. K - m : Suffix(e, m)[k] = e[m + k]
  <2>1. \A k \in 1 .. K - m : m + k \in 1 .. K
    OBVIOUS
  <2>2. PICK f : f = [k \in 1 .. K - m |-> e[m + k]]
    OBVIOUS
  <2>3. f \in [1 .. K - m -> S] /\ \A k \in 1 .. K - m : f[k] = e[m + k]
    BY <2>1, <2>2
  <2>4. PICK M \in Nat : M = K - m
    <3>1. K - m \in Nat
      OBVIOUS
    <3> QED BY <3>1
  <2>5. f \in [1 .. M -> S]
    BY <2>3, <2>4
  <2>6. f \in Seq(S) /\ Len(f) = M
    BY <2>5
  <2> QED BY <2>2, <2>3, <2>4, <2>6 DEF Suffix
<1>2. CASE n = K
  <2>1. Suffix(e, n) \in Seq(S) /\ Len(Suffix(e, n)) = 0
    BY <1>1, <1>2
  <2>2. Suffix(e, n) = <<>>
    BY <2>1
  <2> QED BY <1>2, <2>2
<1>3. CASE n < K
  <2>1. n + 1 \in 0 .. K
    BY <1>3
  <2>2. PICK r, t : r = Suffix(e, n) /\ t = Suffix(e, n + 1)
    OBVIOUS
  <2>3. /\ r \in Seq(S) /\ Len(r) = K - n /\ \A k \in 1 .. K - n : r[k] = e[n + k]
        /\ t \in Seq(S) /\ Len(t) = K - (n + 1)
        /\ \A k \in 1 .. K - (n + 1) : t[k] = e[n + 1 + k]
    BY <1>1, <2>1, <2>2
  <2>4. r # <<>> /\ Head(r) = r[1] /\ Tail(r) \in Seq(S) /\ Len(Tail(r)) = K - n - 1
    BY <1>3, <2>3
  <2>5. \A i \in 1 .. K - n - 1 : Tail(r)[i] = r[i + 1]
    BY <1>3, <2>3
  <2>6. \A i \in 1 .. K - n - 1 : Tail(r)[i] = t[i]
    <3>1. \A i \in 1 .. K - n - 1 : i + 1 \in 1 .. K - n /\ n + (i + 1) = n + 1 + i
      BY <1>3
    <3> QED BY <2>3, <2>5, <3>1
  <2>7. Tail(r) = t
    BY <2>3, <2>4, <2>6
  <2>8. r[1] = e[n + 1]
    BY <1>3, <2>3
  <2> QED BY <1>3, <2>2, <2>3, <2>4, <2>7, <2>8
<1> QED BY <1>2, <1>3

\* The refinement mapping, its parts named.
AbsIv == IF kernelDone THEN iv + step ELSE iv
AbsDdr == [where \in {w \in DOMAIN memory : w[1] = "ddr"} |-> memory[where]]
AbsResults ==
    IF pc \in {"store", "storeWait"}
    THEN [k \in 1 .. Len(Stored) - storesDone |->
            memory[Buffer(side, Stored[storesDone + k])]]
    ELSE <<>>

\* The results that are not stored yet are in the buffers of the kernel.
OutBuffers == [j \in 1 .. Len(Stored) |-> memory[Buffer(side, Stored[j])]]

\* While the kernel stores, the stores done are those before the current one.
LEMMA StoresDoneRange ==
    ASSUME TypeOK, Control, pc \in {"store", "storeWait"}
    PROVE  /\ storesDone \in 0 .. Len(Stored) /\ index \in 1 .. Len(Stored)
           /\ pc = "store" => storesDone = index - 1
           /\ kernelDone <=> storesDone = Len(Stored)
<1> PICK K \in Nat : K = Len(Stored)
  BY ConstantFacts
<1>1. index \in 1 .. K
  BY ConstantFacts DEF TypeOK, Control
<1>2. storesDone = index \/ storesDone = index - 1
  BY DEF storesDone
<1>3. pc = "store" => storesDone = index - 1
  BY DEF storesDone
<1>4. kernelDone <=> storesDone = Len(Stored)
  BY DEF kernelDone
<1> QED BY <1>1, <1>2, <1>3, <1>4

\* The results the plain loop still has to store are those in the output buffers
\* from the next store on.
LEMMA AbsResultsIsSuffix ==
    ASSUME TypeOK, Control, pc \in {"store", "storeWait"}
    PROVE  /\ AbsResults = Suffix(OutBuffers, storesDone)
           /\ \E S : OutBuffers \in [1 .. Len(Stored) -> S]
<1>1. PICK n \in 0 .. Len(Stored) : n = storesDone
  BY StoresDoneRange
<1>2. \A k \in 1 .. Len(Stored) - n :
         n + k \in 1 .. Len(Stored) /\ OutBuffers[n + k] = memory[Buffer(side, Stored[n + k])]
  <2> PICK K \in Nat : K = Len(Stored)
    BY ConstantFacts
  <2>1. \A k \in 1 .. K - n : n + k \in 1 .. K
    OBVIOUS
  <2> QED BY <2>1 DEF OutBuffers
<1>3. AbsResults = [k \in 1 .. Len(Stored) - n |-> OutBuffers[n + k]]
  BY <1>1, <1>2 DEF AbsResults
<1>4. OutBuffers \in [1 .. Len(Stored) -> {memory[Buffer(side, Stored[j])] : j \in 1 .. Len(Stored)}]
  BY DEF OutBuffers
<1> QED BY <1>1, <1>3, <1>4 DEF Suffix

\* The memrefs are the places that are no buffers.
LEMMA DdrPlaces == {w \in Locations : w[1] = "ddr"} = Single!DDR
<1>1. ASSUME NEW w \in Single!DDR PROVE w[1] = "ddr"
  <2>1. PICK tiles : tiles = 0 .. Single!Max({l.ub + step : l \in Loops})
    OBVIOUS
  <2>2. w \in {<<"ddr", Memref[o], i>> : o \in Single!Operands, i \in tiles}
    BY <2>1 DEF Single!DDR
  <2>3. \E o \in Single!Operands, i \in tiles : w = <<"ddr", Memref[o], i>>
    BY <2>2
  <2> QED BY <2>3
<1>2. ASSUME NEW w \in Buffers PROVE w[1] = "vtcm"
  <2>1. PICK t, o : w = Buffer(t, o)
    BY DEF Buffers
  <2> QED BY <2>1 DEF Buffer
<1> QED BY <1>1, <1>2 DEF Locations

\* The memrefs the plain loop sees are those of the pipelined one.
LEMMA AbsDdrIsMemory ==
    ASSUME DOMAIN memory = Locations
    PROVE  /\ AbsDdr = [w \in Single!DDR |-> memory[w]]
           /\ \A w \in Single!DDR : w \in Locations
  BY DdrPlaces DEF AbsDdr, Locations

\* A step that leaves the memrefs alone.
LEMMA AbsDdrStays ==
    ASSUME DOMAIN memory = Locations, DOMAIN memory' = Locations,
           \A w \in Single!DDR : memory'[w] = memory[w]
    PROVE  AbsDdr' = AbsDdr
<1>1. AbsDdr = [w \in Single!DDR |-> memory[w]]
  BY AbsDdrIsMemory
<1>2. AbsDdr' = [w \in Single!DDR |-> memory'[w]]
  BY DdrPlaces DEF AbsDdr
<1> QED BY <1>1, <1>2

\* The results stay while their buffers and the stores that are over do.
LEMMA AbsResultsStay ==
    ASSUME TypeOK, Control, TypeOK', Control',
           pc \in {"store", "storeWait"}, pc' \in {"store", "storeWait"},
           storesDone' = storesDone, side' = side,
           \A k \in 1 .. Len(Stored) :
               memory'[Buffer(side, Stored[k])] = memory[Buffer(side, Stored[k])]
    PROVE  AbsResults' = AbsResults /\ (kernelDone' <=> kernelDone)
<1>1. PICK n \in 0 .. Len(Stored) : n = storesDone /\ n = storesDone'
  BY StoresDoneRange
<1>2. \A k \in 1 .. Len(Stored) - n : n + k \in 1 .. Len(Stored)
  <2> PICK K \in Nat : K = Len(Stored)
    BY ConstantFacts
  <2>1. \A k \in 1 .. K - n : n + k \in 1 .. K
    OBVIOUS
  <2> QED BY <2>1
<1>3. AbsResults = [k \in 1 .. Len(Stored) - n |-> memory[Buffer(side, Stored[n + k])]]
  BY <1>1 DEF AbsResults
<1>4. AbsResults' = [k \in 1 .. Len(Stored) - n |-> memory'[Buffer(side, Stored[n + k])]]
  BY <1>1 DEF AbsResults
<1>5. kernelDone' <=> kernelDone
  BY <1>1 DEF kernelDone
<1> QED BY <1>2, <1>3, <1>4, <1>5

\* A step that leaves the mapped variables alone stutters.
LEMMA Stutter ==
    ASSUME loop' = loop, AbsIv' = AbsIv, AbsDdr' = AbsDdr, AbsResults' = AbsResults
    PROVE  [Single!Next]_(Single!vars)
  BY DEF Single!vars, AbsIv, AbsDdr, AbsResults

\* Most statements are the pipeline's own business.
LEMMA QuietStutters ==
    ASSUME PipelineIInv,
           Prologue \/ LoopHead \/ EnterKernel \/ Prefetch \/ WaitFetch
             \/ StoreToggle \/ NextIteration
    PROVE  [Single!Next]_(Single!vars)
<1>1. UNCHANGED <<loop, memory>>
  BY DEF Prologue, LoopHead, EnterKernel, Prefetch, WaitFetch, StoreToggle, NextIteration
<1>2. /\ pc \notin {"store", "storeWait"} /\ pc' \notin {"store", "storeWait"}
      /\ AbsIv' = AbsIv
  <2>1. Control /\ TypeOK
    BY DEF PipelineIInv
  <2>2. CASE Prologue \/ LoopHead \/ Prefetch \/ WaitFetch
    BY <2>2 DEF Prologue, LoopHead, Prefetch, WaitFetch, Goto, Stay, AbsIv, kernelDone
  <2>3. CASE EnterKernel
    BY <2>3 DEF EnterKernel, Goto, AbsIv, kernelDone
  <2>4. CASE StoreToggle
    <3>1. toggleVal' = toggleVal /\ iv' = iv /\ pc = "toggle"
          /\ pc' = IF side = "ping" THEN "pong" ELSE "next"
      BY <2>4 DEF StoreToggle, Goto
    <3>2. side = "ping" => toggleVal
      BY <2>1, <3>1 DEF Control, InKernel, Kern
    <3> QED BY <3>1, <3>2 DEF AbsIv, kernelDone
  <2>5. CASE NextIteration
    BY <2>5 DEF NextIteration, Goto, AbsIv, kernelDone
  <2> QED BY <2>2, <2>3, <2>4, <2>5
<1>3. AbsResults' = AbsResults
  BY <1>2 DEF AbsResults
<1>4. AbsDdr' = AbsDdr
  BY <1>1 DEF AbsDdr
<1> QED BY <1>1, <1>2, <1>3, <1>4, Stutter

\* Starting a store and waiting for it.
LEMMA StoreWaitStutters ==
    ASSUME PipelineIInv, PipelineIInv', StartStore \/ WaitStore
    PROVE  [Single!Next]_(Single!vars)
<1>1. UNCHANGED <<loop, iv, toggleVal, side, memory>>
  BY DEF StartStore, WaitStore
<1>2. TypeOK /\ Control /\ TypeOK' /\ Control'
  BY DEF PipelineIInv
<1>3. AbsDdr' = AbsDdr
  BY <1>1 DEF AbsDdr
<1>4. CASE StartStore
  <2>1. /\ pc = "store" /\ pc' = "storeWait" /\ index' = index
        /\ Start(StoreFrom, StoreTo, StoreTag(side, index))
    BY <1>4 DEF StartStore, StoreFrom, StoreTo
  <2>2. StoreTag(side, index) \in TagIds
    BY <1>2, <2>1, StoresDoneRange, PlacesExist DEF TypeOK
  <2>3. \E x \in engine' : x.id = tags'[StoreTag(side, index)].id
    <3>1. PICK n : n = issued + 1
      OBVIOUS
    <3>2. PICK x : /\ x = [id |-> n, from |-> StoreFrom, to |-> StoreTo,
                           read |-> FALSE, data |-> Garbage]
                   /\ x \in engine'
      BY <2>1, <3>1 DEF Start
    <3>3. tags'[StoreTag(side, index)] = [id |-> n, from |-> StoreFrom, to |-> StoreTo]
      BY <2>1, <2>2, <3>1 DEF Start, PipelineIInv, TagRecords
    <3> QED BY <3>2, <3>3
  <2>4. storesDone' = index - 1
    BY <1>1, <2>1, <2>3 DEF storesDone, InFlight
  <2>5. storesDone = index - 1
    BY <2>1 DEF storesDone
  <2>6. AbsResults' = AbsResults /\ (kernelDone' <=> kernelDone)
    BY <1>1, <1>2, <2>1, <2>4, <2>5, AbsResultsStay
  <2> QED BY <1>1, <1>3, <2>6, Stutter DEF AbsIv
<1>5. CASE WaitStore
  <2>1. /\ pc = "storeWait" /\ ~InFlight(StoreTag(side, index))
        /\ \/ index = Len(Stored) /\ pc' = "toggle" /\ index' = 1
           \/ index # Len(Stored) /\ pc' = "store" /\ index' = index + 1
    BY <1>5 DEF WaitStore, Goto
  <2>2. storesDone = index
    BY <2>1 DEF storesDone
  <2>3. CASE pc' = "store"
    <3>1. storesDone' = index
      <4>1. index \in Nat /\ index' = index + 1
        BY <1>2, <2>1, <2>3 DEF TypeOK
      <4> QED BY <2>3, <4>1 DEF storesDone
    <3>2. AbsResults' = AbsResults /\ (kernelDone' <=> kernelDone)
      BY <1>1, <1>2, <2>1, <2>2, <2>3, <3>1, AbsResultsStay
    <3> QED BY <1>1, <1>3, <3>2, Stutter DEF AbsIv
  <2>4. CASE pc' = "toggle"
    <3>1. index = Len(Stored)
      BY <2>1, <2>4
    <3>2. kernelDone /\ kernelDone'
      BY <2>1, <2>2, <2>4, <3>1 DEF kernelDone
    <3>3. AbsResults = <<>>
      BY <1>2, <2>1, <2>2, <3>1, AbsResultsIsSuffix, StoresDoneRange, SuffixFacts
    <3>4. AbsResults' = <<>>
      BY <2>4 DEF AbsResults
    <3> QED BY <1>1, <1>3, <3>2, <3>3, <3>4, Stutter DEF AbsIv
  <2> QED BY <2>1, <2>3, <2>4
<1> QED BY <1>4, <1>5

\* The computation is that of the single-buffered loop: its buffers hold the
\* tiles.
LEMMA ComputeRefines ==
    ASSUME PipelineIInv, PipelineIInv', Compute
    PROVE  Single!Compute
<1>1. /\ pc = "compute" /\ pc' = "store" /\ index' = 1
      /\ UNCHANGED <<loop, iv, toggle, toggleVal, side, tags, engine, issued>>
  BY DEF Compute, Goto
<1>2. TypeOK /\ Control /\ TypeOK' /\ Control'
  BY DEF PipelineIInv
<1>3. side = Kern /\ side \in Sides /\ iv < loop.ub /\ iv \in 0 .. loop.ub
  BY <1>1, <1>2, LoopFacts DEF Control, InKernel, TypeOK
<1>4. PICK tile : tile = [o \in Operands |-> memory[Buffer(side, o)]]
  OBVIOUS
<1>5. memory' = [where \in DOMAIN memory |->
                    IF where \in {Buffer(side, o) : o \in ToSet(Stored)}
                    THEN Single!Computed(where[3], tile) ELSE memory[where]]
  BY <1>4 DEF Compute
<1>6. DOMAIN memory = Locations /\ DOMAIN memory' = Locations
  BY <1>2 DEF TypeOK
<1>7. ASSUME NEW o \in Operands
      PROVE  /\ memory[Buffer(side, o)] = memory[View(o, iv)]
             /\ View(o, iv) \in Single!DDR
  <2>1. Loaded(side, o) /\ DueTile(side, o) = View(o, iv)
    BY <1>1, <1>3 DEF Loaded, DueTile, Due
  <2>2. FetchTag(side, o) \in TagIds
    BY <1>3, PlacesExist
  <2>3. ASSUME NEW x \in engine PROVE x.id # tags[FetchTag(side, o)].id
    <3>1. PICK t \in Sides, p \in Operands : Pending(t, p) /\ IsFetch(x, t, p)
      BY <1>1 DEF PipelineIInv, EngineKnown, IsStore
    <3>2. t # side
      BY <1>1, <1>3, <3>1 DEF Pending, BeforeKernel, AfterWaits
    <3>3. FetchTag(t, p) \in TagIds /\ FetchTag(t, p) # FetchTag(side, o)
      BY <3>2, PlacesExist, PlacesApart
    <3>4. x.id = tags[FetchTag(t, p)].id /\ x.id # 0
      BY <3>1 DEF IsFetch, PipelineIInv, EngineRecords
    <3> QED BY <2>2, <3>3, <3>4 DEF PipelineIInv, TagRecords
  <2>4. ~InFlight(FetchTag(side, o))
    BY <2>3 DEF InFlight
  <2> QED BY <1>2, <1>3, <2>1, <2>4, LoadedExists DEF PipelineIInv, TilesArrive
<1>8. AbsDdr' = AbsDdr
  <2>1. \A w \in Single!DDR : memory'[w] = memory[w]
    <3> SUFFICES ASSUME NEW w \in Single!DDR PROVE memory'[w] = memory[w]
      OBVIOUS
    <3>1. w \in Locations /\ w[1] = "ddr"
      BY DdrPlaces
    <3>2. \A o : w # Buffer(side, o)
      <4>1. \A o : Buffer(side, o)[1] = "vtcm"
        BY DEF Buffer
      <4> QED BY <3>1, <4>1
    <3> QED BY <1>5, <1>6, <3>1, <3>2
  <2> QED BY <1>6, <2>1, AbsDdrStays
<1>9. tile = Single!Tile(AbsDdr, loop, iv)
  <2>1. AbsDdr = [w \in Single!DDR |-> memory[w]]
    BY <1>6, AbsDdrIsMemory
  <2>2. \A o \in Operands : memory[Buffer(side, o)] = AbsDdr[Single!View(loop, o, iv)]
    BY <1>7, <2>1 DEF View
  <2> QED BY <1>4, <2>2 DEF Single!Tile, Operands
<1>10. AbsResults = <<>> /\ ~kernelDone /\ AbsIv = iv
  BY <1>1 DEF AbsResults, kernelDone, AbsIv
<1>11. ~kernelDone' /\ AbsIv' = iv /\ storesDone' = 0
  <2>1. storesDone' = 0
    BY <1>1 DEF storesDone
  <2>2. Len(Stored) # 0
    BY ConstantFacts
  <2> QED BY <1>1, <2>1, <2>2 DEF kernelDone, AbsIv
<1>12. AbsResults' = Single!Results(AbsDdr, loop, iv)
  <2>1. AbsResults' = [k \in 1 .. Len(Stored) - 0 |-> memory'[Buffer(side, Stored[0 + k])]]
    BY <1>1, <1>11 DEF AbsResults
  <2>2. ASSUME NEW k \in 1 .. Len(Stored)
        PROVE  memory'[Buffer(side, Stored[k])] = Single!Computed(Stored[k], tile)
    <3>1. Stored[k] \in ToSet(Stored) /\ Stored[k] \in Operands
      BY ConstantFacts DEF ToSet
    <3>2. Buffer(side, Stored[k]) \in Locations
      BY <1>3, <3>1, PlacesExist
    <3>3. Buffer(side, Stored[k])[3] = Stored[k]
      BY DEF Buffer
    <3> QED BY <1>5, <1>6, <3>1, <3>2, <3>3
  <2>3. AbsResults' = [k \in 1 .. Len(Stored) |-> Single!Computed(Stored[k], tile)]
    <3>1. 1 .. Len(Stored) - 0 = 1 .. Len(Stored) /\ \A k \in 1 .. Len(Stored) : 0 + k = k
      BY ConstantFacts
    <3> QED BY <2>1, <2>2, <3>1
  <2> QED BY <1>9, <2>3, ConstantFacts DEF Single!Results
<1> QED BY <1>1, <1>3, <1>8, <1>10, <1>11, <1>12
        DEF Single!Compute, AbsIv, AbsDdr, AbsResults

\* A transfer that reads has no effect yet.
LEMMA ReadStutters ==
    ASSUME PipelineIInv, PipelineIInv', NEW x \in engine, EngineRead(x)
    PROVE  [Single!Next]_(Single!vars)
<1>1. /\ UNCHANGED <<loop, iv, pc, toggleVal, side, index, memory, tags>>
      /\ engine' = (engine \ {x}) \cup {[x EXCEPT !.read = TRUE, !.data = memory[x.from]]}
  BY DEF EngineRead, program
<1>2. [x EXCEPT !.read = TRUE, !.data = memory[x.from]].id = x.id
  <2>1. PICK d, i, f, t, r, e :
           d = memory[x.from] /\ x = [id |-> i, from |-> f, to |-> t, read |-> r, data |-> e]
    BY DEF PipelineIInv, EngineRecords
  <2>2. [x EXCEPT !.read = TRUE, !.data = d].id = i
    BY <2>1
  <2> QED BY <2>1, <2>2
<1>3. \A t : InFlight(t)' <=> InFlight(t)
  BY <1>1, <1>2 DEF InFlight
<1>4. storesDone' = storesDone
  BY <1>1, <1>3 DEF storesDone, InFlight
<1>5. AbsIv' = AbsIv /\ AbsDdr' = AbsDdr /\ AbsResults' = AbsResults
  BY <1>1, <1>4 DEF AbsIv, AbsDdr, AbsResults, kernelDone
<1> QED BY <1>1, <1>5, Stutter

\* A fetch that is over fills a buffer the loop below does not know.
LEMMA FetchStutters ==
    ASSUME PipelineIInv, PipelineIInv', NEW x \in engine, EngineWrite(x), ~IsStore(x)
    PROVE  [Single!Next]_(Single!vars)
<1>1. /\ UNCHANGED <<loop, iv, pc, toggleVal, side, index, tags>>
      /\ memory' = [memory EXCEPT ![x.to] = x.data] /\ engine' = engine \ {x}
  BY DEF EngineWrite, program
<1>2. TypeOK /\ Control /\ TypeOK' /\ Control' /\ TagRecords /\ EngineRecords
  BY DEF PipelineIInv
<1>3. PICK s \in Sides, o \in Operands :
         Pending(s, o) /\ x.to = Buffer(s, o) /\ x.id = tags[FetchTag(s, o)].id
  BY DEF PipelineIInv, EngineKnown, IsFetch
<1>4. /\ DOMAIN memory = Locations /\ DOMAIN memory' = Locations
      /\ \A w \in Locations : w # x.to => memory'[w] = memory[w]
  BY <1>1, <1>2 DEF TypeOK
<1>5. AbsDdr' = AbsDdr
  <2>1. ASSUME NEW w \in Single!DDR PROVE memory'[w] = memory[w]
    <3>1. w \in Locations /\ w[1] = "ddr"
      BY DdrPlaces
    <3>2. Buffer(s, o)[1] = "vtcm"
      BY DEF Buffer
    <3> QED BY <1>3, <1>4, <3>1, <3>2
  <2> QED BY <1>4, <2>1, AbsDdrStays
<1>6. CASE pc \in {"store", "storeWait"}
  <2>1. side = Kern /\ s # side /\ index \in 1 .. Len(Stored) /\ side \in Sides
    BY <1>2, <1>3, <1>6, StoresDoneRange
       DEF Pending, BeforeKernel, AfterWaits, Control, InKernel, TypeOK
  <2>2. \A k \in 1 .. Len(Stored) :
           memory'[Buffer(side, Stored[k])] = memory[Buffer(side, Stored[k])]
    BY <1>3, <1>4, <2>1, PlacesApart, PlacesExist, ConstantFacts
  <2>3. x.id # tags[StoreTag(side, index)].id
    <3>1. /\ StoreTag(side, index) \in TagIds /\ FetchTag(s, o) \in TagIds
          /\ StoreTag(side, index) # FetchTag(s, o)
      BY <2>1, PlacesExist, PlacesApart
    <3>2. x.id # 0
      BY <1>2 DEF EngineRecords
    <3> QED BY <1>2, <1>3, <3>1, <3>2 DEF TagRecords
  <2>4. InFlight(StoreTag(side, index))
           <=> \E y \in engine' : y.id = tags'[StoreTag(side, index)].id
    BY <1>1, <2>3 DEF InFlight
  <2>5. storesDone' = storesDone
    BY <1>1, <2>4 DEF storesDone, InFlight
  <2>6. AbsResults' = AbsResults /\ (kernelDone' <=> kernelDone)
    BY <1>1, <1>2, <1>6, <2>2, <2>5, AbsResultsStay
  <2> QED BY <1>1, <1>5, <2>6, Stutter DEF AbsIv
<1>7. CASE pc \notin {"store", "storeWait"}
  <2>1. AbsResults' = AbsResults /\ AbsIv' = AbsIv
    BY <1>1, <1>7 DEF AbsResults, AbsIv, kernelDone
  <2> QED BY <1>1, <1>5, <2>1, Stutter
<1> QED BY <1>6, <1>7

\* A store takes effect when the engine writes.
LEMMA StoreRefines ==
    ASSUME PipelineIInv, PipelineIInv', NEW x \in engine, EngineWrite(x), IsStore(x)
    PROVE  Single!Store
<1>1. /\ UNCHANGED <<loop, iv, pc, toggleVal, side, index, tags>> /\ x.read
      /\ memory' = [memory EXCEPT ![x.to] = x.data] /\ engine' = engine \ {x}
  BY DEF EngineWrite, program
<1>2. TypeOK /\ Control /\ TypeOK' /\ Control' /\ EngineRecords
  BY DEF PipelineIInv
<1>3. /\ pc = "storeWait" /\ x.id = tags[StoreTag(side, index)].id
      /\ x.from = StoreFrom /\ x.to = StoreTo
  BY DEF IsStore
<1>4. /\ DOMAIN memory = Locations /\ DOMAIN memory' = Locations /\ x.to \in Locations
      /\ memory'[x.to] = x.data
      /\ \A w \in Locations : w # x.to => memory'[w] = memory[w]
  BY <1>1, <1>2 DEF TypeOK
<1> PICK K \in Nat : K = Len(Stored)
  BY ConstantFacts
<1>5. PICK n \in 0 .. K - 1 :
         storesDone = n /\ storesDone' = n + 1 /\ index = n + 1
  <2>1. InFlight(StoreTag(side, index))
    BY <1>3 DEF InFlight
  <2>2. ~ \E y \in engine' : y.id = tags'[StoreTag(side, index)].id
    BY <1>1, <1>2, <1>3 DEF EngineRecords
  <2>3. storesDone = index - 1
    BY <1>3, <2>1 DEF storesDone
  <2>4. storesDone' = index
    BY <1>1, <1>3, <2>2 DEF storesDone, InFlight
  <2>5. index \in 1 .. K
    BY <1>2, <1>3, StoresDoneRange
  <2>6. index - 1 \in 0 .. K - 1 /\ (index - 1) + 1 = index
    BY <2>5
  <2> QED BY <2>3, <2>4, <2>6
<1>6. ~kernelDone /\ (kernelDone' <=> n + 1 = K)
  <2>1. n # K
    OBVIOUS
  <2> QED BY <1>1, <1>3, <1>5, <2>1 DEF kernelDone
<1>7. OutBuffers' = OutBuffers
  <2>1. ASSUME NEW k \in 1 .. Len(Stored)
        PROVE  memory'[Buffer(side, Stored[k])] = memory[Buffer(side, Stored[k])]
    <3>1. Buffer(side, Stored[k]) \in Locations
      BY <1>2, PlacesExist, ConstantFacts DEF TypeOK
    <3>2. Buffer(side, Stored[k]) # x.to
      BY <1>3, PlacesApart DEF StoreTo
    <3> QED BY <1>4, <3>1, <3>2
  <2>2. OutBuffers' = [j \in 1 .. Len(Stored) |-> memory'[Buffer(side, Stored[j])]]
    BY <1>1 DEF OutBuffers
  <2> QED BY <2>1, <2>2 DEF OutBuffers
<1>8. PICK e, S : e = OutBuffers /\ e \in [1 .. Len(Stored) -> S]
  BY <1>2, <1>3, AbsResultsIsSuffix
<1>9. AbsResults = Suffix(e, n) /\ AbsResults' = Suffix(e, n + 1)
  <2>1. AbsResults = Suffix(OutBuffers, storesDone)
    BY <1>2, <1>3, AbsResultsIsSuffix
  <2>2. pc' \in {"store", "storeWait"} /\ side' = side
    BY <1>1, <1>3
  <2>3. AbsResults' = [k \in 1 .. Len(Stored) - (n + 1) |->
                          memory'[Buffer(side, Stored[(n + 1) + k])]]
    BY <1>5, <2>2 DEF AbsResults
  <2>4. \A k \in 1 .. Len(Stored) - (n + 1) :
           memory'[Buffer(side, Stored[(n + 1) + k])] = e[(n + 1) + k]
    <3>1. \A k \in 1 .. K - (n + 1) : (n + 1) + k \in 1 .. K
      OBVIOUS
    <3>2. \A j \in 1 .. Len(Stored) : memory'[Buffer(side, Stored[j])] = e[j]
      <4>1. OutBuffers' = [j \in 1 .. Len(Stored) |-> memory'[Buffer(side, Stored[j])]]
        BY <1>1 DEF OutBuffers
      <4> QED BY <1>7, <1>8, <4>1
    <3> QED BY <3>1, <3>2
  <2> QED BY <1>5, <1>8, <2>1, <2>3, <2>4 DEF Suffix
<1>10. n \in 0 .. Len(Stored) /\ n < Len(Stored)
  OBVIOUS
<1>11. /\ AbsResults # <<>> /\ Len(AbsResults) = K - n
       /\ Head(AbsResults) = e[n + 1] /\ Tail(AbsResults) = AbsResults'
  BY <1>8, <1>9, <1>10, SuffixFacts
<1>12. AbsIv = iv /\ AbsIv' = IF Len(AbsResults) = 1 THEN AbsIv + step ELSE AbsIv
  <2>1. Len(AbsResults) = 1 <=> n + 1 = K
    BY <1>11
  <2> QED BY <1>1, <1>6, <2>1 DEF AbsIv
<1>13. e[n + 1] = x.data
  <2>1. x.data = memory[Buffer(side, Stored[index])]
    BY <1>1, <1>3 DEF PipelineIInv, ReadIsCurrent, StoreFrom
  <2>2. n + 1 \in 1 .. Len(Stored)
    OBVIOUS
  <2>3. e[n + 1] = memory[Buffer(side, Stored[n + 1])]
    BY <1>8, <2>2 DEF OutBuffers
  <2> QED BY <1>5, <2>1, <2>3
<1>14. AbsDdr' = [AbsDdr EXCEPT ![Single!View(loop, Stored[n + 1], AbsIv)] = e[n + 1]]
  <2>1. AbsDdr = [w \in Single!DDR |-> memory[w]] /\ \A w \in Single!DDR : w \in Locations
    BY <1>4, AbsDdrIsMemory
  <2>2. AbsDdr' = [w \in Single!DDR |-> memory'[w]]
    BY <1>4, DdrPlaces DEF AbsDdr
  <2>3. x.to = Single!View(loop, Stored[n + 1], AbsIv)
    BY <1>3, <1>5, <1>12 DEF StoreTo, View
  <2>4. \A w \in Single!DDR : memory'[w] = IF w = x.to THEN x.data ELSE memory[w]
    BY <1>4, <2>1
  <2>5. [w \in Single!DDR |-> memory'[w]]
           = [[w \in Single!DDR |-> memory[w]] EXCEPT ![x.to] = x.data]
    BY <2>4
  <2> QED BY <1>13, <2>1, <2>2, <2>3, <2>5
<1>15. Stored[1 + Len(Stored) - Len(AbsResults)] = Stored[n + 1]
  <2>1. 1 + K - (K - n) = n + 1
    OBVIOUS
  <2> QED BY <1>11, <2>1
<1> QED BY <1>1, <1>11, <1>12, <1>14, <1>15 DEF Single!Store, AbsIv, AbsDdr, AbsResults

\* A pipelined loop whose results advance does to memory what the
\* single-buffered loop does: the same computations on the same data and the
\* same stores in the same order, for every number of operands and stores, tile
\* size and bound, and whatever the order the engine finishes its transfers in.
THEOREM PipelineImplementsLoop ==
    Spec /\ LoopAdvances => ImplementsTiledLoop
<1>1. ASSUME Init PROVE Single!Init
  <2>1. /\ loop \in Loops /\ generateSchedule(loop) /\ iv = loop.lb /\ pc = "prologue"
        /\ memory = [where \in Single!DDR \cup Buffers |->
                       IF where[1] = "ddr" THEN Single!Initial(where) ELSE Garbage]
    BY <1>1 DEF Init
  <2>2. iv = 0
    BY <2>1 DEF generateSchedule, isZeroBasedEvenlyDivisible
  <2>3. AbsIv = 0 /\ AbsResults = <<>>
    BY <2>1, <2>2 DEF AbsIv, AbsResults, kernelDone
  <2>4. AbsDdr = [where \in Single!DDR |-> Single!Initial(where)]
    <3>1. DOMAIN memory = Locations
      BY <2>1 DEF Locations
    <3>2. \A w \in Single!DDR : memory[w] = Single!Initial(w)
      BY <2>1, DdrPlaces DEF Locations
    <3> QED BY <3>1, <3>2, AbsDdrIsMemory
  <2> QED BY <2>1, <2>3, <2>4 DEF Single!Init, AbsIv, AbsDdr, AbsResults
<1>2. ASSUME PipelineIInv, PipelineIInv', [Next]_vars PROVE [Single!Next]_(Single!vars)
  <2>1. CASE Prologue \/ LoopHead \/ EnterKernel \/ Prefetch \/ WaitFetch
               \/ StoreToggle \/ NextIteration
    BY <1>2, <2>1, QuietStutters
  <2>2. CASE StartStore \/ WaitStore
    BY <1>2, <2>2, StoreWaitStutters
  <2>3. CASE Compute
    BY <1>2, <2>3, ComputeRefines DEF Single!Next
  <2>4. ASSUME NEW x \in engine, EngineRead(x) PROVE [Single!Next]_(Single!vars)
    BY <1>2, <2>4, ReadStutters
  <2>5. ASSUME NEW x \in engine, EngineWrite(x) PROVE [Single!Next]_(Single!vars)
    <3>1. CASE IsStore(x)
      BY <1>2, <2>5, <3>1, StoreRefines DEF Single!Next
    <3>2. CASE ~IsStore(x)
      BY <1>2, <2>5, <3>2, FetchStutters
    <3> QED BY <3>1, <3>2
  <2>6. CASE UNCHANGED vars
    <3>1. UNCHANGED <<loop, iv, pc, toggleVal, side, index, memory, tags, engine>>
      BY <2>6 DEF vars, program
    <3>2. storesDone' = storesDone
      BY <3>1 DEF storesDone, InFlight
    <3>3. AbsIv' = AbsIv /\ AbsDdr' = AbsDdr /\ AbsResults' = AbsResults
      BY <3>1, <3>2 DEF AbsIv, AbsDdr, AbsResults, kernelDone
    <3> QED BY <3>1, <3>3, Stutter
  <2> QED BY <1>2, <2>1, <2>2, <2>3, <2>4, <2>5, <2>6 DEF Next, Kernel, Engine
<1>3. Spec /\ LoopAdvances => []PipelineIInv
  BY PipelineInvariant, PTL
<1> QED BY <1>1, <1>2, <1>3, PTL DEF Spec, Single!Spec, ImplementsTiledLoop
=============================================================================
