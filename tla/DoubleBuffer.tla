---------------------------- MODULE DoubleBuffer ----------------------------
(***************************************************************************)
(* The loop HexagonDoubleBufferGenericS1 and S2 make of a tiled loop.  S1    *)
(* gives each operand a ping and a pong buffer, fetches the first tile       *)
(* before the loop, and splits the body in a ping and a pong kernel that     *)
(* fetch the next tile into the other buffers, compute on their own and      *)
(* store.  S2 turns the copies into DMA transfers: fetches are started in    *)
(* one iteration and waited for in the next, stores are waited for at once.  *)
(*                                                                         *)
(* The DMA engine reads and writes each transfer at moments of its own, in   *)
(* any order.  S2 is modelled for operands it can transfer (static views of  *)
(* rank 2 at most, in the two memory spaces); for others it asserts.         *)
(***************************************************************************)
EXTENDS Naturals, Sequences, SequencesExt

CONSTANTS NumOperands, Stored, Memref, step, Loops

VARIABLES
    loop,       \* the loop that was rewritten
    iv,         \* induction variable
    pc,         \* the statement that runs next
    toggle,     \* the boolean memref: is the next kernel ping
    toggleVal,  \* its value at the start of the iteration
    side,       \* the kernel that runs
    index,      \* operand or store the statement is at
    memory,     \* contents of DDR and of the buffers
    tags,       \* the transfer each tag was last given to
    engine,     \* transfers started and not finished
    issued      \* number of transfers started

program == <<loop, iv, pc, toggle, toggleVal, side, index>>
vars == <<program, memory, tags, engine, issued>>

\* The single-buffered loop, and the refinement mapping to it.  Its stores
\* take effect when the engine writes, its iterations end with the last store.
Sides == {"ping", "pong"}
Other(s) == IF s = "ping" THEN "pong" ELSE "ping"

Buffer(s, o) == <<"vtcm", s, o>>
FetchTag(s, o) == <<"fetch", s, o>>
StoreTag(s, k) == <<"store", s, k>>

InFlight(tag) == \E x \in engine : x.id = tags[tag].id

storesDone ==
    IF pc = "storeWait" /\ ~InFlight(StoreTag(side, index)) THEN index ELSE index - 1

kernelDone ==
    \/ pc \in {"toggle", "next"}
    \/ pc = "pong" /\ toggleVal
    \/ pc \in {"store", "storeWait"} /\ storesDone = Len(Stored)

Single == INSTANCE TiledLoop WITH
    iv <- IF kernelDone THEN iv + step ELSE iv,
    ddr <- [where \in {w \in DOMAIN memory : w[1] = "ddr"} |-> memory[where]],
    results <-
        IF pc \in {"store", "storeWait"}
        THEN [k \in 1 .. Len(Stored) - storesDone |->
                memory[Buffer(side, Stored[storesDone + k])]]
        ELSE <<>>

Operands == Single!Operands

\* The computation has operands and stores results of it; of the loops under
\* study one is the longest.
ASSUME DoubleBufferAssumption ==
    /\ NumOperands \in Nat \ {0} /\ step \in Nat
    /\ Stored \in Seq(Operands) /\ Stored # <<>>
    /\ \A l \in Loops : l.lb \in Nat /\ l.ub \in Nat
    /\ \E longest \in Loops : \A l \in Loops : l.ub <= longest.ub

View(o, i) == Single!View(loop, o, i)
Buffers == {Buffer(s, o) : s \in Sides, o \in Operands}
Garbage == Single!Data(0, <<>>, <<>>)
TagIds == {FetchTag(s, o) : s \in Sides, o \in Operands}
              \cup {StoreTag(s, k) : s \in Sides, k \in DOMAIN Stored}
NoTransfer == [id |-> 0, from |-> <<>>, to |-> <<>>]

-----------------------------------------------------------------------------
(* Which loops S1 rewrites.                                                 *)

isZeroBasedEvenlyDivisible(l) == l.lb = 0 /\ step # 0 /\ l.ub % step = 0

\* Mutant: the attributes of the loop are not looked at.
isComputeAnyLoop(l, op) == op \in {"forall", "for"}

\* A nested scf.for is a computation only in a loop marked tiled and parallel.
isCompute(l, op) == op = "forall" \/ (op = "for" /\ l.allParallel)

\* The state machine over the operations of the body.
Parse(l, parsed, op) ==
    LET to(stage) == [parsed EXCEPT !.stage = stage]
    IN  CASE parsed.stage = "View"  /\ op = "subview" -> to("Alloc")
          [] parsed.stage = "View"  /\ isCompute(l, op) /\ parsed.triplets > 0 -> to("Store")
          [] parsed.stage = "Alloc" /\ op = "alloc" -> to("Copy")
          [] parsed.stage = "Copy"  /\ op = "copy"  ->
                 [to("View") EXCEPT !.triplets = @ + 1]
          [] parsed.stage = "Store" /\ op = "copy"  -> [parsed EXCEPT !.stores = @ + 1]
          [] parsed.stage = "Store" /\ op = "yield" /\ parsed.stores > 0 -> to("Done")
          [] OTHER -> to("Reject")

generateSchedule(l) ==
    /\ ~l.iterArgs
    /\ isZeroBasedEvenlyDivisible(l)
    /\ LET start  == [stage |-> "View", triplets |-> 0, stores |-> 0]
           parsed == FoldLeft(LAMBDA p, op : Parse(l, p, op), start, l.body)
       IN  parsed.stage = "Done"

Init ==
    /\ loop \in {l \in Loops : generateSchedule(l)}
    /\ iv = loop.lb
    /\ pc = "prologue" /\ index = 1
    /\ toggle = TRUE /\ toggleVal = TRUE /\ side = "ping"
    /\ memory = [where \in Single!DDR \cup Buffers |->
                    IF where[1] = "ddr" THEN Single!Initial(where) ELSE Garbage]
    /\ tags = [t \in TagIds |-> NoTransfer]
    /\ engine = {} /\ issued = 0

-----------------------------------------------------------------------------
(* The rewritten loop.                                                      *)

Goto(label) == pc' = label /\ index' = 1
Stay == pc' = pc /\ index' = index + 1

\* memref.dma_start
Start(from, to, tag) ==
    /\ issued' = issued + 1
    /\ tags' = [tags EXCEPT ![tag] = [id |-> issued + 1, from |-> from, to |-> to]]
    /\ engine' = engine \cup {[id |-> issued + 1, from |-> from, to |-> to,
                               read |-> FALSE, data |-> Garbage]}

Idle == UNCHANGED <<tags, engine, issued>>

\* scf.if (lb < ub): fetch the first tile into the ping buffers.
Prologue ==
    /\ pc = "prologue"
    /\ IF loop.lb < loop.ub /\ index \in Operands
       THEN /\ Start(View(index, loop.lb), Buffer("ping", index), FetchTag("ping", index))
            /\ Stay
       ELSE Goto("head") /\ Idle
    /\ UNCHANGED <<loop, iv, toggle, toggleVal, side, memory>>

\* The loop condition, and the load of toggle at the start of the body.
LoopHead ==
    /\ pc = "head"
    /\ IF iv < loop.ub
       THEN toggleVal' = toggle /\ Goto("ping")
       ELSE toggleVal' = toggleVal /\ Goto("done")
    /\ UNCHANGED <<loop, iv, toggle, side, memory, tags, engine, issued>>

\* scf.if on the loaded value, then scf.if on its inverse.
EnterKernel ==
    /\ \/ pc = "ping" /\ toggleVal  /\ side' = "ping" /\ Goto("prefetch")
       \/ pc = "ping" /\ ~toggleVal /\ side' = side   /\ Goto("pong")
       \/ pc = "pong" /\ ~toggleVal /\ side' = "pong" /\ Goto("prefetch")
       \/ pc = "pong" /\ toggleVal  /\ side' = side   /\ Goto("next")
    /\ UNCHANGED <<loop, iv, toggle, toggleVal, memory, tags, engine, issued>>

\* Mutant: one tile further than there is.
nextExistsLate == iv + step <= loop.ub

nextExists == iv + step + step <= loop.ub

\* Mutant: the buffers of the kernel that runs.
NextSideSame(s) == s

\* The next tile goes to the buffers and tags of the other kernel.
NextSide(s) == Other(s)

NextTag(s, o) == FetchTag(NextSide(s), o)

\* Fetch the next tile into the other buffers.
Prefetch ==
    /\ pc = "prefetch"
    /\ IF nextExists /\ index \in Operands
       THEN /\ Start(View(index, iv + step), Buffer(NextSide(side), index),
                     NextTag(side, index))
            /\ Stay
       ELSE Goto("wait") /\ Idle
    /\ UNCHANGED <<loop, iv, toggle, toggleVal, side, memory>>

\* memref.dma_wait on the tag of each operand of this kernel.
WaitFetch ==
    /\ pc = "wait"
    /\ ~InFlight(FetchTag(side, index))
    /\ IF index = NumOperands THEN Goto("compute") ELSE Stay
    /\ UNCHANGED <<loop, iv, toggle, toggleVal, side, memory, tags, engine, issued>>

\* The cloned computation, on the buffers of this kernel.
Compute ==
    /\ pc = "compute"
    /\ LET tile == [o \in Operands |-> memory[Buffer(side, o)]]
       IN  memory' = [where \in DOMAIN memory |->
                        IF where \in {Buffer(side, o) : o \in ToSet(Stored)}
                        THEN Single!Computed(where[3], tile) ELSE memory[where]]
    /\ Goto("store")
    /\ UNCHANGED <<loop, iv, toggle, toggleVal, side, tags, engine, issued>>

\* Each store is a dma_start and a dma_wait.
StartStore ==
    /\ pc = "store"
    /\ Start(Buffer(side, Stored[index]), View(Stored[index], iv), StoreTag(side, index))
    /\ pc' = "storeWait"
    /\ UNCHANGED <<loop, iv, toggle, toggleVal, side, index, memory>>

WaitStore ==
    /\ pc = "storeWait"
    /\ ~InFlight(StoreTag(side, index))
    /\ IF index = Len(Stored) THEN Goto("toggle")
       ELSE pc' = "store" /\ index' = index + 1
    /\ UNCHANGED <<loop, iv, toggle, toggleVal, side, memory, tags, engine, issued>>

\* The value ping stores is false, that of pong is true.
StoreToggle ==
    /\ pc = "toggle"
    /\ toggle' = (side = "pong")
    /\ Goto(IF side = "ping" THEN "pong" ELSE "next")
    /\ UNCHANGED <<loop, iv, toggleVal, side, memory, tags, engine, issued>>

NextIteration ==
    /\ pc = "next"
    /\ iv' = iv + step
    /\ Goto("head")
    /\ UNCHANGED <<loop, toggle, toggleVal, side, memory, tags, engine, issued>>

-----------------------------------------------------------------------------
(* The DMA engine.                                                          *)

EngineRead(x) ==
    /\ ~x.read
    /\ engine' = (engine \ {x}) \cup {[x EXCEPT !.read = TRUE, !.data = memory[x.from]]}
    /\ UNCHANGED <<program, memory, tags, issued>>

EngineWrite(x) ==
    /\ x.read
    /\ memory' = [memory EXCEPT ![x.to] = x.data]
    /\ engine' = engine \ {x}
    /\ UNCHANGED <<program, tags, issued>>

Kernel ==
    \/ Prologue \/ LoopHead \/ EnterKernel \/ Prefetch \/ WaitFetch
    \/ Compute \/ StartStore \/ WaitStore \/ StoreToggle \/ NextIteration

Engine == \E x \in engine : EngineRead(x) \/ EngineWrite(x)

Next == Kernel \/ Engine

Spec == Init /\ [][Next]_vars

-----------------------------------------------------------------------------
(* Properties                                                               *)

Locations == Single!DDR \cup Buffers

\* The variables keep their types; the induction variable stays in the loop.
TypeOK ==
    /\ loop \in Loops /\ iv \in 0 .. loop.ub /\ iv % step = 0
    /\ toggle \in BOOLEAN /\ toggleVal \in BOOLEAN /\ side \in Sides
    /\ pc \in {"prologue", "head", "ping", "pong", "prefetch", "wait", "compute",
               "store", "storeWait", "toggle", "next", "done"}
    /\ index \in 1 .. NumOperands + Len(Stored) + 1
    /\ DOMAIN memory = Locations
    /\ \A x \in engine : {x.from, x.to} \subseteq Locations /\ x.id \in 1 .. issued

\* Transfers never race: nothing is written by one transfer while another one
\* reads or writes it, and the buffers of the computation are left alone while
\* it runs (rewriteAsDMATransfers: where starts and waits are put).
NoRace ==
    /\ \A x, y \in engine : x.id # y.id => x.to \notin {y.from, y.to}
    /\ pc = "compute" =>
         \A x \in engine, o \in Operands : Buffer(side, o) \notin {x.from, x.to}

\* A wait of a kernel is for the transfer that brings the tile of this
\* iteration to the buffer of this kernel, whichever iteration started it.
TagNamesThisTile ==
    pc = "wait" =>
        /\ tags[FetchTag(side, index)].from = View(index, iv)
        /\ tags[FetchTag(side, index)].to = Buffer(side, index)

\* The invariant of the pipeline: every wait is for the transfer that was meant,
\* and no transfer meets another or the computation in a buffer.
PipelineInv ==
    /\ TypeOK
    /\ NoRace
    /\ TagNamesThisTile

\* When the loop ends no transfer is under way: tags and buffers are
\* deallocated right after it.
QuietAtExit == pc = "done" => engine = {}

\* The pipelined loop does to memory what the single-buffered loop does: same
\* computations on the same data, same stores in the same order.
ImplementsTiledLoop == Single!Spec

=============================================================================
