------------------------------ MODULE TiledLoop ------------------------------
(***************************************************************************)
(* The loop the double-buffering pass is given: a scf.for over tiles whose   *)
(* body copies a view of each operand to a buffer, computes on the buffers   *)
(* and copies results back through the views.  One step computes a tile,     *)
(* one step stores one result.  This is what the pipelined loop must still   *)
(* do, whatever its transfers do meanwhile.                                  *)
(***************************************************************************)
EXTENDS Naturals, Sequences, FiniteSetsExt

CONSTANTS
    NumOperands,    \* operands of the computation, one subview each
    Stored,         \* sequence of the operands that are stored back
    Memref,         \* the memref each operand views
    step,           \* step of the loop, the tile size
    Loops           \* the loops under study, see DoubleBuffer

Operands == 1 .. NumOperands

\* The tile of operand o at induction value i, in DDR.  The view of a fixed
\* operand does not depend on the induction variable.
View(loop, o, i) == <<"ddr", Memref[o], IF o \in loop.fixed THEN 0 ELSE i>>

\* A tile's data is the computation that made it, over the data it read.
Data(fn, where, args) == [fn |-> fn, where |-> where, args |-> args]
Initial(where) == Data(0, where, <<>>)
Computed(o, args) == Data(o, <<>>, args)

DDR == {<<"ddr", Memref[o], i>> :
            o \in Operands, i \in 0 .. Max({l.ub + step : l \in Loops})}

VARIABLES
    loop,       \* the loop that runs
    iv,         \* its induction variable
    ddr,        \* contents of the memrefs
    results     \* computed and not yet stored, in the order of Stored

vars == <<loop, iv, ddr, results>>

Init ==
    /\ loop \in Loops /\ iv = 0
    /\ ddr = [where \in DDR |-> Initial(where)]
    /\ results = <<>>

\* The data of all operands at tile i.
Tile(memory, l, i) == [o \in Operands |-> memory[View(l, o, i)]]

Results(memory, l, i) ==
    [s \in DOMAIN Stored |-> Computed(Stored[s], Tile(memory, l, i))]

Compute ==
    /\ results = <<>> /\ iv < loop.ub
    /\ results' = Results(ddr, loop, iv)
    /\ UNCHANGED <<loop, iv, ddr>>

\* The next of the stores; the last one ends the iteration.
Store ==
    /\ results # <<>>
    /\ LET o == Stored[1 + Len(Stored) - Len(results)]
       IN  ddr' = [ddr EXCEPT ![View(loop, o, iv)] = Head(results)]
    /\ results' = Tail(results)
    /\ iv' = IF Len(results) = 1 THEN iv + step ELSE iv
    /\ UNCHANGED loop

Next == Compute \/ Store

Spec == Init /\ [][Next]_vars
=============================================================================
