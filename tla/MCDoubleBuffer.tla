--------------------------- MODULE MCDoubleBuffer ---------------------------
(* Two inputs and one result, or one input and an in-place result, in tiles of
   two.  Bounds from no tile to three, even and uneven. *)
EXTENDS DoubleBuffer

Body(kernel, triplets, stores) ==
    FlattenSeq([t \in 1 .. triplets |-> <<"subview", "alloc", "copy">>])
        \o <<kernel>> \o [k \in 1 .. stores |-> "copy"] \o <<"yield">>

Loop(ub, kernel, allParallel, fixed) ==
    [lb |-> 0, ub |-> ub, iterArgs |-> FALSE, allParallel |-> allParallel,
     fixed |-> fixed, body |-> Body(kernel, NumOperands, Len(Stored))]

\* An annotated loop is parallel: the views of its results advance.  A loop
\* with a result whose view stays (a reduction) is not annotated; the passes refuse
\* it around a scf.for.
ParallelLoops == {Loop(ub, kernel, TRUE, fixed) :
    ub \in {0, 2, 4, 5, 6}, kernel \in {"for", "forall"}, fixed \in {{}, {1}}}
ReductionLoops(kernel) == {Loop(4, kernel, FALSE, {2})}

MCLoops == ParallelLoops \cup ReductionLoops("for")

\* Around an scf.forall the same loop is taken, annotated or not: the next tile
\* is fetched before the current one is stored.
MCReducingForall == ReductionLoops("forall")

MCMemref == <<"A", "C", "D">>
MCStored == <<2, 3>>
MCStoredOne == <<2>>
=============================================================================
