---------------------------- MODULE PipelineFusion ----------------------------
(***************************************************************************)
(* Fusion of a producer loop nest into its consumer                          *)
(* (AffineToLLVM/AffinePipelineFusionPass.cpp).                               *)
(*                                                                         *)
(* A problem pb holds one producer and one consumer:                          *)
(*   dst, src   steps of the loops of the consumer and of the producer;       *)
(*   size       upper bounds, of the consumer's loops and then the producer's; *)
(*   perfect    number of perfectly nested loops of the consumer;             *)
(*   cons       constraints [eq, row] on the loop variables, consumer first:   *)
(*              the accesses meet, and the bounds that depend on other loops.  *)
(* A row lists the coefficients and ends in the constant; without eq it is     *)
(* at least 0.                                                              *)
(***************************************************************************)
EXTENDS MatroidIntersection

Dot(row, p) == FoldLeft(LAMBDA sum, k : sum + row[k] * p[k], row[Len(row)],
                        [k \in 1 .. Len(p) |-> k])

Combine(a, x, b, y) == [k \in DOMAIN x |-> a * x[k] + b * y[k]]

NumVars(pb) == Len(pb.dst) + Len(pb.src)
Steps(pb) == pb.dst \o pb.src

\* restrictToTiledLoops: the inter-tile loops when the outermost loop is tiled.
restrictToTiledLoops(steps) ==
    IF steps[1] = 1 THEN Len(steps)
    ELSE Max({d \in 1 .. Len(steps) : \A k \in 1 .. d : steps[k] # 1})

DstDepth(pb) == Min({pb.perfect, restrictToTiledLoops(pb.dst)})
SrcDepth(pb) == restrictToTiledLoops(pb.src)

\* Columns of the loops the schedule ranges over.
SrcColumn(pb, j) == Len(pb.dst) + j
Kept(pb, depth) == 1 .. depth \cup {SrcColumn(pb, j) : j \in 1 .. SrcDepth(pb)}

\* projectOut: by an equality when there is one, else by pairs of bounds.
Eliminate1(cons, x) ==
    LET Eqs == {c \in cons : c.eq /\ c.row[x] \in {1, -1}}
        Lower == {c \in cons : c.row[x] > 0}
        Upper == {c \in cons : c.row[x] < 0}
        Solved(e) == {[c EXCEPT !.row = Combine(1, @, -(@[x] * e.row[x]), e.row)] : c \in cons \ {e}}
        Paired == {[eq |-> FALSE, row |-> Combine(-u.row[x], l.row, l.row[x], u.row)] :
                      l \in Lower, u \in Upper}
        projected == IF Eqs # {} THEN Solved(CHOOSE e \in Eqs : TRUE)
                     ELSE (cons \ (Lower \cup Upper)) \cup Paired
    IN  {c \in projected : \E k \in 1 .. Len(c.row) - 1 : c.row[k] # 0}

\* The bounds of the loops of the bands.
Box(pb) ==
    LET Unit(x, a, c) == [eq |-> FALSE, row |-> [k \in 1 .. NumVars(pb) + 1 |->
                              CASE k = x -> a [] k = NumVars(pb) + 1 -> c [] OTHER -> 0]]
    IN  UNION {{Unit(x, 1, 0), Unit(x, -1, pb.size[x] - 1)} : x \in Kept(pb, DstDepth(pb))}

\* computeSrcToDstRelation: dstElim[i] relates the producer's loops to the
\* first i loops of the consumer.
computeSrcToDstRelation(pb, i) ==
    FoldLeft(Eliminate1, pb.cons \cup Box(pb),
             SetToSortSeq(1 .. NumVars(pb) \ Kept(pb, i), >))

\* updateMatroid: the bounds v[i] >= M r + c - L v of the loop i, with
\* coefficient 1 or -1; an equality wins over inequalities.
Bounds(rel, i) ==
    LET Eqs == {c \in rel : c.eq /\ c.row[i] # 0}
    IN  IF Eqs # {} THEN Eqs ELSE {c \in rel : ~c.eq /\ c.row[i] > 0}

BoundChoices(pb, i) ==
    LET Choice(c, a) ==
            [dim |-> i,
             L |-> [k \in 1 .. i - 1 |-> a * c.row[k]],
             M |-> [j \in 1 .. SrcDepth(pb) |-> -a * c.row[SrcColumn(pb, j)]],
             c |-> -a * c.row[NumVars(pb) + 1]]
    IN  {Choice(c, c.row[i]) :
            c \in {c \in Bounds(computeSrcToDstRelation(pb, i), i) : c.row[i] \in {1, -1}}}

\* The elements, numbered from 0, that the matroid intersection selects.
Picked(pb, all) ==
    matroidIntersectionLP([n \in 0 .. Len(all) - 1 |-> [j \in 0 .. SrcDepth(pb) - 1 |-> all[n + 1].M[j + 1]]],
                          [n \in 0 .. Len(all) - 1 |-> all[n + 1].dim - 1], TRUE)

AllBounds(pb) ==
    FoldLeft(LAMBDA s, i : s \o SetToSeq(BoundChoices(pb, i)), <<>>, [i \in 1 .. DstDepth(pb) |-> i])

\* The rows the matroid intersection selects, one per loop of a prefix.
Selected(pb) ==
    LET Of(all, picked) == [n \in DOMAIN picked |-> all[picked[n] + 1]]
        From(all) == Of(all, Picked(pb, all))
    IN  From(AllBounds(pb))

\* Mutant: the coefficients of the outer loops are not eliminated.
ForwardEliminatedNot(sel) == [i \in DOMAIN sel |-> sel[i].M \o <<sel[i].c>>]

ForwardEliminated(sel) ==
    LET Next_(rows, i) ==
            Append(rows, FoldLeft(LAMBDA row, k : Combine(1, row, -sel[i].L[k], rows[k]),
                                  sel[i].M \o <<sel[i].c>>, [k \in 1 .. i - 1 |-> k]))
    IN  FoldLeft(Next_, <<>>, [i \in DOMAIN sel |-> i])

\* Row i maps a producer iteration to consumer loop i.
SourceSchedule(pb) == ForwardEliminated(Selected(pb))

\* Tiled producer: steps must match, and constants round up to a tile.
StepsMatch(pb, sched) ==
    \A i \in DOMAIN sched :
        LET Reach(j) == sched[i][j] * pb.src[j]
        IN  /\ \A j \in 1 .. SrcDepth(pb) : sched[i][j] >= 0 /\ Reach(j) % pb.dst[i] = 0
            /\ \E j \in 1 .. SrcDepth(pb) : Reach(j) = pb.dst[i]

RoundToTiles(pb, sched) ==
    [i \in DOMAIN sched |->
        [sched[i] EXCEPT ![Len(sched[i])] = -((-@) \div pb.dst[i]) * pb.dst[i]]]

\* The columns of the pivots of the Hermite normal form: those that raise the
\* rank.  The pivots are all 1 when the minor of these columns is 1 or -1.
Pivots(sched, n) ==
    LET column(j) == [i \in 0 .. Len(sched) - 1 |-> sched[i + 1][j]]
        table == [j \in 1 .. n |-> column(j)]
        Rank(J) == Max({Cardinality(S) : S \in {S \in SUBSET J : Independent(0 :> column(1) @@ table, S)}})
    IN  {j \in 1 .. n : Rank(1 .. j) > Rank(1 .. j - 1)}

UnitPivots(sched, n) ==
    LET P == SetToSortSeq(Pivots(sched, n), <)
    IN  Det([i \in DOMAIN sched |-> sched[i]], [i \in DOMAIN sched |-> i], P) \in {1, -1}

\* A schedule that fails a check is none: <<>>.
Checked(pb, sched) ==
    LET tiled == pb.src[1] # 1
    IN  CASE sched = <<>> \/ (tiled /\ ~StepsMatch(pb, sched)) \/ ~UnitPivots(sched, SrcDepth(pb)) -> <<>>
          [] tiled -> RoundToTiles(pb, sched)
          [] OTHER -> sched

computeSchedule(pb) == Checked(pb, SourceSchedule(pb))

-----------------------------------------------------------------------------
\* Iterations, as sequences of loop variables.
Iterations(steps, size) ==
    {p \in [DOMAIN steps -> 0 .. Max(ToSet(size)) - 1] :
        \A k \in DOMAIN steps : p[k] < size[k] /\ p[k] % steps[k] = 0}

SrcDomain(pb) ==
    Iterations(SubSeq(pb.src, 1, SrcDepth(pb)),
               SubSeq(pb.size, Len(pb.dst) + 1, Len(pb.dst) + SrcDepth(pb)))
DstDomain(pb, depth) == Iterations(SubSeq(pb.dst, 1, depth), SubSeq(pb.size, 1, depth))

\* Producer iteration r and consumer iteration v (of the first depth loops)
\* touch the same element.
Dependent(pb, depth) ==
    LET All == {p \in Iterations(Steps(pb), pb.size) :
                  \A c \in pb.cons : IF c.eq THEN Dot(c.row, p) = 0 ELSE Dot(c.row, p) >= 0}
    IN  {<<SubSeq(p, Len(pb.dst) + 1, Len(pb.dst) + SrcDepth(pb)), SubSeq(p, 1, depth)>> : p \in All}

At(sched, r) == [i \in DOMAIN sched |-> Dot(sched[i], r)]

\* Producer iterations some consumer iteration runs: outside the producer's
\* domain they are what the guard has to keep out.
Around(pb) ==
    LET m == Max(ToSet(pb.size)) IN [1 .. SrcDepth(pb) -> -2 * m .. 2 * m]

\* The producer's iterations: those that are used, when it can be removed.
Produced(pb, depth, canRemove) ==
    IF canRemove THEN {d[1] : d \in Dependent(pb, depth)} ELSE SrcDomain(pb)

\* pipelineFuse: what consumer iteration v runs.  The free loops take every
\* value of the producer's bounds, the pivots follow, and the guard admits v
\* when some iteration of the producer is scheduled at v.
Pipelined(pb, sched, canRemove) ==
    LET Allowed(free, guard) ==
            {<<r, At(sched, r)>> : r \in
                {r \in Around(pb) :
                    /\ \A j \in free : r[j] % pb.src[j] = 0 /\ r[j] \in 0 .. pb.size[SrcColumn(pb, j)] - 1
                    /\ At(sched, r) \in guard}}
    IN  Allowed(1 .. SrcDepth(pb) \ Pivots(sched, SrcDepth(pb)),
                {At(sched, r) : r \in Produced(pb, Len(sched), canRemove)} \cap DstDomain(pb, Len(sched)))

\* The part of the producer left before the consumer.
Remainder(pb, sched, canRemove) ==
    LET Outside(domain) == {r \in Produced(pb, Len(sched), canRemove) : At(sched, r) \notin domain}
    IN  Outside(DstDomain(pb, Len(sched)))

-----------------------------------------------------------------------------
LexLeq(a, b) ==
    \A k \in DOMAIN a : (\A l \in 1 .. k - 1 : a[l] = b[l]) => a[k] <= b[k]

\* Each producer iteration a consumer needs has run before it, once; nothing
\* outside the producer's domain runs; a producer that stays runs completely.
DependencesKept(pb, depth, canRemove, runs, before) ==
    LET ran == {e[1] : e \in runs}
    IN  /\ ran \cap before = {}
        /\ IF canRemove THEN ran \cup before \subseteq SrcDomain(pb) ELSE ran \cup before = SrcDomain(pb)
        /\ \A d \in Dependent(pb, depth) :
              \/ d[1] \in before
              \/ \E e \in runs : e[1] = d[1] /\ LexLeq(e[2], d[2])

FusionPreservesDependences(pb, canRemove) ==
    \A sched \in {computeSchedule(pb)} \ {<<>>} :
        DependencesKept(pb, Len(sched), canRemove,
                        Pipelined(pb, sched, canRemove), Remainder(pb, sched, canRemove))

=============================================================================
