------------------------- MODULE MatroidIntersection -------------------------
(***************************************************************************)
(* Intersection of the linear matroid of the rows of a matrix with the       *)
(* partition matroid of their groups                                         *)
(* (AffineToLLVM/Utils/MatroidIntersection.cpp): one round per group, each    *)
(* adding a row by a scan or along a shortest augmenting path.                *)
(***************************************************************************)
EXTENDS BareissLU

EMPTY == -1
START == -2

NumGroups(groups) == 1 + Max({groups[i] : i \in DOMAIN groups})

\* Rows before the end of group t; the groups ascend when prefixOnly is set.
CurEnd(groups, t) == {i \in DOMAIN groups : groups[i] <= t}

\* Rows the fast scan may take.
Scanned(source, groups, prefixOnly, st, t) ==
    {i \in DOMAIN groups :
        /\ IF prefixOnly THEN groups[i] = t ELSE st.occ[groups[i]] = EMPTY
        /\ ~checkDependence(source, st.I, i)}

Add(st, groups, i) ==
    [st EXCEPT !.I = SymmetricDifference(@, <<i>>), !.occ[groups[i]] = i]

\* From j an edge leads to the occupant i of its group and on to the rows whose
\* circuit has this occupant.
Reached(source, st, Rows_, visited, i) ==
    {k \in Rows_ \ (visited \cup ToSet(st.I)) :
        checkDependence(source, st.I, k) /\ i \in Circuit(source, st.I, k)}

Visit(s, j, i, next) ==
    [s EXCEPT !.Q = Tail(@) \o SetToSortSeq(next, <),
              !.visited = @ \cup next,
              !.parent = [k \in DOMAIN @ |-> IF k \in next THEN j ELSE @[k]],
              !.viaIn = [k \in DOMAIN @ |-> IF k \in next THEN i ELSE @[k]]]

\* One row of the queue, until a sink is found or none is left.
Search(source, groups, st, Rows_, sinks, s) ==
    LET j == Head(s.Q)
        i == st.occ[groups[j]]
    IN  CASE s.Q = <<>> \/ s.sink # START -> s
          [] s.Q # <<>> /\ s.sink = START /\ j \in sinks -> [s EXCEPT !.sink = j]
          [] OTHER -> Visit(s, j, i, Reached(source, st, Rows_, s.visited, i))

\* The sources of the search: rows independent of I.
Sources(source, st, Rows_) ==
    {i \in Rows_ \ ToSet(st.I) : ~checkDependence(source, st.I, i)}

StartFrom(groups, sources) ==
    [Q |-> SetToSortSeq(sources, <), visited |-> sources, sink |-> START,
     parent |-> [i \in DOMAIN groups |-> START],
     viaIn |-> [i \in DOMAIN groups |-> START]]

\* Breadth-first search of the exchange graph: a row is queued at most once.
FindSink(source, groups, prefixOnly, st, t) ==
    LET Rows_ == IF prefixOnly THEN CurEnd(groups, t) ELSE DOMAIN groups
        sinks == {j \in DOMAIN groups : IF prefixOnly THEN groups[j] = t ELSE st.occ[groups[j]] = EMPTY}
    IN  FoldLeft(LAMBDA s, k : Search(source, groups, st, Rows_, sinks, s),
                 StartFrom(groups, Sources(source, st, Rows_)),
                 [k \in 1 .. Cardinality(Rows_) |-> k])

\* Mutant: the rows that leave stay in the selection.
AugmentKeepsIn(groups, s, a) ==
    IF a.v = START THEN a
    ELSE [occ |-> [a.occ EXCEPT ![groups[a.v]] = a.v], path |-> Append(a.path, a.v), v |-> s.parent[a.v]]

\* One row back along the path: v enters; the occupant it was reached through
\* leaves.
Augment(groups, s, a) ==
    LET v == a.v
        i == s.viaIn[v]
        left == IF s.parent[v] = START THEN a.occ ELSE [a.occ EXCEPT ![groups[i]] = EMPTY]
        out == IF s.parent[v] = START THEN <<>> ELSE <<i>>
    IN  IF v = START THEN a
        ELSE [occ |-> [left EXCEPT ![groups[v]] = v], path |-> a.path \o out \o <<v>>, v |-> s.parent[v]]

AugmentedFrom(groups, s, start) ==
    FoldLeft(LAMBDA a, k : Augment(groups, s, a), start, [k \in 1 .. Cardinality(DOMAIN groups) |-> k])

Exchanged(st, a) ==
    [st EXCEPT !.I = SymmetricDifference(@, a.path), !.occ = a.occ]

\* Once a round finds no path nothing changes.
AugmentAlong(groups, st, s) ==
    IF s.sink = START THEN [st EXCEPT !.stopped = TRUE]
    ELSE Exchanged(st, AugmentedFrom(groups, s, [occ |-> st.occ, path |-> <<>>, v |-> s.sink]))

\* One round of the main loop.
Round(source, groups, prefixOnly, st, t) ==
    LET scanned == Scanned(source, groups, prefixOnly, st, t)
    IN  CASE st.stopped -> st
          [] ~st.stopped /\ scanned # {} -> Add(st, groups, Min(scanned))
          [] OTHER -> AugmentAlong(groups, st, FindSink(source, groups, prefixOnly, st, t))

\* The rows matroidIntersectionLP selects.
matroidIntersectionLP(source, groups, prefixOnly) ==
    IF DOMAIN groups = {} THEN <<>>
    ELSE FoldLeft(LAMBDA st, t : Round(source, groups, prefixOnly, st, t),
             [I |-> <<>>, occ |-> [g \in 0 .. NumGroups(groups) - 1 |-> EMPTY], stopped |-> FALSE],
             [t \in 1 .. NumGroups(groups) |-> t - 1]).I

-----------------------------------------------------------------------------
CommonIndependent(source, groups) ==
    {S \in SUBSET DOMAIN groups :
        /\ \A a, b \in S : groups[a] = groups[b] => a = b
        /\ Independent(source, S)}

\* The groups a selection covers are 0 .. n - 1.
CoversPrefix(groups, S) == {groups[i] : i \in S} = 0 .. Cardinality(S) - 1

\* No other eligible set is larger.
IsLargest(S, Eligible) ==
    S \in Eligible /\ \A C \in Eligible : Cardinality(C) <= Cardinality(S)

\* The result is the largest common independent set; when prefixOnly, the
\* largest that covers a prefix of the groups.
MaximumSelection(source, groups, prefixOnly) ==
    IsLargest(ToSet(matroidIntersectionLP(source, groups, prefixOnly)),
              {C \in CommonIndependent(source, groups) : prefixOnly => CoversPrefix(groups, C)})

=============================================================================
