------------------------------ MODULE BareissLU ------------------------------
(***************************************************************************)
(* Fraction-free LU decomposition of a set of rows of an integer matrix     *)
(* (AffineToLLVM/Utils/BareissLU.cpp), the independence and circuit oracle   *)
(* of the matroid intersection.                                             *)
(*                                                                         *)
(* A matrix is a function of row and column indices that start at 0.  The   *)
(* decomposition works on the transpose: the selected rows are columns of U. *)
(***************************************************************************)
EXTENDS Integers, Sequences, FiniteSets, SequencesExt

Rows(source) == DOMAIN source
Columns(source) == DOMAIN source[0]

\* Mutant: rows that are there already stay.
SymmetricDifferenceUnion(I, rows) == SetToSortSeq(ToSet(I) \cup ToSet(rows), <)

\* The sorted sequence of the rows in exactly one of I and rows.
SymmetricDifference(I, rows) ==
    SetToSortSeq((ToSet(I) \cup ToSet(rows)) \ (ToSet(I) \cap ToSet(rows)), <)

Swapped(f, a, b) == [f EXCEPT ![a] = f[b], ![b] = f[a]]

\* Mutant: the rows of P are not permuted.
SwapRowsNotP(lu, a, b) ==
    [lu EXCEPT !.U = Swapped(@, a, b), !.L = Swapped(@, a, b)]

SwapRows(lu, a, b) ==
    [lu EXCEPT !.U = Swapped(@, a, b), !.L = Swapped(@, a, b), !.P = Swapped(@, a, b)]

\* Below the pivot, divided by the previous pivot; the division is exact.
Eliminate(lu, k) ==
    LET r == lu.rank
        pivot == lu.U[r][k]
        Below == {i \in DOMAIN lu.U : i > r}
        Reduced(i) ==
            [j \in DOMAIN lu.U[i] |->
                CASE j < k -> lu.U[i][j]
                  [] j = k -> 0
                  [] j > k -> (pivot * lu.U[i][j] - lu.U[i][k] * lu.U[r][j]) \div lu.prev]
    IN  [lu EXCEPT
            !.L = [i \in DOMAIN lu.L |->
                     [lu.L[i] EXCEPT ![r] = IF i >= r THEN lu.U[i][k] ELSE @]],
            !.U = [i \in DOMAIN lu.U |-> IF i \in Below THEN Reduced(i) ELSE lu.U[i]],
            !.prev = pivot,
            !.rank = r + 1,
            !.pivotCols = Append(@, k)]

\* One column of the main loop; a column without a pivot is skipped.
Pivot(lu, k) ==
    LET candidates == {i \in DOMAIN lu.U : i >= lu.rank /\ lu.U[i][k] # 0}
    IN  IF candidates = {} THEN lu
        ELSE Eliminate(SwapRows(lu, lu.rank, Min(candidates)), k)

\* update: decompose the rows I of source.
Decompose(source, I) ==
    LET start == [U |-> [i \in Columns(source) |->
                            [k \in 0 .. Len(I) - 1 |-> source[I[k + 1]][i]]],
                  L |-> [i \in Columns(source) |-> [j \in Columns(source) |-> 0]],
                  P |-> [i \in Columns(source) |-> i],
                  prev |-> 1, rank |-> 0, pivotCols |-> <<>>]
    IN  FoldLeft(Pivot, start, [k \in 1 .. Len(I) |-> k - 1])

\* Forward solve: y reduced by the k-th column of L.
ForwardStep(lu, y, k) ==
    [i \in DOMAIN y |->
        IF i <= k THEN y[i]
        ELSE (lu.L[k][k] * y[i] - lu.L[i][k] * y[k])
                \div (IF k = 0 THEN 1 ELSE lu.L[k - 1][k - 1])]

Forward(lu, source, j) ==
    FoldLeft(LAMBDA y, k : ForwardStep(lu, y, k),
             [i \in DOMAIN lu.P |-> source[j][lu.P[i]]],
             [k \in 1 .. lu.rank |-> k - 1])

\* Mutant: the last equation is not looked at.
DependentFirstRows(lu, y) == \A i \in DOMAIN y : (i >= lu.rank /\ i + 1 \in DOMAIN y) => y[i] = 0

\* The system has a solution when nothing is left below the rank.
DependentRest(lu, y) == \A i \in DOMAIN y : i >= lu.rank => y[i] = 0

\* checkDependence without a result: is row j a combination of the rows I?
checkDependence(source, I, j) ==
    IF I = <<>> THEN \A i \in Columns(source) : source[j][i] = 0
    ELSE LET lu == Decompose(source, I) IN DependentRest(lu, Forward(lu, source, j))

\* Backward solve, unknown by unknown from the last pivot.  Fractions are
\* pairs of numerator and denominator.
BackwardStep(lu, y, x, i) ==
    LET j == lu.pivotCols[i + 1]
        later == {k \in DOMAIN x : k > j}
        scale == FoldSet(LAMBDA k, d : d * x[k][2], 1, later)
        s == FoldSet(LAMBDA k, sum : sum + lu.U[i][k] * x[k][1] * (scale \div x[k][2]), 0, later)
    IN  [x EXCEPT ![j] = <<y[i] * scale - s, scale * lu.U[i][j]>>]

\* checkDependence with a result: the rows of I that row j depends on.
Circuit(source, I, j) ==
    LET lu == Decompose(source, I)
        y == Forward(lu, source, j)
        x == FoldLeft(LAMBDA z, i : BackwardStep(lu, y, z, i),
                      [k \in 0 .. Len(I) - 1 |-> <<0, 1>>],
                      Reverse([i \in 1 .. lu.rank |-> i - 1]))
    IN  {I[k + 1] : k \in {k \in DOMAIN x : x[k][1] # 0}}

-----------------------------------------------------------------------------
\* Reference: a set of rows is independent when some square minor of it is
\* not zero.  rows and columns are sequences of the same length.
Det(source, rows, columns) ==
    LET det[r \in Seq(DOMAIN source), c \in Seq(Int)] ==
            IF r = <<>> THEN 1
            ELSE FoldLeft(LAMBDA sum, k :
                            sum + (IF k % 2 = 1 THEN 1 ELSE -1) * source[r[1]][c[k]]
                                    * det[Tail(r), RemoveAt(c, k)],
                          0, [k \in 1 .. Len(c) |-> k])
    IN  det[rows, columns]

Independent(source, S) ==
    \E C \in SUBSET Columns(source) :
        /\ Cardinality(C) = Cardinality(S)
        /\ Det(source, SetToSortSeq(S, <), SetToSortSeq(C, <)) # 0

\* The oracle answers dependence, and a dependent row gets its unique circuit.
CircuitOracle(source, I, j) ==
    LET S == ToSet(I)
    IN  Independent(source, S) =>
          /\ checkDependence(source, I, j) <=> ~Independent(source, S \cup {j})
          /\ (I # <<>> /\ checkDependence(source, I, j)) =>
                Circuit(source, I, j) =
                    {i \in S : Independent(source, (S \ {i}) \cup {j})}

=============================================================================
