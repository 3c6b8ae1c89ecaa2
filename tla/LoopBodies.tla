----------------------------- MODULE LoopBodies -----------------------------
(***************************************************************************)
(* Rewrites of what a loop runs in each iteration: scalar operations that    *)
(* leave a generic (HoistScalarOps.cpp), loops that are unrolled             *)
(* (SCFLoopUnrollPass.cpp) and powers that become products                   *)
(* (SmallExponentToMultiplyPass.cpp).                                        *)
(*                                                                           *)
(* A generic has inputs, each scalar (rank 0) or not, and a body: a sequence *)
(* of operations on values.  A value is <<"arg", i>> for the i-th block      *)
(* argument, inputs first and then the output, <<"op", i>> for the result of *)
(* the i-th operation of the body, or <<"outer", v>> for a value from        *)
(* outside.  The last operation is the yield.                                *)
(***************************************************************************)
EXTENDS Integers, Sequences, FiniteSets, SequencesExt

-----------------------------------------------------------------------------
\* What an operation computes is the term built of its name and operands.
ValueOf(v, args, results) ==
    CASE v[1] = "arg" -> args[v[2]]
      [] v[1] = "op" -> results[v[2]]
      [] v[1] = "outer" -> v

Term(op, args, results) ==
    <<op.name>> \o [k \in DOMAIN op.operands |-> ValueOf(op.operands[k], args, results)]

\* The terms of a body, given those of the block arguments.
Terms(body, args) ==
    FoldLeft(LAMBDA results, op : Append(results, Term(op, args, results)), <<>>, body)

\* What a generic yields for one element: an input is a scalar, which is the
\* term of the operation it was hoisted from, or an element of a tensor.
Yielded(g) ==
    LET args == [i \in DOMAIN g.ins |-> g.ins[i].term] \o <<<<"out">>>>
    IN  Last(Terms(g.body, args))

-----------------------------------------------------------------------------
\* HoistScalarOps.cpp.

isConstant(body, v) == v[1] = "op" /\ body[v[2]].name = "constant"
isInvariant(g, v) ==
    \/ v[1] = "outer"
    \/ isConstant(g.body, v)
    \/ v[1] = "arg" /\ v[2] <= Len(g.ins) /\ g.ins[v[2]].scalar

\* Operations of arith and math with a scalar result.
findHoistableOps(g) ==
    {i \in DOMAIN g.body : /\ g.body[i].scalar
                           /\ \A k \in DOMAIN g.body[i].operands : isInvariant(g, g.body[i].operands[k])}

\* In order of the body: their terms, computed outside.
InOrder(S) == SetToSortSeq(S, LAMBDA a, b : a < b)
hoistOperations(g, hoistable) ==
    LET args == [i \in DOMAIN g.ins |-> g.ins[i].term]
        \* A hoisted operand is found by the operation it is the result of.
        Hoist(terms, i) == [terms EXCEPT ![i] = Term(g.body[i], args, terms)]
        terms == FoldLeft(Hoist, [i \in DOMAIN g.body |-> <<"inside">>], InOrder(hoistable))
    IN  [k \in DOMAIN InOrder(hoistable) |-> [scalar |-> TRUE, term |-> terms[InOrder(hoistable)[k]]]]

\* The faulty variant leaves the output the number it had.
buildNewGenericOpUnshifted(g, hoistable, newInputs) ==
    LET kept == InOrder(DOMAIN g.body \ hoistable)
        Mapped(v) ==
            CASE v[1] = "op" /\ v[2] \in hoistable -> <<"arg", Len(g.ins) + SelectInSeq(InOrder(hoistable), LAMBDA i : i = v[2])>>
              [] v[1] = "op" /\ v[2] \notin hoistable -> <<"op", SelectInSeq(kept, LAMBDA i : i = v[2])>>
              [] OTHER -> v
    IN  [ins |-> g.ins \o newInputs,
         body |-> [k \in DOMAIN kept |-> [g.body[kept[k]] EXCEPT !.operands = [j \in DOMAIN @ |-> Mapped(@[j])]]]]

\* Old inputs keep their place, hoisted values follow them, the output moves.
buildNewGenericOp(g, hoistable, newInputs) ==
    LET kept == InOrder(DOMAIN g.body \ hoistable)
        Mapped(v) ==
            CASE v[1] = "arg" /\ v[2] > Len(g.ins) -> <<"arg", v[2] + Len(newInputs)>>
              [] v[1] = "op" /\ v[2] \in hoistable -> <<"arg", Len(g.ins) + SelectInSeq(InOrder(hoistable), LAMBDA i : i = v[2])>>
              [] v[1] = "op" /\ v[2] \notin hoistable -> <<"op", SelectInSeq(kept, LAMBDA i : i = v[2])>>
              [] OTHER -> v
        Clone(op) == [op EXCEPT !.operands = [k \in DOMAIN @ |-> Mapped(@[k])]]
    IN  [ins |-> g.ins \o newInputs, body |-> [k \in DOMAIN kept |-> Clone(g.body[kept[k]])]]

runOnGenericOp(g) ==
    LET hoistable == findHoistableOps(g)
    IN  IF hoistable = {} THEN g ELSE buildNewGenericOp(g, hoistable, hoistOperations(g, hoistable))

\* Until nothing changes: every round but the last takes an operation out.
HoistScalarOps(g) == FoldLeft(LAMBDA h, op : runOnGenericOp(h), g, g.body)

\* The same is yielded, and no operation that is left has only scalar inputs.
HoistedBodyIsSame(g) ==
    \E h \in {HoistScalarOps(g)} : Yielded(h) = Yielded(g) /\ findHoistableOps(h) = {}

-----------------------------------------------------------------------------
\* SCFLoopUnrollPass.cpp: a loop of constant bounds, as the values its
\* induction variable takes.
Iterations(lb, ub, step) == SelectSeq([k \in 1 .. (IF ub > lb THEN ub - lb ELSE 0) |-> lb + k - 1],
                                      LAMBDA i : (i - lb) % step = 0)

shouldUnrollLoop(loop, factor) ==
    LET diff == loop.ub - loop.lb
        tripCount == 1 + (diff - 1) \div loop.step
    IN  /\ loop.innermost /\ ~loop.iterArgs
        /\ loop.step > 0 /\ factor > 0 /\ diff > 0
        /\ tripCount >= factor /\ tripCount % factor = 0 /\ factor <= 16

\* The body as often as the factor says, each copy one step on.
unrollLoop(loop, factor) ==
    FlattenSeq([k \in DOMAIN Iterations(loop.lb, loop.ub, loop.step * factor) |->
                   [i \in 1 .. factor |-> Iterations(loop.lb, loop.ub, loop.step * factor)[k] + (i - 1) * loop.step]])

UnrolledLoopIsSame(loop, factor) ==
    shouldUnrollLoop(loop, factor) => unrollLoop(loop, factor) = Iterations(loop.lb, loop.ub, loop.step)

-----------------------------------------------------------------------------
\* SmallExponentToMultiplyPass.cpp: squares and products, from the lowest bit
\* of the exponent up.
buildPowPos(base, exponent) ==
    LET Bit(s, b) ==
            IF s.k = 0 THEN s
            ELSE [result |-> IF s.k % 2 = 1 THEN s.result * s.cur ELSE s.result,
                  k |-> s.k \div 2, cur |-> IF s.k \div 2 > 0 THEN s.cur * s.cur ELSE s.cur]
    IN  IF exponent = 0 THEN 1 ELSE IF exponent = 1 THEN base
        ELSE FoldLeft(Bit, [result |-> 1, k |-> exponent, cur |-> base], [b \in 1 .. exponent |-> b]).result

Magnitude(n) == IF n < 0 THEN -n ELSE n
\* The value as a quotient; nothing when the power stays as it is.
SmallExponentToMultiply(base, n, cutoff, allowNeg) ==
    IF Magnitude(n) > cutoff \/ (n < 0 /\ ~allowNeg) THEN {}
    ELSE {IF n >= 0 THEN <<buildPowPos(base, n), 1>> ELSE <<1, buildPowPos(base, Magnitude(n))>>}

PowerIsSame(base, n, cutoff, allowNeg) ==
    \A q \in SmallExponentToMultiply(base, n, cutoff, allowNeg) :
        q = IF n >= 0 THEN <<base^n, 1>> ELSE <<1, base^Magnitude(n)>>

=============================================================================
