------------------------------ MODULE MCHexKL ------------------------------
EXTENDS HexKL

F16(kind, m, n) == [type |-> "f16", kind |-> kind, shape |-> <<m, n>>]
F32(kind, m, n) == [type |-> "f32", kind |-> kind, shape |-> <<m, n>>]
CastOf(source, m, n) ==
    [type |-> "f32", kind |-> "cast", source |-> source, shape |-> <<m, n>>]
MulOnto(a, b, c, o) ==
    [kind |-> "matmul", a |-> a, b |-> b, c |-> c, o |-> o, temp |-> "copy for " \o o]
Mul(a, b, o) == MulOnto(a, b, "zero", o)
For(trips, body) == [kind |-> "for", trips |-> trips, body |-> body]
If(taken, body) == [kind |-> "if", taken |-> taken, body |-> body]
Other == [kind |-> "other"]
Function(mode, operands, body) == [mode |-> mode, operands |-> operands, body |-> body]

\* Two weights, the second wide enough for both steps of the weight layout.
MacroOperands ==
    [x |-> F16("arg", 32, 32), w |-> F16("resource", 32, 32),
     w2 |-> F16("resource", 32, 64), y |-> F16("result", 32, 32),
     z |-> F16("result", 32, 64), s |-> F32("result", 32, 32),
     wc |-> CastOf("w", 32, 32), xc |-> CastOf("x", 32, 32),
     v |-> F16("arg", 32, 32), p |-> F16("result", 32, 32)]

\* Standalone, adjacent and chained; in loops and conditionals; folded casts; a
\* weight that is no constant, and one side of a cast only, stay on the CPU.
MacroBodies ==
    { << Mul("x", "w", "y"), Mul("y", "w2", "z") >>,
      << Mul("x", "w", "y"), Other, Mul("y", "w2", "z") >>,
      << For(2, << Mul("x", "w", "y") >>), Mul("x", "w2", "z") >>,
      << For(1, << For(2, << Mul("x", "w", "y"), Mul("x", "w2", "z") >>) >>) >>,
      << If(TRUE, << Mul("x", "w", "y"), For(2, << If(TRUE, << Mul("y", "w2", "z") >>) >>) >>) >>,
      << If(FALSE, << Mul("x", "w", "y") >>), For(0, << Mul("x", "w2", "z") >>) >>,
      << Mul("xc", "wc", "s") >>,
      << Mul("x", "w2", "z"), MulOnto("x", "v", "bias", "p") >> }

MicroOperands(m, k, n) ==
    [x |-> F16("arg", m, k), w |-> F16("arg", k, n), y |-> F32("result", m, n),
     t |-> F16("arg", m, k), h |-> CastOf("t", m, k)]

MCFunctions ==
    {Function("macro", MacroOperands, b) : b \in MacroBodies}
    \cup {Function(mode, MicroOperands(d[1], d[2], d[3]), << Mul("x", "w", "y") >>) :
            mode \in {"micro", "runtime"},
            d \in {<<32, 32, 32>>, <<64, 96, 33>>, <<40, 64, 64>>, <<32, 40, 32>>, <<33, 70, 40>>}}

\* A macro weight that is a constant but no resource is taken and not laid out.
MCDenseWeight ==
    {Function("macro", [MacroOperands EXCEPT !.w.kind = "dense"], << Mul("x", "w", "y") >>)}

\* A weight that is an operand of a matmul left to the CPU as well is laid out
\* for both.
MCSharedWeight ==
    {Function("macro", MacroOperands, << Mul("x", "w", "y"), Mul("w", "v", "p") >>)}

\* An f16 result in micro mode, which Passes.td lists as possible.
MCF16Result ==
    {Function("micro", [MicroOperands(32, 32, 32) EXCEPT !.y.type = "f16"],
              << Mul("x", "w", "y") >>)}

=============================================================================
