----------------------------- MODULE ChartMath -----------------------------
(***************************************************************************)
(* The arithmetic of chart.py: which points of a long line are drawn, the  *)
(* interpolated percentile, the step of the y-axis and its ticks. Values   *)
(* are integers; each operator says in which unit.                         *)
(***************************************************************************)
EXTENDS Integers, Sequences, FiniteSetsExt

CeilDiv(a, b) == -((-a) \div b)

\* Mutant: the last point is drawn only if the stride hits it.
DrawIndices_NoLast(n, max) ==
    IF n <= max THEN 0 .. n - 1
    ELSE {i \in 0 .. n - 1 : i % CeilDiv(n, max) = 0}

\* Of n points, the indices that are drawn: all of them, or every stride-th
\* and the last one.
DrawIndices(n, max) ==
    IF n <= max THEN 0 .. n - 1
    ELSE {i \in 0 .. n - 1 : i % CeilDiv(n, max) = 0} \cup {n - 1}

\* The p-th percentile of a sorted sequence, interpolated between its two
\* neighbours, in hundredths.
Percentile(sorted, p) ==
    LET idx == p * (Len(sorted) - 1)
        frac == idx % 100
    IN  IF sorted = <<>> THEN 0
        ELSE sorted[idx \div 100 + 1] * (100 - frac)
                + sorted[CeilDiv(idx, 100) + 1] * frac

\* The largest power of ten below a quarter of the span (target_ticks = 4).
Magnitude(span, decades) == Max({d \in decades : 4 * d <= span})

\* Mutant: the ladder has no 5.
NiceStep_CoarseLadder(span, decades) ==
    LET mag == Magnitude(span, decades)
    IN  Min({s \in {mag, 2 * mag, (5 * mag) \div 2, 10 * mag} : span <= 4 * s})

\* The smallest of 1, 2, 2.5, 5 and 10 times that power which is not below a
\* quarter of the span.
NiceStep(span, decades) ==
    LET mag == Magnitude(span, decades)
    IN  Min({s \in {mag, 2 * mag, (5 * mag) \div 2, 5 * mag, 10 * mag} :
                span <= 4 * s})

\* The multiples of the step on the axis.
Ticks(low, high, step) == {k * step : k \in CeilDiv(low, step) .. high \div step}
=============================================================================
