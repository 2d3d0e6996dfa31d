------------------------------- MODULE Chart -------------------------------
(***************************************************************************)
(* The dashboard's chart of one asset: one read of the funding history,    *)
(* then the picture that build_funding_chart of chart.py draws of it. The  *)
(* rows may come from the cache of web.py, so the page that draws them has *)
(* a clock of its own: later than the read's, by the age of the entry, or  *)
(* earlier, when a page that started later filled the entry meanwhile.     *)
(***************************************************************************)
EXTENDS FundingFeed, ChartMath

CONSTANTS Late, Early,     \* bounds on that difference, in hours
          PollLookback,    \* the hours the poller reads (_FETCH_LOOKBACK_HOURS)
          EntryRate, ExitRate,        \* the thresholds of the rule
          MarkerRates,     \* the averages a recorded signal may have
          MaxMarkers,      \* bound on the recorded signals
          MaxDraw, MaxTooltip,        \* _MAX_DRAW_POINTS, _MAX_TOOLTIP_POINTS
          TrimPercent      \* the percentile left out at each end (2 in the code)

\* The page asks for the window it shows and one lookback before it.
Display == End - Start - Lookback

ASSUME ClockAssumption ==
    Late \in Nat /\ Early \in Nat /\ Early <= Start /\ Display > 0
ASSUME PollAssumption == PollLookback \in Nat /\ PollLookback > Lookback
ASSUME ThresholdAssumption == EntryRate \in Int /\ ExitRate \in Int
ASSUME MarkerAssumption == MarkerRates \subseteq Int /\ IsFiniteSet(MarkerRates)
ASSUME CapAssumption == MaxDraw \in Nat \ {0} /\ MaxTooltip \in Nat \ {0}
ASSUME TrimAssumption == TrimPercent \in 0 .. 50
\* An average over at most Lookback rows is exact in units of 1 / Scale.
ASSUME ExactAssumption ==
    \A gap \in 1 .. End, n \in 1 .. Lookback : Scale % (gap * n) = 0

VARIABLE view              \* what the page shows of the asset

chartVars == <<history, fetched, call, view>>

NotYet == [pc |-> "none"]
Blank == [pc |-> "blank"]

ChartInit == Init /\ view = NotYet

-----------------------------------------------------------------------------
(* The lines.                                                              *)

\* Mutant: the slice is taken for the window, and not filtered again.
LineAt_Slice(t) ==
    LET slice == {u \in fetched : t - Lookback <= u /\ u <= t}
    IN  SumFunction([u \in slice |-> RatePerHour(fetched, u)])
            \div Cardinality(slice)

\* The trailing line at one settlement, in units of 1 / Scale: compute_signal
\* over a generous slice, each row with the interval it has in the whole read.
LineAt(t) ==
    LET slice == {u \in fetched : t - Lookback <= u /\ u <= t}
        window == Window(slice, t)
    IN  SumFunction([u \in window |-> RatePerHour(fetched, u)])
            \div Cardinality(window)

Shown(now) == {t \in fetched : now - Display <= t /\ t <= now}

ByTime(S) ==
    [i \in 1 .. Cardinality(S) |->
        CHOOSE t \in S : Cardinality({u \in S : u < t}) = i - 1]

Ascending(s) ==
    [k \in DOMAIN s |->
        CHOOSE v \in {s[i] : i \in DOMAIN s} :
            /\ Cardinality({i \in DOMAIN s : s[i] < v}) < k
            /\ k <= Cardinality({i \in DOMAIN s : s[i] <= v})]

-----------------------------------------------------------------------------
(* The y-axis, in units of 1 / (100 * 100 * Scale).                        *)

One == 100 * 100 * Scale
Decades == {One \div 10000, One \div 1000, One \div 100, One \div 10, One,
            10 * One}

\* Mutant: recorded signals do not count.
Domain_NoMarkers(line, raw, markers) ==
    {100 * line[i] : i \in DOMAIN line}
        \cup {100 * Scale * EntryRate, 100 * Scale * ExitRate}
        \cup {Percentile(Ascending(raw), p) : p \in {TrimPercent, 100 - TrimPercent}}

\* What the axis must cover, in hundredths: the trailing line, both thresholds,
\* the recorded signals, and the raw values without their spikes.
Domain(line, raw, markers) ==
    {100 * line[i] : i \in DOMAIN line}
        \cup {100 * Scale * EntryRate, 100 * Scale * ExitRate}
        \cup {100 * Scale * m.avg : m \in markers}
        \cup {Percentile(Ascending(raw), p) : p \in {TrimPercent, 100 - TrimPercent}}

\* The axis leaves 8% free on both sides; a flat line gets one percent.
Axis(domain) ==
    LET flat == Max(domain) = Min(domain)
        vmin == IF flat THEN Min(domain) - 100 * Scale ELSE Min(domain)
        vmax == IF flat THEN Max(domain) + 100 * Scale ELSE Max(domain)
    IN  [low |-> 100 * vmin - 8 * (vmax - vmin),
         high |-> 100 * vmax + 8 * (vmax - vmin)]

\* Spikes are drawn at the edge.
Clamp(v, axis) == Max({Min({v, axis.high}), axis.low})

-----------------------------------------------------------------------------

Picture(now, times, line, raw, markers, axis) ==
    [pc |-> "drawn", now |-> now, times |-> times, line |-> line,
     raw |-> [i \in DOMAIN raw |-> Clamp(100 * 100 * raw[i], axis)],
     drawn |-> DrawIndices(Len(times), MaxDraw),
     tooltip |-> DrawIndices(Len(times), MaxTooltip),
     markers |-> markers, axis |-> axis,
     ticks |-> Ticks(axis.low, axis.high,
                     NiceStep(axis.high - axis.low, Decades))]

Signals == [time: {Start + Lookback, End}, avg: MarkerRates]

InWindow(now, signals) ==
    {m \in signals : now - Display <= m.time /\ m.time <= now}

\* The page draws the rows with its own clock, and the recorded signals it has
\* read; without a settlement in the window there is no chart. (Each \E names
\* a value; TLC computes it once.)
Draw(now, signals) ==
    /\ call.pc = "done"
    /\ view = NotYet
    /\ IF Shown(now) = {} THEN view' = Blank
       ELSE \E times \in {ByTime(Shown(now))} :
            \E line \in {[i \in DOMAIN times |-> LineAt(times[i])]},
               raw \in {[i \in DOMAIN times |-> RatePerHour(fetched, times[i])]},
               markers \in {InWindow(now, signals)} :
            \E axis \in {Axis(Domain(line, raw, markers))} :
               view' = Picture(now, times, line, raw, markers, axis)
    /\ UNCHANGED feedVars

\* A failed read leaves the row of the asset blank.
DrawBlank ==
    /\ call.pc = "raised"
    /\ view = NotYet
    /\ view' = Blank
    /\ UNCHANGED feedVars

ChartNext ==
    \/ Next /\ UNCHANGED view
    \/ \E now \in End - Early .. End + Late, signals \in SUBSET Signals :
          Cardinality(signals) <= MaxMarkers /\ Draw(now, signals)
    \/ DrawBlank

ChartSpec == ChartInit /\ [][ChartNext]_chartVars

\* Each attempt of the read ends (see FairSpec of FundingFeed).
ChartFairSpec == ChartSpec /\ WF_feedVars(Next)

-----------------------------------------------------------------------------
(* Properties                                                              *)

Drawn == view.pc = "drawn"

\* The average the poller took at the instant t, from a read of its own.
PollRead(t) == {u \in DOMAIN history : t - PollLookback <= u /\ u <= t}
PollAverage(t) ==
    LET average == TrailingAverage(PollRead(t), t)
    IN  average.sum \div average.count

\* The trailing line shows at each settlement what the poller acted on then,
\* although the poller read another range at another time and the page may draw
\* cached rows: "exactly the signal the poller acts on" (chart.py:12-14). Where
\* a read has no row before the window, its first row counts for one hour.
LineIsPolledSignal ==
    Drawn => \A i \in DOMAIN view.times :
        LET t == view.times[i]
        IN  /\ \E u \in fetched : u <= t - Lookback
            /\ \E u \in PollRead(t) : u <= t - Lookback
            => view.line[i] = PollAverage(t)

\* Thinning keeps a point of every stretch of the line: the first and the last
\* one, none further from a drawn one than a stride, and at most one more than
\* the cap ("Cap on points actually DRAWN per line", chart.py:30; the last
\* point may come on top).
Thinned(kept, n, cap) ==
    /\ kept \subseteq 0 .. n - 1
    /\ {0, n - 1} \subseteq kept
    /\ Cardinality(kept) <= cap + 1
    /\ \A i \in 0 .. n - 1 : \E k \in kept : k <= i /\ (i - k) * cap < n + cap

ThinningKeepsShape ==
    Drawn => /\ Thinned(view.drawn, Len(view.times), MaxDraw)
             /\ Thinned(view.tooltip, Len(view.times), MaxTooltip)

\* Nothing is drawn outside the plot (chart.py:196-239): not the trailing line
\* and the markers, which are not clamped, and neither threshold disappears.
PlotHoldsAll ==
    Drawn =>
        LET inside(v) == view.axis.low <= v /\ v <= view.axis.high
        IN  /\ \A i \in DOMAIN view.times :
                  inside(100 * 100 * view.line[i]) /\ inside(view.raw[i])
            /\ \A m \in view.markers : inside(One * m.avg)
            /\ inside(One * EntryRate) /\ inside(One * ExitRate)

\* Whatever the span of the values, the axis has at least two labels and never
\* more than five (chart.py:287-292).
AxisIsLabelled == Drawn => Cardinality(view.ticks) \in 2 .. 5
=============================================================================
