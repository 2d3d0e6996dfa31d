---------------------------- MODULE ChartProofs ----------------------------
(***************************************************************************)
(* Thinning keeps the shape of a line of any length under any cap, the     *)
(* trailing line is the signal the poller acted on, nothing falls out of   *)
(* the plot, and the axis is labelled.                                     *)
(***************************************************************************)
EXTENDS Chart, FundingFeedProofs

-----------------------------------------------------------------------------
(* Arithmetic of the stride.                                               *)

LEMMA Division ==
    ASSUME NEW a \in Int, NEW b \in Nat \ {0}
    PROVE  /\ a = b * (a \div b) + (a % b)
           /\ a % b \in 0 .. b - 1 /\ a \div b \in Int
  OBVIOUS

LEMMA ProductSigns ==
    /\ \A x, y \in Int : (-x) * y = -(x * y) /\ x * y = y * x /\ x * y \in Int
    /\ \A x, y \in Int : x <= 0 /\ 0 <= y => x * y <= 0
    /\ \A x, y, z \in Int : (x - y) * z = x * z - y * z
    /\ \A x, y, z \in Int : x <= y /\ 0 <= z => x * z <= y * z
  OBVIOUS

\* A multiple of s leaves no rest.
LEMMA MultipleHasNoRest ==
    ASSUME NEW s \in Nat \ {0}, NEW j \in Int
    PROVE  (s * j) % s = 0
  OBVIOUS

\* cap strides reach the end of n points, and not a whole stride further.
LEMMA Stride ==
    ASSUME NEW n \in Nat \ {0}, NEW cap \in Nat \ {0}
    PROVE  /\ CeilDiv(n, cap) \in Nat \ {0}
           /\ n <= CeilDiv(n, cap) * cap
           /\ CeilDiv(n, cap) * cap < n + cap
  <1> DEFINE q == (-n) \div cap
             r == (-n) % cap
             p == cap * q
  <1>1. -n = p + r /\ r \in 0 .. cap - 1 /\ q \in Int /\ p \in Int
    BY Division
  <1>2. CeilDiv(n, cap) = -q
    BY DEF CeilDiv
  <1>3. (-q) * cap = -p
    BY <1>1, ProductSigns
  <1>4. n <= -p /\ -p < n + cap
    <2> HIDE DEF p, r
    <2> QED
      BY <1>1
  <1>5. q < 0
    <2>1. ASSUME q >= 0 PROVE FALSE
      <3>1. (-q) * cap <= 0
        BY <1>1, <2>1, ProductSigns
      <3> HIDE DEF q, p
      <3> QED
        BY <1>1, <1>3, <1>4, <3>1
    <2> HIDE DEF q
    <2> QED
      BY <1>1, <2>1
  <1> HIDE DEF q, p
  <1> QED
    BY <1>1, <1>2, <1>3, <1>4, <1>5

\* Below n there are at most cap multiples of the stride.
LEMMA MultiplesWithinCap ==
    ASSUME NEW n \in Nat \ {0}, NEW cap \in Nat \ {0}
    PROVE  LET kept == {i \in 0 .. n - 1 : i % CeilDiv(n, cap) = 0}
           IN  IsFiniteSet(kept) /\ Cardinality(kept) <= cap
  <1> DEFINE s == CeilDiv(n, cap)
             kept == {i \in 0 .. n - 1 : i % s = 0}
             at == [j \in 0 .. cap - 1 |-> j * s]
             all == {at[j] : j \in 0 .. cap - 1}
  <1>1. s \in Nat \ {0} /\ n <= s * cap
    BY Stride
  <1> HIDE DEF s
  <1>2. at \in Surjection(0 .. cap - 1, all)
    BY DEF Surjection
  <1>3. IsFiniteSet(0 .. cap - 1) /\ Cardinality(0 .. cap - 1) = cap
    BY FS_Interval
  <1>4. IsFiniteSet(all) /\ Cardinality(all) <= cap
    BY <1>2, <1>3, FS_Surjection
  <1>5. ASSUME NEW i \in kept PROVE i \in all
    <2> DEFINE j == i \div s
    <2>1. i \in Int /\ i < n /\ 0 <= i /\ i % s = 0
      OBVIOUS
    <2>2. i = s * j /\ j \in Int
      BY <1>1, <2>1, Division
    <2>3. j < cap
      <3>1. ASSUME cap <= j PROVE FALSE
        <4>1. cap * s <= j * s
          BY <1>1, <2>2, <3>1, ProductSigns
        <4>2. cap * s = s * cap /\ j * s = s * j /\ s * j \in Int /\ s * cap \in Int
          BY <1>1, <2>2, ProductSigns
        <4> DEFINE x == s * cap
                   y == s * j
        <4>3. x \in Int /\ y \in Int /\ x <= y /\ n <= x /\ i = y
          BY <4>1, <4>2, <2>2, <1>1
        <4> HIDE DEF x, y
        <4> QED
          BY <4>3, <2>1
      <3> HIDE DEF j
      <3> QED
        BY <2>2, <3>1
    <2>4. 0 <= j
      <3>1. ASSUME j < 0 PROVE FALSE
        <4>1. j * s <= (-1) * s
          BY <1>1, <2>2, <3>1, ProductSigns
        <4>2. j * s = s * j /\ (-1) * s = -s
          BY <1>1, <2>2, ProductSigns
        <4> QED
          BY <4>1, <4>2, <2>1, <2>2, <1>1
      <3> HIDE DEF j
      <3> QED
        BY <2>2, <3>1
    <2>5. j \in 0 .. cap - 1 /\ i = j * s
      BY <1>1, <2>2, <2>3, <2>4, ProductSigns
    <2> HIDE DEF j
    <2> QED
      BY <2>5
  <1>6. kept \in SUBSET all
    BY <1>5
  <1>7. Cardinality(kept) <= Cardinality(all) /\ IsFiniteSet(kept)
    BY <1>4, <1>6, FS_Subset
  <1>8. Cardinality(kept) \in Nat /\ Cardinality(all) \in Nat
    BY <1>4, <1>7, FS_CardinalityType
  <1>9. IsFiniteSet(kept) /\ Cardinality(kept) <= cap
    <2> HIDE DEF kept, all
    <2> QED
      BY <1>4, <1>7, <1>8
  <1> QED
    BY <1>9 DEF s

-----------------------------------------------------------------------------
(* The thinned line.                                                       *)

\* What _draw_indices keeps of any n points under any cap.
LEMMA DrawIndicesThin ==
    ASSUME NEW n \in Nat \ {0}, NEW cap \in Nat \ {0}
    PROVE  Thinned(DrawIndices(n, cap), n, cap)
  <1> DEFINE kept == DrawIndices(n, cap)
  <1>1. CASE n <= cap
    <2>1. kept = 0 .. n - 1
      BY <1>1 DEF DrawIndices
    <2>2. Cardinality(0 .. n - 1) = n
      BY FS_Interval
    <2>3. ASSUME NEW i \in 0 .. n - 1
          PROVE  \E k \in kept : k <= i /\ (i - k) * cap < n + cap
      <3>1. i <= i /\ (i - i) * cap = 0 /\ 0 < n + cap
        OBVIOUS
      <3> HIDE DEF kept
      <3>2. i \in kept
        BY <2>1
      <3> QED
        BY <3>1, <3>2
    <2> QED
      BY <1>1, <2>1, <2>2, <2>3 DEF Thinned
  <1>2. CASE ~(n <= cap)
    <2> DEFINE s == CeilDiv(n, cap)
               multiples == {i \in 0 .. n - 1 : i % s = 0}
    <2>1. s \in Nat \ {0} /\ s * cap < n + cap
      BY Stride
    <2>2. kept = multiples \cup {n - 1}
      BY <1>2 DEF DrawIndices
    <2>3. IsFiniteSet(multiples) /\ Cardinality(multiples) <= cap
      BY MultiplesWithinCap
    <2> HIDE DEF s
    <2>4. Cardinality(kept) <= cap + 1
      <3>1. Cardinality(multiples) \in Nat
        BY <2>3, FS_CardinalityType
      <3>2. Cardinality(multiples \cup {n - 1})
                \in {Cardinality(multiples), Cardinality(multiples) + 1}
        BY <2>3, FS_AddElement
      <3> HIDE DEF multiples, kept
      <3> QED
        BY <2>2, <2>3, <3>1, <3>2
    <2>5. 0 \in multiples
      BY <2>1
    <2>6. ASSUME NEW i \in 0 .. n - 1
          PROVE  \E k \in kept : k <= i /\ (i - k) * cap < n + cap
      <3> DEFINE rest == i % s
                 k == s * (i \div s)
      <3>1. /\ i = k + rest /\ rest \in 0 .. s - 1
            /\ i \div s \in Int /\ k \in Int
        BY <2>1, Division
      <3>2. rest * cap <= s * cap
        BY <2>1, <3>1, ProductSigns
      <3>3. (i - k) * cap < n + cap
        <4>1. i - k = rest
          <5> HIDE DEF k, rest
          <5> QED
            BY <3>1, <2>1
        <4>2. rest * cap \in Int /\ s * cap \in Int
          BY <2>1, <3>1
        <4> HIDE DEF k, rest
        <4> QED
          BY <2>1, <3>2, <4>1, <4>2
      <3>4. k % s = 0
        <4>1. k = s * (k \div s) + (k % s) /\ k % s \in 0 .. s - 1
                 /\ k \div s \in Int
          BY <2>1, <3>1, Division
        <4> QED
          BY <2>1, <3>1, <4>1, MultipleHasNoRest
      <3>5. 0 <= k /\ k <= i
        <4>1. 0 <= i \div s
          BY <2>1
        <4>2. 0 <= k
          BY <2>1, <3>1, <4>1, ProductSigns
        <4> HIDE DEF k, rest
        <4> QED
          BY <2>1, <3>1, <4>2
      <3> HIDE DEF k, rest
      <3>6. k \in multiples
        BY <3>1, <3>4, <3>5
      <3> QED
        BY <2>2, <3>3, <3>5, <3>6
    <2> QED
      BY <2>2, <2>4, <2>5, <2>6 DEF Thinned
  <1> QED
    BY <1>1, <1>2

-----------------------------------------------------------------------------
(* The page.                                                               *)

\* The rows of a read are finitely many times, also where the venue's page is
\* smaller than the client's.
LEMMA FetchedIsFinite ==
    ASSUME FeedTypeOK
    PROVE  IsFiniteSet(fetched) /\ fetched \subseteq Nat
  <1>1. PICK T \in SUBSET (0 .. End + 1) : history \in [T -> Rates]
    BY DEF FeedTypeOK
  <1>2. fetched \subseteq 0 .. End + 1
    BY <1>1 DEF FeedTypeOK
  <1>3. IsFiniteSet(0 .. End + 1)
    BY FS_Interval, RangeAssumption
  <1>4. IsFiniteSet(fetched)
    BY <1>2, <1>3, FS_Subset
  <1>5. 0 .. End + 1 \subseteq Nat
    BY RangeAssumption
  <1> QED
    BY <1>2, <1>4, <1>5

\* A page with at least one settlement in its window thins a line of at least
\* one point.
LEMMA DrawThins ==
    ASSUME FeedTypeOK, NEW now \in Int, NEW signals, Draw(now, signals)
    PROVE  ThinningKeepsShape'
  <1>1. CASE Shown(now) = {}
    BY <1>1 DEF Draw, ThinningKeepsShape, Drawn, Blank
  <1>2. CASE Shown(now) # {}
    <2>1. PICK line, raw, markers, axis :
              view' = Picture(now, ByTime(Shown(now)), line, raw, markers, axis)
      BY <1>2 DEF Draw
    <2> DEFINE times == ByTime(Shown(now))
               n == Cardinality(Shown(now))
    <2>2. IsFiniteSet(Shown(now))
      BY FetchedIsFinite, FS_Subset DEF Shown
    <2>3. n \in Nat \ {0}
      BY <1>2, <2>2, FS_CardinalityType, FS_EmptySet
    <2>4. Len(times) = n
      <3>1. times = [i \in 1 .. n |->
                CHOOSE t \in Shown(now) : Cardinality({u \in Shown(now) : u < t}) = i - 1]
        BY DEF ByTime
      <3> HIDE DEF n
      <3> QED
        BY <2>3, <3>1
    <2>5. view'.times = times /\ view'.drawn = DrawIndices(n, MaxDraw)
              /\ view'.tooltip = DrawIndices(n, MaxTooltip)
      BY <2>1, <2>4 DEF Picture
    <2>6. /\ Thinned(DrawIndices(n, MaxDraw), n, MaxDraw)
          /\ Thinned(DrawIndices(n, MaxTooltip), n, MaxTooltip)
      BY <2>3, CapAssumption, DrawIndicesThin
    <2> QED
      BY <2>4, <2>5, <2>6 DEF ThinningKeepsShape, Thinned
  <1> QED
    BY <1>1, <1>2

\* Whatever was read, whenever the page is drawn and whatever the caps: each
\* thinned line has its ends, a point within a stride of every point it leaves
\* out, and at most one point above its cap (_draw_indices, chart.py:146-155).
THEOREM ChartsKeepShape == ChartSpec => []ThinningKeepsShape
  <1> DEFINE Inv == FeedTypeOK /\ ThinningKeepsShape
  <1>1. ChartInit => Inv
    BY InitFeedInv DEF ChartInit, NotYet, ThinningKeepsShape, Drawn, FeedInv
  <1>2. Inv /\ [ChartNext]_chartVars => Inv'
    <2> SUFFICES ASSUME Inv, [ChartNext]_chartVars PROVE Inv'
      OBVIOUS
    <2>1. CASE UNCHANGED chartVars
      BY <2>1 DEF chartVars, FeedTypeOK, ThinningKeepsShape, Drawn
    <2>2. CASE Next /\ UNCHANGED view
      BY <2>2, FeedStepTyped DEF ThinningKeepsShape, Drawn
    <2>3. ASSUME NEW now \in End - Early .. End + Late, NEW signals,
                 Draw(now, signals)
          PROVE  Inv'
      <3>1. now \in Int
        BY ClockAssumption, RangeAssumption
      <3>2. ThinningKeepsShape'
        BY <2>3, <3>1, DrawThins
      <3> QED
        BY <2>3, <3>2 DEF Draw, feedVars, FeedTypeOK
    <2>4. CASE DrawBlank
      BY <2>4 DEF DrawBlank, feedVars, FeedTypeOK, ThinningKeepsShape, Drawn, Blank
    <2> QED
      BY <2>1, <2>2, <2>3, <2>4 DEF ChartNext
  <1> QED
    BY <1>1, <1>2, PTL DEF ChartSpec

-----------------------------------------------------------------------------
(* The points of the line.                                                 *)

LEMMA SmallestNat ==
    ASSUME NEW T \in SUBSET Nat, T # {}
    PROVE  \E m \in T : \A x \in T : m <= x
  <1>1. PICK m \in T : \A x \in T : <<x, m>> \notin OpToRel(<, Nat)
    BY WFMin, NatLessThanWellFounded, Zenon
  <1>2. \A x \in T : ~(x < m)
    BY <1>1 DEF OpToRel
  <1> QED
    BY <1>2

\* A finite set of times has one at every position.
LEMMA TimeAtPosition ==
    ASSUME NEW S \in SUBSET Nat, IsFiniteSet(S), NEW bound \in Nat,
           \A x \in S : x <= bound, NEW k \in Nat, k < Cardinality(S)
    PROVE  \E t \in S : Cardinality({u \in S : u < t}) = k
  <1> DEFINE before(t) == {u \in S : u < t}
             T == {t \in S : k <= Cardinality(before(t))}
  <1>1. \A t \in S : IsFiniteSet(before(t)) /\ Cardinality(before(t)) \in Nat
    BY FS_Subset, FS_CardinalityType
  <1>2. T # {}
    <2>1. S # {}
      BY FS_EmptySet
    <2>2. PICK m \in S : \A x \in S : x <= m
      BY <2>1, BoundedHasMax
    <2>3. before(m) = S \ {m}
      <3>1. \A x \in S : x < m <=> x # m
        BY <2>2
      <3> QED
        BY <3>1
    <2>4. Cardinality(before(m)) = Cardinality(S) - 1 /\ Cardinality(S) \in Nat
      BY <2>3, FS_RemoveElement, FS_CardinalityType
    <2>5. k <= Cardinality(before(m))
      <3> HIDE DEF before
      <3> QED
        BY <2>4
    <2> HIDE DEF before
    <2> QED
      BY <2>2, <2>5
  <1>3. PICK t \in T : \A x \in T : t <= x
    <2>1. T \in SUBSET Nat
      OBVIOUS
    <2> HIDE DEF T
    <2> QED
      BY <1>2, <2>1, SmallestNat
  <1>4. ASSUME k < Cardinality(before(t)) PROVE FALSE
    <2>1. before(t) # {}
      <3>1. Cardinality({}) = 0
        BY FS_EmptySet
      <3> HIDE DEF before
      <3> QED
        BY <1>4, <3>1
    <2>2. PICK p \in before(t) : \A x \in before(t) : x <= p
      <3>1. before(t) \in SUBSET Nat /\ \A x \in before(t) : x <= bound
        OBVIOUS
      <3> HIDE DEF before
      <3> QED
        BY <2>1, <3>1, BoundedHasMax
    <2>3. before(p) = before(t) \ {p}
      <3>1. p \in Nat /\ p < t /\ t \in Nat
        OBVIOUS
      <3>2. \A x \in S : x < p <=> x < t /\ x # p
        BY <2>2, <3>1
      <3> QED
        BY <3>2
    <2>4. Cardinality(before(p)) = Cardinality(before(t)) - 1
      <3>1. IsFiniteSet(before(t)) /\ p \in before(t)
        BY <1>1
      <3> HIDE DEF before
      <3> QED
        BY <2>3, <3>1, FS_RemoveElement
    <2>5. p \in T
      <3>1. p \in S /\ Cardinality(before(t)) \in Nat /\ t \in S
        BY <1>1
      <3> HIDE DEF before
      <3> QED
        BY <1>4, <2>4, <3>1
    <2>6. p < t /\ p \in Nat /\ t \in Nat
      OBVIOUS
    <2> HIDE DEF T
    <2> QED
      BY <1>3, <2>5, <2>6
  <1>5. Cardinality(before(t)) \in Nat /\ k <= Cardinality(before(t)) /\ t \in S
    BY <1>1, <1>3
  <1>6. Cardinality(before(t)) = k
    <2> HIDE DEF before
    <2> QED
      BY <1>4, <1>5
  <1> QED
    BY <1>5, <1>6

LEMMA ByTimeEnumerates ==
    ASSUME NEW S \in SUBSET Nat, IsFiniteSet(S), NEW bound \in Nat,
           \A x \in S : x <= bound
    PROVE  \A i \in DOMAIN ByTime(S) : ByTime(S)[i] \in S
  <1> SUFFICES ASSUME NEW i \in DOMAIN ByTime(S) PROVE ByTime(S)[i] \in S
    OBVIOUS
  <1>1. Cardinality(S) \in Nat
    BY FS_CardinalityType
  <1>2. i \in 1 .. Cardinality(S)
    BY DEF ByTime
  <1>3. i - 1 \in Nat /\ i - 1 < Cardinality(S)
    BY <1>1, <1>2
  <1>4. \E t \in S : Cardinality({u \in S : u < t}) = i - 1
    BY <1>3, TimeAtPosition
  <1>5. ByTime(S)[i] = CHOOSE t \in S : Cardinality({u \in S : u < t}) = i - 1
    BY <1>2 DEF ByTime
  <1> QED
    BY <1>4, <1>5

-----------------------------------------------------------------------------
(* The trailing line.                                                      *)

\* Two reads without gaps agree on the interval of a row that both have with an
\* earlier one.
LEMMA IntervalsAgree ==
    ASSUME DOMAIN history \subseteq Nat, NEW one, NoGaps(one), NEW two, NoGaps(two),
           NEW t \in one \cap two, \E u \in one : u < t, \E u \in two : u < t
    PROVE  Interval(one, t) = Interval(two, t)
  <1>1. PICK m \in Nat : Precedes(m, t) /\ Interval(one, t) = t - m
    BY IntervalFromPredecessor
  <1>2. PICK n \in Nat : Precedes(n, t) /\ Interval(two, t) = t - n
    BY IntervalFromPredecessor
  <1>3. t \in Nat
    BY DEF NoGaps
  <1> QED
    BY <1>1, <1>2, <1>3, PredecessorIsUnique

\* The point of the line at a settlement of a complete read is the average of
\* the poller's own read, if a row of each precedes the window.
LEMMA PointIsPolled ==
    ASSUME FeedTypeOK, fetched = Due(Start), NEW t \in fetched,
           \E u \in fetched : u <= t - Lookback,
           \E u \in PollRead(t) : u <= t - Lookback
    PROVE  LineAt(t) = PollAverage(t)
  <1> DEFINE slice == {u \in fetched : t - Lookback <= u /\ u <= t}
             one == Window(slice, t)
             two == Window(PollRead(t), t)
  <1>a. /\ DOMAIN history \subseteq Nat /\ t \in Nat /\ t \in DOMAIN history
        /\ Lookback \in Nat \ {0} /\ PollLookback \in Nat /\ Lookback < PollLookback
        /\ Start \in Nat /\ End \in Nat /\ t <= End
    BY HistoryTimes, RangeAssumption, LookbackAssumption, PollAssumption DEF Due
  <1>1. NoGaps(fetched) /\ NoGaps(PollRead(t))
    BY <1>a DEF NoGaps, Due, PollRead
  <1>2. PICK before \in fetched : before <= t - Lookback
    OBVIOUS
  <1>3. before \in Nat /\ Start <= before
    BY <1>a DEF Due
  <1>4. \A u \in one : /\ u \in fetched /\ u \in PollRead(t) /\ u \in two
                       /\ t - Lookback < u /\ u \in Nat
    BY <1>a DEF Window, Due, PollRead
  <1>5. \A u \in two : u \in one
    BY <1>a, <1>2, <1>3 DEF Window, Due, PollRead
  <1>6. one = two
    <2> HIDE DEF one, two
    <2> QED
      BY <1>4, <1>5
  <1>7. ASSUME NEW u \in one
        PROVE  RatePerHour(fetched, u) = RatePerHour(PollRead(t), u)
    <2>1. u \in fetched \cap PollRead(t) /\ t - Lookback < u /\ u \in Nat
      BY <1>4
    <2>2. \E v \in fetched : v < u
      BY <1>2, <1>3, <1>a, <2>1
    <2>3. \E v \in PollRead(t) : v < u
      <3>1. PICK v \in PollRead(t) : v <= t - Lookback
        OBVIOUS
      <3>2. v \in Nat
        BY <1>a DEF PollRead
      <3> QED
        BY <1>a, <2>1, <3>1, <3>2
    <2>4. Interval(fetched, u) = Interval(PollRead(t), u)
      BY <1>a, <1>1, <2>1, <2>2, <2>3, IntervalsAgree
    <2> QED
      BY <2>4 DEF RatePerHour
  <1>8. [u \in one |-> RatePerHour(fetched, u)]
          = [u \in two |-> RatePerHour(PollRead(t), u)]
    <2> HIDE DEF one, two
    <2> QED
      BY <1>6, <1>7
  <1>9. LineAt(t) = SumFunction([u \in one |-> RatePerHour(fetched, u)])
                        \div Cardinality(one)
    BY DEF LineAt
  <1>10. PollAverage(t) = SumFunction([u \in two |-> RatePerHour(PollRead(t), u)])
                              \div Cardinality(two)
    BY DEF PollAverage, TrailingAverage
  <1> HIDE DEF one, two
  <1> QED
    BY <1>6, <1>8, <1>9, <1>10

\* A drawn line is the line of the rows that were read.
LineIsOfRead ==
    Drawn => /\ call.pc = "done"
             /\ view.line = [i \in DOMAIN view.times |-> LineAt(view.times[i])]
             /\ \A i \in DOMAIN view.times : view.times[i] \in fetched

LEMMA DrawMakesLine ==
    ASSUME FeedTypeOK, NEW now \in Int, NEW signals, Draw(now, signals)
    PROVE  LineIsOfRead'
  <1>1. CASE Shown(now) = {}
    BY <1>1 DEF Draw, LineIsOfRead, Drawn, Blank
  <1>2. CASE Shown(now) # {}
    <2> DEFINE times == ByTime(Shown(now))
               line == [i \in DOMAIN times |-> LineAt(times[i])]
    <2>1. PICK raw, markers, axis :
              view' = Picture(now, times, line, raw, markers, axis)
      BY <1>2 DEF Draw
    <2>2. view'.times = times /\ view'.line = line
      BY <2>1 DEF Picture
    <2>3. IsFiniteSet(Shown(now)) /\ Shown(now) \in SUBSET Nat
      BY FetchedIsFinite, FS_Subset DEF Shown
    <2>4. \A x \in Shown(now) : x <= End + 1
      <3>1. PICK T \in SUBSET (0 .. End + 1) : history \in [T -> Rates]
        BY DEF FeedTypeOK
      <3>2. fetched \subseteq 0 .. End + 1
        BY <3>1 DEF FeedTypeOK
      <3> QED
        BY <3>2, RangeAssumption DEF Shown
    <2>5. \A i \in DOMAIN times : times[i] \in Shown(now)
      <3>1. End + 1 \in Nat
        BY RangeAssumption
      <3> QED
        BY <2>3, <2>4, <3>1, ByTimeEnumerates
    <2>6. \A i \in DOMAIN times : times[i] \in fetched
      BY <2>5 DEF Shown
    <2>7. call.pc = "done" /\ UNCHANGED feedVars
      BY DEF Draw
    <2>8. ASSUME NEW i \in DOMAIN times
          PROVE  LineAt(view.times[i])' = LineAt(times[i])
      <3> HIDE DEF times, line
      <3> QED
        BY <2>2, <2>7 DEF feedVars, LineAt, Window, RatePerHour, Interval
    <2>9. [i \in DOMAIN view.times |-> LineAt(view.times[i])]' = line
      <3> HIDE DEF times
      <3> QED
        BY <2>2, <2>8
    <2> HIDE DEF times, line
    <2> QED
      BY <2>2, <2>6, <2>7, <2>9 DEF LineIsOfRead, feedVars
  <1> QED
    BY <1>1, <1>2

\* Whatever was read, by whatever clock it is drawn: the trailing line is at
\* each settlement the average that the poller took then from its own read,
\* where a row of each read precedes the window, if the venue's page is not
\* smaller than the client's (chart.py:12-14, 119-143).
THEOREM LinesArePolled ==
    ASSUME ClientPage <= ServerPage
    PROVE  ChartSpec => []LineIsPolledSignal
  <1> DEFINE Inv == FeedInv /\ LineIsOfRead
  <1>1. ChartInit => Inv
    BY InitFeedInv DEF ChartInit, NotYet, LineIsOfRead, Drawn
  <1>2. Inv /\ [ChartNext]_chartVars => Inv'
    <2> SUFFICES ASSUME Inv, [ChartNext]_chartVars PROVE Inv'
      OBVIOUS
    <2>a. ASSUME UNCHANGED feedVars PROVE FeedInv'
      BY <2>a DEF feedVars, FeedInv, FeedTypeOK, FetchComplete, Due
    <2>1. CASE UNCHANGED chartVars
      BY <2>1, <2>a DEF chartVars, feedVars, LineIsOfRead, Drawn, LineAt, Window,
                        RatePerHour, Interval
    <2>2. CASE Next /\ UNCHANGED view
      <3>1. FeedInv'
        BY <2>2, PostFailsKeepsFeedInv, PostAnswersKeepsFeedInv DEF Next
      <3>2. call.pc = "post"
        BY <2>2 DEF Next, PostFails, PostAnswers
      <3> QED
        BY <2>2, <3>1, <3>2 DEF LineIsOfRead, Drawn
    <2>3. ASSUME NEW now \in End - Early .. End + Late, NEW signals,
                 Draw(now, signals)
          PROVE  Inv'
      <3>1. now \in Int
        BY ClockAssumption, RangeAssumption
      <3>2. LineIsOfRead'
        BY <2>3, <3>1, DrawMakesLine DEF FeedInv
      <3> QED
        BY <2>3, <2>a, <3>2 DEF Draw
    <2>4. CASE DrawBlank
      BY <2>4, <2>a DEF DrawBlank, LineIsOfRead, Drawn, Blank
    <2> QED
      BY <2>1, <2>2, <2>3, <2>4 DEF ChartNext
  <1>3. Inv => LineIsPolledSignal
    <2> SUFFICES ASSUME Inv, Drawn, NEW i \in DOMAIN view.times,
                        \E u \in fetched : u <= view.times[i] - Lookback,
                        \E u \in PollRead(view.times[i]) :
                            u <= view.times[i] - Lookback
                 PROVE  view.line[i] = PollAverage(view.times[i])
      BY DEF LineIsPolledSignal
    <2>1. view.times[i] \in fetched /\ view.line[i] = LineAt(view.times[i])
      BY DEF LineIsOfRead
    <2>2. FeedTypeOK /\ fetched = Due(Start)
      BY DEF LineIsOfRead, FeedInv, FetchComplete
    <2> QED
      BY <2>1, <2>2, PointIsPolled
  <1> QED
    BY <1>1, <1>2, <1>3, PTL DEF ChartSpec

-----------------------------------------------------------------------------
(* Sums and extremes of finite data.                                       *)

\* One step of the sum of f over s, from the sums over smaller sets.
SumStep(f, g, s) ==
    IF s = {} THEN 0
    ELSE f[CHOOSE x \in s : TRUE] + g[s \ {CHOOSE x \in s : TRUE}]

LEMMA SumIsDefined ==
    ASSUME NEW f, IsFiniteSet(DOMAIN f)
    PROVE  \E g : g = [s \in SUBSET DOMAIN f |-> SumStep(f, g, s)]
  <1> DEFINE Level(n) == {s \in SUBSET DOMAIN f : Cardinality(s) <= n}
             Solved(n) == \E g : g = [s \in Level(n) |-> SumStep(f, g, s)]
             Unsolved == {n \in Nat : ~Solved(n)}
  <1>1. \A s \in SUBSET DOMAIN f : IsFiniteSet(s) /\ Cardinality(s) \in Nat
    BY FS_Subset, FS_CardinalityType
  <1>2. Solved(0)
    <2> DEFINE g == [s \in Level(0) |-> 0]
    <2>1. ASSUME NEW s \in Level(0) PROVE s = {}
      BY <1>1, FS_EmptySet
    <2>2. \A s \in Level(0) : SumStep(f, g, s) = 0
      BY <2>1 DEF SumStep
    <2>3. g = [s \in Level(0) |-> SumStep(f, g, s)]
      <3> HIDE DEF Level
      <3> QED
        BY <2>2
    <2> HIDE DEF Level, g
    <2> QED
      BY <2>3
  <1>3. ASSUME NEW n \in Nat, Solved(n) PROVE Solved(n + 1)
    <2>1. PICK g : g = [s \in Level(n) |-> SumStep(f, g, s)]
      BY <1>3
    <2> DEFINE h == [s \in Level(n + 1) |-> SumStep(f, g, s)]
    <2>2. Level(n) \subseteq Level(n + 1)
      BY <1>1
    <2>3. ASSUME NEW s \in Level(n) PROVE h[s] = g[s]
      <3> HIDE DEF Level
      <3> QED
        BY <2>1, <2>2, <2>3
    <2>4. ASSUME NEW s \in Level(n + 1) PROVE SumStep(f, h, s) = SumStep(f, g, s)
      <3>1. CASE s = {}
        BY <3>1 DEF SumStep
      <3>2. CASE s # {}
        <4> DEFINE x == CHOOSE x \in s : TRUE
        <4>1. x \in s
          BY <3>2
        <4>2. Cardinality(s \ {x}) = Cardinality(s) - 1
          <5> HIDE DEF x
          <5> QED
            BY <1>1, <4>1, FS_RemoveElement
        <4>3. s \ {x} \in Level(n)
          <5>1. Cardinality(s) \in Nat /\ Cardinality(s) <= n + 1
            BY <1>1
          <5>2. Cardinality(s \ {x}) <= n
            <6> HIDE DEF x
            <6> QED
              BY <4>2, <5>1
          <5> HIDE DEF x
          <5> QED
            BY <5>2
        <4>4. h[s \ {x}] = g[s \ {x}]
          <5> HIDE DEF x, h, Level
          <5> QED
            BY <2>3, <4>3
        <4> HIDE DEF h
        <4> QED
          BY <3>2, <4>4 DEF SumStep
      <3> QED
        BY <3>1, <3>2
    <2>5. h = [s \in Level(n + 1) |-> SumStep(f, h, s)]
      <3> HIDE DEF Level
      <3> QED
        BY <2>4
    <2> HIDE DEF h, Level
    <2> QED
      BY <2>5
  <1>4. Unsolved = {}
    <2> SUFFICES ASSUME Unsolved # {} PROVE FALSE
      OBVIOUS
    <2>1. PICK m \in Unsolved : \A k \in Unsolved : m <= k
      <3>1. Unsolved \in SUBSET Nat
        OBVIOUS
      <3> HIDE DEF Unsolved
      <3> QED
        BY <3>1, SmallestNat
    <2> HIDE DEF Solved
    <2>2. m # 0 /\ m \in Nat
      BY <1>2
    <2>3. m - 1 \in Nat /\ m - 1 \notin Unsolved
      BY <2>1, <2>2
    <2>4. Solved(m - 1)
      BY <2>3
    <2>5. Solved((m - 1) + 1)
      BY <1>3, <2>3, <2>4
    <2>6. (m - 1) + 1 = m
      BY <2>2
    <2> QED
      BY <2>5, <2>6
  <1>5. Cardinality(DOMAIN f) \in Nat
    BY FS_CardinalityType
  <1>6. Solved(Cardinality(DOMAIN f))
    <2> HIDE DEF Solved
    <2> QED
      BY <1>4, <1>5
  <1>7. Level(Cardinality(DOMAIN f)) = SUBSET DOMAIN f
    BY FS_Subset
  <1> HIDE DEF Level
  <1> QED
    BY <1>6, <1>7

\* The sum is a function of the subsets that unfolds step by step.
LEMMA SumUnfolds ==
    ASSUME NEW f, IsFiniteSet(DOMAIN f)
    PROVE  \E sum : /\ sum = [s \in SUBSET DOMAIN f |-> SumStep(f, sum, s)]
                    /\ SumFunction(f) = sum[DOMAIN f]
  <1> DEFINE sum == CHOOSE g : g = [s \in SUBSET DOMAIN f |-> SumStep(f, g, s)]
  <1>1. sum = [s \in SUBSET DOMAIN f |-> SumStep(f, sum, s)]
    BY SumIsDefined
  <1>2. SumFunction(f) = sum[DOMAIN f]
    BY DEF SumFunction, SumFunctionOnSet, FoldFunctionOnSet, MapThenFoldSet, SumStep
  <1> HIDE DEF sum
  <1> QED
    BY <1>1, <1>2

\* What holds of the empty sum and of a sum whenever it holds of a smaller one:
\* a set of subsets without a smallest member is empty.
LEMMA NoSmallestSubset ==
    ASSUME NEW S, IsFiniteSet(S), NEW Wrong \in SUBSET (SUBSET S),
           \A s \in Wrong : \E x \in s : s \ {x} \in Wrong
    PROVE  Wrong = {}
  <1> DEFINE Sizes == {Cardinality(s) : s \in Wrong}
  <1>1. \A s \in Wrong : IsFiniteSet(s) /\ Cardinality(s) \in Nat
    BY FS_Subset, FS_CardinalityType
  <1> SUFFICES ASSUME Wrong # {} PROVE FALSE
    OBVIOUS
  <1>2. PICK n \in Sizes : \A k \in Sizes : n <= k
    <2>1. Sizes \in SUBSET Nat /\ Sizes # {}
      BY <1>1
    <2> HIDE DEF Sizes
    <2> QED
      BY <2>1, SmallestNat
  <1>3. PICK s \in Wrong : Cardinality(s) = n
    OBVIOUS
  <1>4. PICK x \in s : s \ {x} \in Wrong
    OBVIOUS
  <1>5. Cardinality(s \ {x}) = n - 1 /\ n \in Nat
    BY <1>1, <1>3, <1>4, FS_RemoveElement
  <1>6. Cardinality(s \ {x}) \in Sizes
    BY <1>4
  <1> HIDE DEF Sizes
  <1> QED
    BY <1>2, <1>5, <1>6

LEMMA SumIsInt ==
    ASSUME NEW f, IsFiniteSet(DOMAIN f), \A x \in DOMAIN f : f[x] \in Int
    PROVE  SumFunction(f) \in Int
  <1>1. PICK sum : /\ sum = [s \in SUBSET DOMAIN f |-> SumStep(f, sum, s)]
                   /\ SumFunction(f) = sum[DOMAIN f]
    BY SumUnfolds
  <1> DEFINE Wrong == {s \in SUBSET DOMAIN f : sum[s] \notin Int}
  <1>2. ASSUME NEW s \in Wrong PROVE \E x \in s : s \ {x} \in Wrong
    <2>1. s \in SUBSET DOMAIN f /\ SumStep(f, sum, s) \notin Int
      BY <1>1
    <2>2. s # {}
      BY <2>1 DEF SumStep
    <2> DEFINE x == CHOOSE x \in s : TRUE
    <2>3. x \in s /\ x \in DOMAIN f
      BY <2>1, <2>2
    <2>4. SumStep(f, sum, s) = f[x] + sum[s \ {x}]
      BY <2>2 DEF SumStep
    <2> HIDE DEF x
    <2>5. sum[s \ {x}] \notin Int
      BY <2>1, <2>3, <2>4
    <2>6. s \ {x} \in Wrong
      BY <2>1, <2>5
    <2> HIDE DEF Wrong
    <2> QED
      BY <2>3, <2>6
  <1>3. Wrong = {}
    <2>1. Wrong \in SUBSET (SUBSET DOMAIN f)
      OBVIOUS
    <2> HIDE DEF Wrong
    <2> QED
      BY <1>2, <2>1, NoSmallestSubset
  <1>4. DOMAIN f \notin Wrong /\ DOMAIN f \in SUBSET DOMAIN f
    BY <1>3
  <1>5. sum[DOMAIN f] \in Int
    BY <1>4
  <1> QED
    BY <1>1, <1>5

\* A sum lies between as many times its least and its greatest term as it has
\* terms.
LEMMA SumInBounds ==
    ASSUME NEW f, IsFiniteSet(DOMAIN f), NEW lo \in Int, NEW hi \in Int,
           \A x \in DOMAIN f : f[x] \in Int /\ lo <= f[x] /\ f[x] <= hi
    PROVE  /\ lo * Cardinality(DOMAIN f) <= SumFunction(f)
           /\ SumFunction(f) <= hi * Cardinality(DOMAIN f)
  <1>1. PICK sum : /\ sum = [s \in SUBSET DOMAIN f |-> SumStep(f, sum, s)]
                   /\ SumFunction(f) = sum[DOMAIN f]
    BY SumUnfolds
  <1> DEFINE Within(s) == /\ sum[s] \in Int
                          /\ lo * Cardinality(s) <= sum[s]
                          /\ sum[s] <= hi * Cardinality(s)
             Wrong == {s \in SUBSET DOMAIN f : ~Within(s)}
  <1>2. ASSUME NEW s \in SUBSET DOMAIN f, s # {}, NEW x \in s,
               SumStep(f, sum, s) = f[x] + sum[s \ {x}], Within(s \ {x})
        PROVE  Within(s)
    <2>1. IsFiniteSet(s) /\ Cardinality(s) \in Nat
      BY FS_Subset, FS_CardinalityType
    <2>2. Cardinality(s \ {x}) = Cardinality(s) - 1
      BY <2>1, FS_RemoveElement
    <2> DEFINE n == Cardinality(s)
               a == sum[s \ {x}]
    <2>3. sum[s] = f[x] + a /\ f[x] \in Int /\ a \in Int /\ lo <= f[x] /\ f[x] <= hi
      BY <1>1, <1>2
    <2>4. lo * (n - 1) <= a /\ a <= hi * (n - 1)
      BY <1>2, <2>2
    <2>5. /\ lo * (n - 1) = lo * n - lo /\ lo * n \in Int
          /\ hi * (n - 1) = hi * n - hi /\ hi * n \in Int
      <3>1. \A k \in Int, m \in Nat : k * (m - 1) = k * m - k /\ k * m \in Int
        OBVIOUS
      <3> QED
        BY <2>1, <3>1
    <2> DEFINE p == lo * n
               q == hi * n
    <2>6. p <= sum[s] /\ sum[s] <= q /\ sum[s] \in Int
      <3> HIDE DEF n, a
      <3>1. p \in Int /\ q \in Int /\ p - lo <= a /\ a <= q - hi
        BY <2>4, <2>5
      <3> HIDE DEF p, q
      <3> QED
        BY <2>3, <3>1
    <2> QED
      BY <2>6
  <1>3. ASSUME NEW s \in Wrong PROVE \E x \in s : s \ {x} \in Wrong
    <2>1. s # {}
      <3>1. Cardinality({}) = 0 /\ sum[{}] = 0
        BY <1>1, FS_EmptySet DEF SumStep
      <3>2. lo * 0 = 0 /\ hi * 0 = 0
        OBVIOUS
      <3> QED
        BY <3>1, <3>2
    <2> DEFINE x == CHOOSE x \in s : TRUE
    <2>2. x \in s /\ s \ {x} \in SUBSET DOMAIN f
      BY <2>1
    <2>3. SumStep(f, sum, s) = f[x] + sum[s \ {x}]
      BY <2>1 DEF SumStep
    <2> HIDE DEF x
    <2>4. s \in SUBSET DOMAIN f /\ ~Within(s)
      OBVIOUS
    <2> HIDE DEF Within
    <2> QED
      BY <1>2, <2>1, <2>2, <2>3, <2>4
  <1>4. Wrong = {}
    <2>1. Wrong \in SUBSET (SUBSET DOMAIN f)
      OBVIOUS
    <2> HIDE DEF Wrong
    <2> QED
      BY <1>3, <2>1, NoSmallestSubset
  <1>5. Within(DOMAIN f)
    <2> HIDE DEF Within
    <2> QED
      BY <1>4
  <1> QED
    BY <1>1, <1>5

\* The greatest element is the one with the fewest above it.
LEMMA FiniteHasMax ==
    ASSUME NEW S \in SUBSET Int, S # {}, IsFiniteSet(S)
    PROVE  Max(S) \in S /\ \A x \in S : x <= Max(S)
  <1> DEFINE above(x) == {u \in S : x < u}
             Sizes == {n \in Nat : \E x \in S : Cardinality(above(x)) = n}
  <1>1. \A x \in S : IsFiniteSet(above(x)) /\ Cardinality(above(x)) \in Nat
    BY FS_Subset, FS_CardinalityType
  <1>2. PICK n \in Sizes : \A k \in Sizes : n <= k
    <2>1. Sizes \in SUBSET Nat /\ Sizes # {}
      <3> HIDE DEF above
      <3> QED
        BY <1>1
    <2> HIDE DEF Sizes
    <2> QED
      BY <2>1, SmallestNat
  <1>3. PICK m \in S : Cardinality(above(m)) = n
    <2> HIDE DEF above
    <2> QED
      BY <1>2
  <1>4. ASSUME NEW x \in above(m) PROVE FALSE
    <2>1. above(x) \in SUBSET above(m) /\ x \notin above(x) /\ x \in S
      <3>1. x \in S /\ m < x /\ S \subseteq Int
        OBVIOUS
      <3>2. \A u \in S : x < u => m < u
        BY <3>1
      <3>3. above(x) \subseteq above(m)
        BY <3>2
      <3>4. x \notin above(x)
        BY <3>1
      <3> QED
        BY <3>1, <3>3, <3>4
    <2> HIDE DEF above
    <2>2. /\ Cardinality(above(x)) <= n /\ Cardinality(above(x)) # n
          /\ Cardinality(above(x)) \in Nat
      BY <1>1, <1>3, <1>4, <2>1, FS_Subset
    <2>3. Cardinality(above(x)) \in Sizes
      BY <2>1, <2>2
    <2> HIDE DEF Sizes
    <2>4. n <= Cardinality(above(x)) /\ n \in Nat
      BY <1>1, <1>2, <1>3, <2>3
    <2> QED
      BY <2>2, <2>4
  <1>5. \A x \in S : m >= x
    BY <1>4
  <1>6. \E x \in S : \A y \in S : x >= y
    BY <1>5
  <1> QED
    BY <1>6 DEF Max

\* Sets of integers have their least elements where their opposites have their
\* greatest.
LEMMA FiniteHasMin ==
    ASSUME NEW S \in SUBSET Int, S # {}, IsFiniteSet(S)
    PROVE  Min(S) \in S /\ \A x \in S : Min(S) <= x
  <1> DEFINE opposite == [x \in S |-> -x]
             T == {opposite[x] : x \in S}
  <1>1. opposite \in Surjection(S, T)
    BY DEF Surjection
  <1>2. IsFiniteSet(T) /\ T \in SUBSET Int /\ T # {}
    <2>1. IsFiniteSet(T)
      <3> HIDE DEF opposite, T
      <3> QED
        BY <1>1, FS_Surjection
    <2>2. \A x \in S : opposite[x] \in Int
      OBVIOUS
    <2> HIDE DEF opposite
    <2> QED
      BY <2>1, <2>2
  <1>3. PICK m \in T : \A x \in T : x <= m
    <2> HIDE DEF T
    <2> QED
      BY <1>2, FiniteHasMax
  <1>4. PICK x \in S : m = -x
    OBVIOUS
  <1>5. \A y \in S : x =< y
    BY <1>3, <1>4
  <1>6. \E z \in S : \A y \in S : z =< y
    BY <1>5
  <1> QED
    BY <1>6 DEF Min

-----------------------------------------------------------------------------
(* The y-axis.                                                             *)

LEMMA ImageIsFinite ==
    ASSUME NEW s, IsFiniteSet(DOMAIN s)
    PROVE  IsFiniteSet({s[i] : i \in DOMAIN s})
  <1> DEFINE image == {s[i] : i \in DOMAIN s}
             f == [i \in DOMAIN s |-> s[i]]
  <1>1. f \in Surjection(DOMAIN s, image)
    BY DEF Surjection
  <1> HIDE DEF f, image
  <1>2. IsFiniteSet(image)
    BY <1>1, FS_Surjection
  <1> QED
    BY <1>2 DEF image

\* Sorting finds a value for every position.
LEMMA AscendingTyped ==
    ASSUME NEW n \in Nat \ {0}, NEW s \in [1 .. n -> Int]
    PROVE  /\ Ascending(s) \in [1 .. n -> Int]
           /\ \A k \in 1 .. n : \E i \in 1 .. n : Ascending(s)[k] = s[i]
  <1> SUFFICES ASSUME NEW k \in 1 .. n
               PROVE  \E v \in {s[i] : i \in DOMAIN s} :
                         /\ Cardinality({i \in DOMAIN s : s[i] < v}) < k
                         /\ k <= Cardinality({i \in DOMAIN s : s[i] <= v})
    BY DEF Ascending
  <1> DEFINE V == {s[i] : i \in DOMAIN s}
             below(v) == {i \in DOMAIN s : s[i] < v}
             upTo(v) == {i \in DOMAIN s : s[i] <= v}
             Good == {v \in V : k <= Cardinality(upTo(v))}
  <1>a. DOMAIN s = 1 .. n /\ IsFiniteSet(1 .. n) /\ Cardinality(1 .. n) = n
    BY FS_Interval
  <1>b. IsFiniteSet(V) /\ V \in SUBSET Int /\ V # {}
    BY <1>a, ImageIsFinite
  <1>c. \A v \in V : /\ Cardinality(below(v)) \in Nat
                     /\ Cardinality(upTo(v)) \in Nat
    BY <1>a, FS_Subset, FS_CardinalityType
  <1>1. Good # {}
    <2>1. PICK m \in V : \A x \in V : x <= m
      <3> HIDE DEF V
      <3> QED
        BY <1>b, FiniteHasMax
    <2>2. upTo(m) = DOMAIN s
      BY <2>1
    <2>3. Cardinality(upTo(m)) = n
      BY <1>a, <2>2
    <2>4. m \in Good
      BY <2>3
    <2> QED
      BY <2>4
  <1>2. PICK v \in Good : \A x \in Good : v <= x
    <2>1. Good \in SUBSET V
      OBVIOUS
    <2>2. IsFiniteSet(Good) /\ Good \in SUBSET Int
      <3> HIDE DEF Good, V
      <3> QED
        BY <1>b, <2>1, FS_Subset
    <2> HIDE DEF Good
    <2> QED
      BY <1>1, <2>2, FiniteHasMin
  <1>3. ASSUME k <= Cardinality(below(v)) PROVE FALSE
    <2> DEFINE W == {x \in V : x < v}
    <2>1. below(v) # {}
      <3>1. Cardinality({}) = 0
        BY FS_EmptySet
      <3> HIDE DEF below
      <3> QED
        BY <1>3, <3>1
    <2>2. W # {}
      BY <2>1
    <2>3. PICK w \in W : \A x \in W : x <= w
      <3>1. W \in SUBSET V
        OBVIOUS
      <3>2. IsFiniteSet(W) /\ W \in SUBSET Int
        <4> HIDE DEF W, V
        <4> QED
          BY <1>b, <3>1, FS_Subset
      <3> HIDE DEF W
      <3> QED
        BY <2>2, <3>2, FiniteHasMax
    <2>4. w \in Int /\ v \in Int /\ w < v /\ w \in V
      BY <1>b
    <2>5. upTo(w) = below(v)
      <3>1. \A i \in DOMAIN s : s[i] < v => s[i] <= w
        BY <2>3
      <3>2. \A i \in DOMAIN s : s[i] <= w => s[i] < v
        BY <2>4, <1>a
      <3> QED
        BY <3>1, <3>2
    <2>6. w \in Good
      BY <1>3, <2>4, <2>5
    <2> HIDE DEF Good
    <2> QED
      BY <1>2, <2>4, <2>6
  <1>4. v \in V /\ k <= Cardinality(upTo(v)) /\ Cardinality(below(v)) \in Nat
    BY <1>2, <1>c
  <1>5. Cardinality(below(v)) < k
    <2> HIDE DEF below
    <2> QED
      BY <1>3, <1>4
  <1> QED
    BY <1>4, <1>5

LEMMA PercentileTyped ==
    ASSUME NEW n \in Nat \ {0}, NEW s \in [1 .. n -> Int], NEW p \in 0 .. 100
    PROVE  Percentile(s, p) \in Int
  <1> DEFINE idx == p * (Len(s) - 1)
             low == s[idx \div 100 + 1]
             high == s[CeilDiv(idx, 100) + 1]
             frac == idx % 100
  <1>2. Len(s) = n
    OBVIOUS
  <1>1. idx \in Int /\ 0 <= idx /\ idx <= 100 * (n - 1)
    <2>1. 0 * (n - 1) <= p * (n - 1) /\ p * (n - 1) <= 100 * (n - 1)
      BY ProductSigns
    <2> QED
      BY <1>2, <2>1
  <1>6. Percentile(s, p) = IF s = <<>> THEN 0 ELSE low * (100 - frac) + high * frac
    BY DEF Percentile
  <1> HIDE DEF idx
  <1>3. idx \div 100 + 1 \in 1 .. n /\ frac \in Int
    BY <1>1
  <1>4. CeilDiv(idx, 100) + 1 \in 1 .. n
    BY <1>1 DEF CeilDiv
  <1>5. low \in Int /\ high \in Int
    BY <1>3, <1>4
  <1> HIDE DEF low, high, frac
  <1>7. low * (100 - frac) \in Int /\ high * frac \in Int
    BY <1>3, <1>5
  <1> QED
    BY <1>6, <1>7

\* A percentile is between two values and therefore in their bounds.
LEMMA PercentileInBounds ==
    ASSUME NEW n \in Nat \ {0}, NEW s \in [1 .. n -> Int], NEW p \in 0 .. 100,
           NEW c \in Nat, \A i \in 1 .. n : -c <= s[i] /\ s[i] <= c
    PROVE  -(100 * c) <= Percentile(s, p) /\ Percentile(s, p) <= 100 * c
  <1> DEFINE idx == p * (Len(s) - 1)
             low == s[idx \div 100 + 1]
             high == s[CeilDiv(idx, 100) + 1]
             frac == idx % 100
  <1>1. Len(s) = n
    OBVIOUS
  <1>2. idx \in Int /\ 0 <= idx /\ idx <= 100 * (n - 1)
    <2>1. 0 * (n - 1) <= p * (n - 1) /\ p * (n - 1) <= 100 * (n - 1)
      BY ProductSigns
    <2> QED
      BY <1>1, <2>1
  <1>3. Percentile(s, p) = IF s = <<>> THEN 0 ELSE low * (100 - frac) + high * frac
    BY DEF Percentile
  <1> HIDE DEF idx
  <1>4. idx \div 100 + 1 \in 1 .. n /\ frac \in 0 .. 99
    BY <1>2
  <1>5. CeilDiv(idx, 100) + 1 \in 1 .. n
    BY <1>2 DEF CeilDiv
  <1>6. /\ low \in Int /\ -c <= low /\ low <= c
        /\ high \in Int /\ -c <= high /\ high <= c
    BY <1>4, <1>5
  <1> HIDE DEF low, high, frac
  <1>7. /\ (-c) * (100 - frac) <= low * (100 - frac)
        /\ low * (100 - frac) <= c * (100 - frac)
        /\ (-c) * frac <= high * frac /\ high * frac <= c * frac
    BY <1>4, <1>6, ProductSigns
  <1>8. /\ c * (100 - frac) = 100 * c - c * frac /\ (-c) * frac = -(c * frac)
        /\ (-c) * (100 - frac) = -(100 * c - c * frac) /\ c * frac \in Int
        /\ low * (100 - frac) \in Int /\ high * frac \in Int
    BY <1>4, <1>6
  <1> DEFINE x == c * frac
             y == low * (100 - frac)
             z == high * frac
  <1>9. /\ -(100 * c - x) <= y /\ y <= 100 * c - x /\ -x <= z /\ z <= x
        /\ x \in Int /\ y \in Int /\ z \in Int
    BY <1>7, <1>8
  <1>10. -(100 * c) <= y + z /\ y + z <= 100 * c
    <2> HIDE DEF x, y, z
    <2> QED
      BY <1>9
  <1> HIDE DEF x
  <1> QED
    BY <1>3, <1>10

LEMMA DomainTyped ==
    ASSUME NEW n \in Nat \ {0}, NEW line \in [1 .. n -> Int],
           NEW raw \in [1 .. n -> Int], NEW markers, IsFiniteSet(markers),
           \A m \in markers : m.avg \in Int
    PROVE  /\ Domain(line, raw, markers) \in SUBSET Int
           /\ Domain(line, raw, markers) # {}
           /\ IsFiniteSet(Domain(line, raw, markers))
  <1> DEFINE lines == [i \in DOMAIN line |-> 100 * line[i]]
             marks == [m \in markers |-> 100 * Scale * m.avg]
             percents == [p \in {TrimPercent, 100 - TrimPercent} |->
                             Percentile(Ascending(raw), p)]
             A == {100 * line[i] : i \in DOMAIN line}
             B == {100 * Scale * EntryRate, 100 * Scale * ExitRate}
             C == {100 * Scale * m.avg : m \in markers}
             D == {Percentile(Ascending(raw), p) :
                      p \in {TrimPercent, 100 - TrimPercent}}
  <1>1. Domain(line, raw, markers) = A \cup B \cup C \cup D
    BY DEF Domain
  <1>2. IsFiniteSet(A) /\ A \subseteq Int
    <2>1. DOMAIN lines = 1 .. n /\ IsFiniteSet(1 .. n)
      BY FS_Interval
    <2>2. A = {lines[i] : i \in DOMAIN lines}
      OBVIOUS
    <2>3. IsFiniteSet(A)
      <3> HIDE DEF A, lines
      <3> QED
        BY <2>1, <2>2, ImageIsFinite
    <2> QED
      BY <2>3
  <1>3. IsFiniteSet(B) /\ B \subseteq Int
    <2>1. B = {100 * Scale * EntryRate} \cup {100 * Scale * ExitRate}
      OBVIOUS
    <2>2. IsFiniteSet(B)
      <3> HIDE DEF B
      <3> QED
        BY <2>1, FS_Singleton, FS_Union
    <2> QED
      BY <2>2, ScaleAssumption, ThresholdAssumption
  <1>4. IsFiniteSet(C) /\ C \subseteq Int
    <2>1. DOMAIN marks = markers
      OBVIOUS
    <2>2. C = {marks[i] : i \in DOMAIN marks}
      OBVIOUS
    <2>3. IsFiniteSet(C)
      <3> HIDE DEF C, marks
      <3> QED
        BY <2>1, <2>2, ImageIsFinite
    <2> QED
      BY <2>3, ScaleAssumption
  <1>5. IsFiniteSet(D) /\ D \subseteq Int
    <2>1. IsFiniteSet({TrimPercent, 100 - TrimPercent})
      <3>1. {TrimPercent, 100 - TrimPercent} = {TrimPercent} \cup {100 - TrimPercent}
        OBVIOUS
      <3>2. IsFiniteSet({TrimPercent}) /\ IsFiniteSet({100 - TrimPercent})
        BY FS_Singleton
      <3>3. IsFiniteSet({TrimPercent} \cup {100 - TrimPercent})
        BY <3>2, FS_Union
      <3> QED
        BY <3>1, <3>3
    <2>2. D = {percents[i] : i \in DOMAIN percents}
      OBVIOUS
    <2>3. DOMAIN percents = {TrimPercent, 100 - TrimPercent}
      OBVIOUS
    <2>4. IsFiniteSet(D)
      <3> HIDE DEF D, percents
      <3> QED
        BY <2>1, <2>2, <2>3, ImageIsFinite
    <2>5. \A p \in {TrimPercent, 100 - TrimPercent} : p \in 0 .. 100
      BY TrimAssumption
    <2>6. \A p \in {TrimPercent, 100 - TrimPercent} :
              Percentile(Ascending(raw), p) \in Int
      BY <2>5, AscendingTyped, PercentileTyped
    <2> QED
      BY <2>4, <2>6
  <1>6. A # {}
    <2>1. 1 \in DOMAIN line
      OBVIOUS
    <2>2. 100 * line[1] \in A
      BY <2>1
    <2> QED
      BY <2>2
  <1> HIDE DEF A, B, C, D
  <1>7. IsFiniteSet(A \cup B \cup C \cup D)
    BY <1>2, <1>3, <1>4, <1>5, FS_Union
  <1> QED
    BY <1>1, <1>2, <1>3, <1>4, <1>5, <1>6, <1>7

LEMMA DomainInBounds ==
    ASSUME NEW n \in Nat \ {0}, NEW line \in [1 .. n -> Int],
           NEW raw \in [1 .. n -> Int], NEW markers, NEW c \in Nat,
           \A i \in 1 .. n : /\ -c <= line[i] /\ line[i] <= c
                            /\ -c <= raw[i] /\ raw[i] <= c,
           \A m \in markers : -c <= Scale * m.avg /\ Scale * m.avg <= c,
           \A m \in markers : m.avg \in Int,
           -c <= Scale * EntryRate /\ Scale * EntryRate <= c,
           -c <= Scale * ExitRate /\ Scale * ExitRate <= c
    PROVE  \A v \in Domain(line, raw, markers) : -(100 * c) <= v /\ v <= 100 * c
  <1> SUFFICES ASSUME NEW v \in Domain(line, raw, markers)
               PROVE  -(100 * c) <= v /\ v <= 100 * c
    OBVIOUS
  <1>a. Scale \in Nat \ {0} /\ EntryRate \in Int /\ ExitRate \in Int
    BY ScaleAssumption, ThresholdAssumption
  <1>b. \A x \in Int : /\ 100 * Scale * x = 100 * (Scale * x) /\ Scale * x \in Int
    BY <1>a
  <1>c. \A y \in Int : -c <= y /\ y <= c => -(100 * c) <= 100 * y /\ 100 * y <= 100 * c
    OBVIOUS
  <1>1. CASE \E i \in DOMAIN line : v = 100 * line[i]
    BY <1>1
  <1>2. CASE v \in {100 * Scale * EntryRate, 100 * Scale * ExitRate}
    BY <1>2, <1>a, <1>b, <1>c
  <1>3. CASE \E m \in markers : v = 100 * Scale * m.avg
    <2>1. PICK m \in markers : v = 100 * Scale * m.avg
      BY <1>3
    <2>2. m.avg \in Int
      BY <2>1
    <2>3. -c <= Scale * m.avg /\ Scale * m.avg <= c
      BY <2>1
    <2>4. Scale * m.avg \in Int /\ v = 100 * (Scale * m.avg)
      BY <2>1, <2>2, <1>b
    <2> DEFINE y == Scale * m.avg
    <2> HIDE DEF y
    <2>5. y \in Int /\ v = 100 * y /\ -c <= y /\ y <= c
      BY <2>3, <2>4 DEF y
    <2> QED
      BY <2>5, <1>c
  <1>4. CASE \E p \in {TrimPercent, 100 - TrimPercent} :
                v = Percentile(Ascending(raw), p)
    <2>1. PICK p \in {TrimPercent, 100 - TrimPercent} :
              v = Percentile(Ascending(raw), p)
      BY <1>4
    <2>2. p \in 0 .. 100
      BY TrimAssumption
    <2>3. /\ Ascending(raw) \in [1 .. n -> Int]
          /\ \A i \in 1 .. n : -c <= Ascending(raw)[i] /\ Ascending(raw)[i] <= c
      BY AscendingTyped
    <2> QED
      BY <2>1, <2>2, <2>3, PercentileInBounds
  <1> QED
    BY <1>1, <1>2, <1>3, <1>4 DEF Domain

\* The axis covers what entered its domain.
LEMMA AxisCovers ==
    ASSUME NEW D \in SUBSET Int, D # {}, IsFiniteSet(D)
    PROVE  /\ Axis(D).low \in Int /\ Axis(D).high \in Int
           /\ Axis(D).low < Axis(D).high
           /\ \A v \in D : Axis(D).low <= 100 * v /\ 100 * v <= Axis(D).high
  <1>1. /\ Max(D) \in Int /\ Min(D) \in Int /\ Min(D) <= Max(D)
        /\ \A v \in D : Min(D) <= v /\ v <= Max(D)
    BY FiniteHasMax, FiniteHasMin
  <1> DEFINE flat == Max(D) = Min(D)
             vmin == IF flat THEN Min(D) - 100 * Scale ELSE Min(D)
             vmax == IF flat THEN Max(D) + 100 * Scale ELSE Max(D)
  <1>2. /\ vmin \in Int /\ vmax \in Int /\ vmin < vmax
        /\ \A v \in D : vmin <= v /\ v <= vmax
    BY <1>1, ScaleAssumption
  <1>3. Axis(D) = [low |-> 100 * vmin - 8 * (vmax - vmin),
                   high |-> 100 * vmax + 8 * (vmax - vmin)]
    BY DEF Axis
  <1> HIDE DEF vmin, vmax
  <1> QED
    BY <1>2, <1>3

\* How long the axis is.
LEMMA AxisSpan ==
    ASSUME NEW D \in SUBSET Int, D # {}, IsFiniteSet(D), NEW c \in Nat,
           \A v \in D : -c <= v /\ v <= c,
           NEW g \in Nat \ {0}, \E u, v \in D : v - u >= g
    PROVE  /\ Axis(D).high - Axis(D).low >= 116 * g
           /\ Axis(D).high - Axis(D).low <= 232 * c
  <1>1. /\ Max(D) \in D /\ Min(D) \in D /\ Max(D) \in Int /\ Min(D) \in Int
        /\ \A v \in D : Min(D) <= v /\ v <= Max(D)
    BY FiniteHasMax, FiniteHasMin
  <1>2. Max(D) - Min(D) >= g /\ Max(D) - Min(D) <= 2 * c
    <2>1. PICK u \in D, v \in D : v - u >= g
      OBVIOUS
    <2>2. /\ u \in Int /\ v \in Int /\ Min(D) <= u /\ v <= Max(D)
          /\ -c <= Min(D) /\ Max(D) <= c
      BY <1>1
    <2> QED
      BY <1>1, <2>1, <2>2
  <1>3. Max(D) # Min(D)
    BY <1>1, <1>2
  <1>4. Axis(D) = [low |-> 100 * Min(D) - 8 * (Max(D) - Min(D)),
                   high |-> 100 * Max(D) + 8 * (Max(D) - Min(D))]
    BY <1>3 DEF Axis
  <1>5. Axis(D).high - Axis(D).low = 116 * (Max(D) - Min(D))
    BY <1>1, <1>4
  <1> QED
    BY <1>1, <1>2, <1>5

LEMMA ClampInside ==
    ASSUME NEW v \in Int, NEW axis, axis.low \in Int, axis.high \in Int,
           axis.low < axis.high
    PROVE  axis.low <= Clamp(v, axis) /\ Clamp(v, axis) <= axis.high
  <1> DEFINE least == Min({v, axis.high})
  <1>1. least \in Int /\ least <= axis.high
    <2>1. \E x \in {v, axis.high} : \A y \in {v, axis.high} : x =< y
      OBVIOUS
    <2> QED
      BY <2>1 DEF Min
  <1> HIDE DEF least
  <1>2. \E x \in {least, axis.low} : \A y \in {least, axis.low} : x >= y
    BY <1>1
  <1>3. Clamp(v, axis) = Max({least, axis.low})
    BY DEF Clamp, least
  <1>4. /\ Max({least, axis.low}) \in {least, axis.low}
        /\ Max({least, axis.low}) >= axis.low
    BY <1>2 DEF Max
  <1> QED
    BY <1>1, <1>3, <1>4

LEMMA SignalsAreFinite == IsFiniteSet(Signals)
  <1> DEFINE T == {Start + Lookback, End}
             f == [x \in T \X MarkerRates |-> [time |-> x[1], avg |-> x[2]]]
  <1>1. IsFiniteSet(T)
    <2>1. IsFiniteSet({Start + Lookback}) /\ IsFiniteSet({End})
      BY FS_Singleton
    <2>2. IsFiniteSet({Start + Lookback} \cup {End})
      BY <2>1, FS_Union
    <2>3. T = {Start + Lookback} \cup {End}
      OBVIOUS
    <2> QED
      BY <2>2, <2>3
  <1>2. IsFiniteSet(T \X MarkerRates)
    <2> HIDE DEF T
    <2> QED
      BY <1>1, MarkerAssumption, FS_Product
  <1>3. f \in Surjection(T \X MarkerRates, Signals)
    <2>1. f \in [T \X MarkerRates -> Signals]
      BY DEF Signals
    <2>2. ASSUME NEW m \in Signals PROVE \E x \in T \X MarkerRates : f[x] = m
      <3>1. m = [time |-> m.time, avg |-> m.avg] /\ m.time \in T /\ m.avg \in MarkerRates
        BY DEF Signals
      <3>2. <<m.time, m.avg>> \in T \X MarkerRates
        BY <3>1
      <3>3. f[<<m.time, m.avg>>] = m
        BY <3>1, <3>2
      <3> QED
        BY <3>2, <3>3
    <2> HIDE DEF f
    <2> QED
      BY <2>1, <2>2 DEF Surjection
  <1> HIDE DEF f, T
  <1> QED
    BY <1>2, <1>3, FS_Surjection

LEMMA IntervalPositive ==
    ASSUME FeedTypeOK, NEW t \in fetched
    PROVE  Interval(fetched, t) \in Nat \ {0}
  <1> DEFINE earlier == {u \in fetched : u < t}
  <1>1. fetched \subseteq Nat
    BY FetchedIsFinite
  <1>2. CASE earlier = {}
    BY <1>2 DEF Interval
  <1>3. CASE earlier # {}
    <2>1. earlier \in SUBSET Nat /\ t \in Nat /\ \A u \in earlier : u <= t
      <3>1. \A u \in Nat : u < t => u <= t
        BY <1>1
      <3> QED
        BY <1>1, <3>1
    <2>2. Max(earlier) \in earlier
      <3> HIDE DEF earlier
      <3> QED
        BY <1>3, <2>1, BoundedHasMax
    <2>3. Max(earlier) \in Nat /\ Max(earlier) < t
      BY <2>2, <1>1
    <2>4. Interval(fetched, t) = t - Max(earlier)
      BY <1>3 DEF Interval
    <2> HIDE DEF earlier
    <2> QED
      BY <2>1, <2>3, <2>4
  <1> QED
    BY <1>2, <1>3

\* A rate per hour is an integer in the unit of the model, and no further from
\* zero than the rates of the venue.
LEMMA RatePerHourTyped ==
    ASSUME FeedTypeOK, NEW t \in fetched
    PROVE  /\ RatePerHour(fetched, t) \in Int
           /\ \A c \in Nat : (\A r \in Rates : -c <= r /\ r <= c) =>
                 /\ -(c * Scale) <= RatePerHour(fetched, t)
                 /\ RatePerHour(fetched, t) <= c * Scale
  <1> DEFINE h == history[t]
             d == Scale \div Interval(fetched, t)
  <1>1. h \in Rates /\ h \in Int
    <2>1. PICK T \in SUBSET (0 .. End + 1) : history \in [T -> Rates]
      BY DEF FeedTypeOK
    <2> QED
      BY <2>1, RateAssumption DEF FeedTypeOK
  <1>2. d \in Nat /\ d <= Scale /\ Scale \in Nat
    <2>1. \A n \in Nat, k \in Nat \ {0} : n \div k \in Nat /\ n \div k <= n
      OBVIOUS
    <2> QED
      BY <2>1, IntervalPositive, ScaleAssumption
  <1>3. RatePerHour(fetched, t) = h * d
    BY DEF RatePerHour
  <1> HIDE DEF h, d
  <1>4. ASSUME NEW c \in Nat, \A r \in Rates : -c <= r /\ r <= c
        PROVE  -(c * Scale) <= h * d /\ h * d <= c * Scale
    <2>1. -c <= h /\ h <= c
      BY <1>1, <1>4
    <2>2. (-c) * d <= h * d /\ h * d <= c * d
      BY <1>1, <1>2, <2>1, ProductSigns
    <2>3. d * c <= Scale * c
      BY <1>2, ProductSigns
    <2>4. /\ d * c = c * d /\ Scale * c = c * Scale /\ (-c) * d = -(c * d)
          /\ c * d \in Int /\ c * Scale \in Int /\ h * d \in Int
      BY <1>1, <1>2, ProductSigns
    <2> DEFINE x == c * d
               y == c * Scale
               z == h * d
    <2>5. /\ -x <= z /\ z <= x /\ x <= y /\ x \in Int /\ y \in Int /\ z \in Int
      BY <2>2, <2>3, <2>4
    <2>6. -y <= z /\ z <= y
      <3> HIDE DEF x, y, z
      <3> QED
        BY <2>5
    <2> QED
      BY <2>6
  <1>5. h * d \in Int
    BY <1>1, <1>2, ProductSigns
  <1> QED
    BY <1>3, <1>4, <1>5

LEMMA MeanInBounds ==
    ASSUME NEW sum \in Int, NEW n \in Nat \ {0}, NEW c \in Int,
           (-c) * n <= sum, sum <= c * n
    PROVE  -c <= sum \div n /\ sum \div n <= c
  <1> DEFINE q == sum \div n
             r == sum % n
  <1>1. sum = n * q + r /\ r \in 0 .. n - 1 /\ q \in Int
    BY Division
  <1> HIDE DEF q, r
  <1>2. n * q = q * n /\ q * n \in Int /\ c * n \in Int /\ (-c) * n = -(c * n)
    BY <1>1, ProductSigns
  <1> DEFINE x == q * n
             y == c * n
  <1>3. x <= sum /\ sum < x + n /\ -y <= sum /\ sum <= y /\ x \in Int /\ y \in Int
    BY <1>1, <1>2
  <1>4. ASSUME q > c PROVE FALSE
    <2>1. (c + 1) * n <= q * n /\ (c + 1) * n = c * n + n
      BY <1>1, <1>4, ProductSigns
    <2>2. y + n <= x
      BY <2>1
    <2> HIDE DEF x, y
    <2> QED
      BY <1>3, <2>2
  <1>5. ASSUME q < -c PROVE FALSE
    <2>1. (q + 1) * n <= (-c) * n /\ (q + 1) * n = q * n + n
      BY <1>1, <1>5, ProductSigns
    <2>2. x + n <= -y
      BY <1>2, <2>1
    <2> HIDE DEF x, y
    <2> QED
      BY <1>3, <2>2
  <1>6. -c <= q /\ q <= c
    BY <1>1, <1>4, <1>5
  <1> QED
    BY <1>6 DEF q

LEMMA LineAtTyped ==
    ASSUME FeedTypeOK, NEW t \in fetched
    PROVE  /\ LineAt(t) \in Int
           /\ \A c \in Nat : (\A r \in Rates : -c <= r /\ r <= c) =>
                 -(c * Scale) <= LineAt(t) /\ LineAt(t) <= c * Scale
  <1> DEFINE slice == {u \in fetched : t - Lookback <= u /\ u <= t}
             window == Window(slice, t)
             rates == [u \in window |-> RatePerHour(fetched, u)]
             n == Cardinality(window)
  <1>1. IsFiniteSet(fetched) /\ t \in Nat
    BY FetchedIsFinite
  <1>2. window \in SUBSET fetched /\ t \in window
    BY <1>1, LookbackAssumption DEF Window
  <1>3. IsFiniteSet(window) /\ n \in Nat \ {0}
    <2> HIDE DEF window
    <2>1. IsFiniteSet(window)
      BY <1>1, <1>2, FS_Subset
    <2> QED
      BY <1>2, <2>1, FS_CardinalityType, FS_EmptySet
  <1>4. DOMAIN rates = window /\ \A u \in window : rates[u] = RatePerHour(fetched, u)
    OBVIOUS
  <1>5. LineAt(t) = SumFunction(rates) \div n
    BY DEF LineAt
  <1> HIDE DEF rates, window
  <1>6. SumFunction(rates) \in Int
    BY <1>2, <1>3, <1>4, RatePerHourTyped, SumIsInt
  <1>7. ASSUME NEW c \in Nat, \A r \in Rates : -c <= r /\ r <= c
        PROVE  -(c * Scale) <= LineAt(t) /\ LineAt(t) <= c * Scale
    <2> DEFINE m == c * Scale
    <2>1. m \in Int
      BY ScaleAssumption
    <2>2. \A u \in window : rates[u] \in Int /\ -m <= rates[u] /\ rates[u] <= m
      BY <1>2, <1>4, <1>7, RatePerHourTyped
    <2> HIDE DEF m
    <2>3. (-m) * n <= SumFunction(rates) /\ SumFunction(rates) <= m * n
      <3>1. -m \in Int
        BY <2>1
      <3> QED
        BY <1>3, <1>4, <2>1, <2>2, <3>1, SumInBounds
    <2>4. -m <= SumFunction(rates) \div n /\ SumFunction(rates) \div n <= m
      <3> HIDE DEF n
      <3> QED
        BY <1>3, <1>6, <2>1, <2>3, MeanInBounds
    <2> QED
      BY <1>5, <2>4 DEF m
  <1> HIDE DEF n
  <1> QED
    BY <1>3, <1>5, <1>6, <1>7

\* No rate, threshold or recorded average is further from zero than c.
RatesWithin(c) ==
    \A r \in Rates \cup MarkerRates \cup {EntryRate, ExitRate} : -c <= r /\ r <= c

\* A page that draws has an axis over what it draws.
LEMMA DrawHasAxis ==
    ASSUME FeedTypeOK, NEW now \in Int, NEW signals \in SUBSET Signals,
           Draw(now, signals), Drawn'
    PROVE  \E n, line, raw, markers, times, D :
              /\ n \in Nat \ {0}
              /\ line \in [1 .. n -> Int] /\ raw \in [1 .. n -> Int]
              /\ markers \in SUBSET signals
              /\ Len(times) = n /\ DOMAIN times = 1 .. n
              /\ D = Domain(line, raw, markers)
              /\ D \in SUBSET Int /\ D # {} /\ IsFiniteSet(D)
              /\ \A c \in Nat : RatesWithin(c) =>
                    \A v \in D : -(100 * (c * Scale)) <= v /\ v <= 100 * (c * Scale)
              /\ view' = Picture(now, times, line, raw, markers, Axis(D))
  <1>1. Shown(now) # {}
    BY DEF Draw, Drawn, Blank
  <1> DEFINE times == ByTime(Shown(now))
             n == Cardinality(Shown(now))
             line == [i \in DOMAIN times |-> LineAt(times[i])]
             raw == [i \in DOMAIN times |-> RatePerHour(fetched, times[i])]
             markers == InWindow(now, signals)
             D == Domain(line, raw, markers)
  <1>2. view' = Picture(now, times, line, raw, markers, Axis(D))
    BY <1>1 DEF Draw
  <1>3. IsFiniteSet(Shown(now)) /\ Shown(now) \in SUBSET Nat
    BY FetchedIsFinite, FS_Subset DEF Shown
  <1>4. n \in Nat \ {0}
    BY <1>1, <1>3, FS_CardinalityType, FS_EmptySet
  <1>5. Len(times) = n /\ DOMAIN times = 1 .. n
    <2>1. times = [i \in 1 .. n |->
              CHOOSE t \in Shown(now) : Cardinality({u \in Shown(now) : u < t}) = i - 1]
      BY DEF ByTime
    <2> HIDE DEF n
    <2> QED
      BY <1>4, <2>1
  <1>6. \A i \in DOMAIN times : times[i] \in fetched
    <2>1. PICK T \in SUBSET (0 .. End + 1) : history \in [T -> Rates]
      BY DEF FeedTypeOK
    <2>2. fetched \subseteq 0 .. End + 1
      BY <2>1 DEF FeedTypeOK
    <2>3. End + 1 \in Nat /\ \A x \in Shown(now) : x <= End + 1
      BY <2>2, RangeAssumption DEF Shown
    <2>4. \A i \in DOMAIN times : times[i] \in Shown(now)
      BY <1>3, <2>3, ByTimeEnumerates
    <2> QED
      BY <2>4 DEF Shown
  <1>7. line \in [1 .. n -> Int] /\ raw \in [1 .. n -> Int]
    <2> HIDE DEF n, times
    <2> QED
      BY <1>5, <1>6, LineAtTyped, RatePerHourTyped
  <1>8. /\ markers \in SUBSET signals /\ IsFiniteSet(markers)
        /\ \A m \in markers : m.avg \in Int
    <2>1. markers \in SUBSET signals
      BY DEF InWindow
    <2>2. IsFiniteSet(markers)
      <3> HIDE DEF markers
      <3> QED
        BY <2>1, SignalsAreFinite, FS_Subset
    <2> HIDE DEF markers
    <2> QED
      BY <2>1, <2>2, MarkerAssumption DEF Signals
  <1>a. \A i \in 1 .. n : line[i] = LineAt(times[i]) /\ raw[i] = RatePerHour(fetched, times[i])
    <2> HIDE DEF times, n
    <2> QED
      BY <1>5
  <1> HIDE DEF times, n, line, raw, markers
  <1>9. D \in SUBSET Int /\ D # {} /\ IsFiniteSet(D)
    BY <1>4, <1>7, <1>8, DomainTyped
  <1>10. ASSUME NEW c \in Nat, RatesWithin(c)
         PROVE  \A v \in D : -(100 * (c * Scale)) <= v /\ v <= 100 * (c * Scale)
    <2> DEFINE m == c * Scale
    <2>1. m \in Nat
      BY ScaleAssumption
    <2>2. \A r \in Rates : -c <= r /\ r <= c
      BY <1>10 DEF RatesWithin
    <2>3. \A i \in 1 .. n : /\ -m <= line[i] /\ line[i] <= m
                           /\ -m <= raw[i] /\ raw[i] <= m
      BY <1>5, <1>6, <1>a, <2>2, LineAtTyped, RatePerHourTyped
    <2>4. ASSUME NEW r \in Int, -c <= r, r <= c
          PROVE  -m <= Scale * r /\ Scale * r <= m
      <3>1. (-c) * Scale <= r * Scale /\ r * Scale <= c * Scale
        BY <2>4, ScaleAssumption, ProductSigns
      <3>2. (-c) * Scale = -(c * Scale) /\ r * Scale = Scale * r
        BY ScaleAssumption, ProductSigns
      <3> QED
        BY <3>1, <3>2
    <2>5. \A a \in markers : a.avg \in MarkerRates
      BY <1>8 DEF Signals
    <2>6. \A a \in markers : -m <= Scale * a.avg /\ Scale * a.avg <= m
      BY <1>8, <1>10, <2>4, <2>5 DEF RatesWithin
    <2>7. /\ -m <= Scale * EntryRate /\ Scale * EntryRate <= m
          /\ -m <= Scale * ExitRate /\ Scale * ExitRate <= m
      BY <1>10, <2>4, ThresholdAssumption DEF RatesWithin
    <2> HIDE DEF m, D
    <2>8. \A v \in Domain(line, raw, markers) : -(100 * m) <= v /\ v <= 100 * m
      BY <1>4, <1>7, <1>8, <2>1, <2>3, <2>6, <2>7, DomainInBounds
    <2> QED
      BY <2>8 DEF m, D
  <1> HIDE DEF D
  <1>11. D = Domain(line, raw, markers)
    BY DEF D
  <1> QED
    BY <1>2, <1>4, <1>5, <1>7, <1>8, <1>9, <1>10, <1>11

LEMMA DrawHoldsAll ==
    ASSUME FeedTypeOK, NEW now \in Int, NEW signals \in SUBSET Signals,
           Draw(now, signals)
    PROVE  PlotHoldsAll'
  <1> SUFFICES ASSUME Drawn' PROVE PlotHoldsAll'
    BY DEF PlotHoldsAll
  <1>1. PICK n, line, raw, markers, times, D :
              /\ n \in Nat \ {0}
              /\ line \in [1 .. n -> Int] /\ raw \in [1 .. n -> Int]
              /\ markers \in SUBSET signals
              /\ Len(times) = n /\ DOMAIN times = 1 .. n
              /\ D = Domain(line, raw, markers)
              /\ D \in SUBSET Int /\ D # {} /\ IsFiniteSet(D)
              /\ view' = Picture(now, times, line, raw, markers, Axis(D))
    BY DrawHasAxis
  <1> DEFINE axis == Axis(D)
             inside(v) == axis.low <= v /\ v <= axis.high
  <1>2. /\ axis.low \in Int /\ axis.high \in Int /\ axis.low < axis.high
        /\ \A v \in D : inside(100 * v)
    BY <1>1, AxisCovers
  <1>3. /\ view'.axis = axis /\ view'.markers = markers /\ view'.times = times
        /\ view'.line = line
        /\ view'.raw = [i \in DOMAIN raw |-> Clamp(100 * 100 * raw[i], axis)]
    BY <1>1 DEF Picture
  <1> HIDE DEF axis
  <1>4. ASSUME NEW i \in 1 .. n PROVE inside(100 * 100 * line[i])
    <2>1. 100 * line[i] \in D
      BY <1>1 DEF Domain
    <2>2. inside(100 * (100 * line[i]))
      BY <1>2, <2>1
    <2>3. line[i] \in Int
      BY <1>1
    <2> QED
      BY <2>2, <2>3
  <1>5. ASSUME NEW i \in 1 .. n PROVE inside(view'.raw[i])
    <2>1. view'.raw[i] = Clamp(100 * 100 * raw[i], axis) /\ 100 * 100 * raw[i] \in Int
      BY <1>1, <1>3
    <2> QED
      BY <1>2, <2>1, ClampInside
  <1>a. \A x \in Int : 100 * (100 * Scale * x) = One * x
    BY ScaleAssumption DEF One
  <1>6. ASSUME NEW m \in markers PROVE inside(One * m.avg)
    <2>1. 100 * Scale * m.avg \in D
      BY <1>1 DEF Domain
    <2>2. m.avg \in Int
      BY <1>1, MarkerAssumption DEF Signals
    <2> QED
      BY <1>2, <1>a, <2>1, <2>2
  <1>7. inside(One * EntryRate) /\ inside(One * ExitRate)
    <2>1. 100 * Scale * EntryRate \in D /\ 100 * Scale * ExitRate \in D
      BY <1>1 DEF Domain
    <2> QED
      BY <1>2, <1>a, <2>1, ThresholdAssumption
  <1> QED
    BY <1>1, <1>3, <1>4, <1>5, <1>6, <1>7 DEF PlotHoldsAll

\* Whatever was read, drawn and recorded: the trailing line, the raw values, the
\* markers and both thresholds lie between the ends of the axis, although only
\* the raw values are clamped to it (chart.py:196-239).
THEOREM PlotsHoldAll == ChartSpec => []PlotHoldsAll
  <1> DEFINE Inv == FeedTypeOK /\ PlotHoldsAll
  <1>1. ChartInit => Inv
    BY InitFeedInv DEF ChartInit, NotYet, PlotHoldsAll, Drawn, FeedInv
  <1>2. Inv /\ [ChartNext]_chartVars => Inv'
    <2> SUFFICES ASSUME Inv, [ChartNext]_chartVars PROVE Inv'
      OBVIOUS
    <2>1. CASE UNCHANGED chartVars
      BY <2>1 DEF chartVars, FeedTypeOK, PlotHoldsAll, Drawn
    <2>2. CASE Next /\ UNCHANGED view
      BY <2>2, FeedStepTyped DEF PlotHoldsAll, Drawn
    <2>3. ASSUME NEW now \in End - Early .. End + Late,
                 NEW signals \in SUBSET Signals, Draw(now, signals)
          PROVE  Inv'
      <3>1. now \in Int
        BY ClockAssumption, RangeAssumption
      <3>2. PlotHoldsAll'
        BY <2>3, <3>1, DrawHoldsAll
      <3> QED
        BY <2>3, <3>2 DEF Draw, feedVars, FeedTypeOK
    <2>4. CASE DrawBlank
      BY <2>4 DEF DrawBlank, feedVars, FeedTypeOK, PlotHoldsAll, Drawn, Blank
    <2> QED
      BY <2>1, <2>2, <2>3, <2>4 DEF ChartNext
  <1> QED
    BY <1>1, <1>2, PTL DEF ChartSpec

-----------------------------------------------------------------------------
(* The labels of the axis.                                                 *)

\* Between the ends of an axis that is two to four steps long lie two to five
\* multiples of the step.
LEMMA TicksCounted ==
    ASSUME NEW low \in Int, NEW high \in Int, NEW step \in Nat \ {0},
           2 * step <= high - low, high - low <= 4 * step
    PROVE  Cardinality(Ticks(low, high, step)) \in 2 .. 5
  <1> DEFINE a == CeilDiv(low, step)
             b == high \div step
             p == a * step
             q == b * step
             at == [k \in a .. b |-> k * step]
  <1>1. a \in Int /\ low <= p /\ p < low + step /\ p \in Int
    <2> DEFINE r == (-low) % step
               d == (-low) \div step
               e == step * d
    <2>1. -low = e + r /\ r \in 0 .. step - 1 /\ d \in Int /\ e \in Int
      <3>1. -low \in Int
        OBVIOUS
      <3>2. -low = step * ((-low) \div step) + ((-low) % step)
              /\ (-low) % step \in 0 .. step - 1 /\ (-low) \div step \in Int
        BY <3>1, Division
      <3>3. step * d \in Int
        BY <3>2, ProductSigns
      <3> QED
        BY <3>2, <3>3
    <2>2. a = -d
      BY DEF CeilDiv
    <2>3. (-d) * step = -e
      BY <2>1, ProductSigns
    <2> HIDE DEF r, d, e
    <2> QED
      BY <2>1, <2>2, <2>3
  <1>2. b \in Int /\ q <= high /\ high < q + step /\ q \in Int
    <2> DEFINE r == high % step
    <2>1. high = step * b + r /\ r \in 0 .. step - 1 /\ b \in Int
      BY Division
    <2>2. step * b = b * step /\ b * step \in Int
      BY <2>1, ProductSigns
    <2> HIDE DEF r, b
    <2> QED
      BY <2>1, <2>2
  <1>3. q - p = (b - a) * step
    BY <1>1, <1>2, ProductSigns
  <1>4. b - a >= 1
    <2> SUFFICES ASSUME b - a <= 0 PROVE FALSE
      BY <1>1, <1>2
    <2>1. (b - a) * step <= 0
      BY <1>1, <1>2, ProductSigns
    <2> HIDE DEF p, q
    <2> QED
      BY <1>1, <1>2, <1>3, <2>1
  <1>5. b - a <= 4
    <2> SUFFICES ASSUME 5 <= b - a PROVE FALSE
      BY <1>1, <1>2
    <2>1. 5 * step <= (b - a) * step
      BY <1>1, <1>2, ProductSigns
    <2> HIDE DEF p, q
    <2> QED
      BY <1>1, <1>2, <1>3, <2>1
  <1>6. Ticks(low, high, step) = {at[k] : k \in a .. b}
    BY DEF Ticks
  <1>7. at \in Surjection(a .. b, Ticks(low, high, step))
    BY <1>6 DEF Surjection
  <1>8. at \in Injection(a .. b, Ticks(low, high, step))
    <2>1. ASSUME NEW j \in a .. b, NEW k \in a .. b, j < k PROVE at[j] # at[k]
      <3>1. (j + 1) * step <= k * step
        BY <1>1, <1>2, <2>1, ProductSigns
      <3>2. (j + 1) * step = j * step + step /\ j * step \in Int /\ k * step \in Int
        BY <1>1, <1>2
      <3>3. at[j] = j * step /\ at[k] = k * step
        OBVIOUS
      <3> HIDE DEF at
      <3> QED
        BY <3>1, <3>2, <3>3
    <2>2. \A j, k \in a .. b : at[j] = at[k] => j = k
      <3> HIDE DEF at
      <3> QED
        BY <1>1, <1>2, <2>1
    <2> HIDE DEF at, a, b
    <2>3. at \in [a .. b -> Ticks(low, high, step)]
      BY <1>7 DEF Surjection
    <2> QED
      BY <2>2, <2>3 DEF Injection, IsInjective
  <1>9. IsFiniteSet(a .. b) /\ Cardinality(a .. b) = b - a + 1
    <2> HIDE DEF a, b
    <2> QED
      BY <1>1, <1>2, <1>4, FS_Interval
  <1> HIDE DEF at, a, b
  <1>10. Cardinality(Ticks(low, high, step)) = b - a + 1
    BY <1>7, <1>8, <1>9, FS_Surjection
  <1> QED
    BY <1>1, <1>2, <1>4, <1>5, <1>10

\* The ladder never steps over more than a factor of two, so that the step is
\* between a quarter and a half of the span.
LEMMA StepFitsSpan ==
    ASSUME NEW span \in Int, NEW decades, NEW mag \in Nat \ {0}, mag % 2 = 0,
           Magnitude(span, decades) = mag, 4 * mag <= span, span <= 40 * mag
    PROVE  /\ NiceStep(span, decades) \in Nat \ {0}
           /\ 2 * NiceStep(span, decades) <= span
           /\ span <= 4 * NiceStep(span, decades)
  <1> DEFINE half == (5 * mag) \div 2
             ladder == {mag, 2 * mag, half, 5 * mag, 10 * mag}
             fits == {s \in ladder : span <= 4 * s}
             step == Min(fits)
  <1>1. half \in Nat /\ 2 * half = 5 * mag
    OBVIOUS
  <1>2. NiceStep(span, decades) = step
    BY DEF NiceStep
  <1> HIDE DEF half
  <1>3. 10 * mag \in fits /\ fits \subseteq Nat
    BY <1>1
  <1>4. PICK s \in fits : \A x \in fits : s <= x
    BY <1>3, SmallestNat
  <1>5. step \in fits /\ \A x \in fits : step =< x
    <2>1. \E x \in fits : \A y \in fits : x =< y
      BY <1>4
    <2> HIDE DEF fits
    <2> QED
      BY <2>1 DEF Min
  <1> HIDE DEF step
  <1>6. step \in ladder /\ span <= 4 * step
    BY <1>5
  <1>7. \A x \in ladder : x < step => 4 * x < span
    BY <1>1, <1>5
  <1>8. 2 * step <= span
    BY <1>1, <1>6, <1>7
  <1> QED
    BY <1>1, <1>2, <1>6, <1>8

\* The decades of the model: six powers of ten, from a hundredth of a percent to
\* ten units.
LEMMA DecadesAre ==
    /\ Decades = {Scale, 10 * Scale, 100 * Scale, 1000 * Scale, 10000 * Scale,
                  100000 * Scale}
    /\ One = 10000 * Scale /\ Scale \in Nat \ {0} /\ Scale % 2 = 0
  <1>1. Scale \in Nat \ {0} /\ Scale % 2 = 0
    <2>1. 2 \in 1 .. End
      BY ClockAssumption, RangeAssumption, LookbackAssumption DEF Display
    <2> QED
      BY <2>1, ScaleAssumption
  <1>2. One = 10000 * Scale
    BY <1>1 DEF One
  <1>3. /\ One \div 10000 = Scale /\ One \div 1000 = 10 * Scale
        /\ One \div 100 = 100 * Scale /\ One \div 10 = 1000 * Scale
        /\ 10 * One = 100000 * Scale
    BY <1>1, <1>2
  <1> QED
    BY <1>1, <1>2, <1>3 DEF Decades

LEMMA MagnitudeOf ==
    ASSUME NEW span \in Int, 4 * Scale <= span, span <= 400 * One
    PROVE  \E mag \in Nat \ {0} :
              /\ mag % 2 = 0 /\ Magnitude(span, Decades) = mag
              /\ 4 * mag <= span /\ span <= 40 * mag
  <1> DEFINE S == {d \in Decades : 4 * d <= span}
             mag == Max(S)
  <1>1. /\ S # {} /\ S \in SUBSET Nat
        /\ 100000 * Scale \in Nat /\ \A x \in S : x <= 100000 * Scale
    <2>1. Scale \in Decades
      BY DecadesAre
    <2>2. Scale \in S
      BY <2>1
    <2>3. \A x \in Decades : x \in Nat /\ x <= 100000 * Scale
      BY DecadesAre
    <2>4. 100000 * Scale \in Nat
      BY DecadesAre
    <2>5. S \subseteq Decades
      OBVIOUS
    <2> HIDE DEF S
    <2> QED
      BY <2>2, <2>3, <2>4, <2>5
  <1>2. mag \in S /\ \A x \in S : x <= mag
    <2> DEFINE top == 100000 * Scale
    <2>1. top \in Nat /\ \A x \in S : x <= top
      BY <1>1
    <2>2. S \in SUBSET Nat /\ S # {}
      BY <1>1
    <2> HIDE DEF S, top
    <2> QED
      BY <2>1, <2>2, BoundedHasMax
  <1>3. Magnitude(span, Decades) = mag
    BY DEF Magnitude
  <1> HIDE DEF mag
  <1>4. mag \in Nat \ {0} /\ mag % 2 = 0 /\ 4 * mag <= span
    BY <1>2, DecadesAre
  <1>5. span <= 40 * mag
    <2>1. CASE mag = 100000 * Scale
      BY <2>1, DecadesAre
    <2>2. CASE mag # 100000 * Scale
      <3>1. 10 * mag \in Decades
        BY <1>2, <2>2, DecadesAre
      <3>2. ~(10 * mag <= mag)
        BY <1>4
      <3>3. 10 * mag \notin S
        BY <1>2, <3>2
      <3> QED
        BY <1>4, <3>1, <3>3
    <2> QED
      BY <2>1, <2>2
  <1> QED
    BY <1>3, <1>4, <1>5

\* The rates up to which the six powers of ten reach: those of the model end at
\* ten units, those of the code do not end (chart.py:112).
Reach == 170

LEMMA DrawLabels ==
    ASSUME FeedTypeOK, NEW now \in Int, NEW signals \in SUBSET Signals,
           Draw(now, signals), RatesWithin(Reach), EntryRate # ExitRate
    PROVE  AxisIsLabelled'
  <1> SUFFICES ASSUME Drawn' PROVE Cardinality(view'.ticks) \in 2 .. 5
    BY DEF AxisIsLabelled
  <1>1. PICK n, line, raw, markers, times, D :
              /\ D = Domain(line, raw, markers)
              /\ D \in SUBSET Int /\ D # {} /\ IsFiniteSet(D)
              /\ \A c \in Nat : RatesWithin(c) =>
                    \A v \in D : -(100 * (c * Scale)) <= v /\ v <= 100 * (c * Scale)
              /\ view' = Picture(now, times, line, raw, markers, Axis(D))
    BY DrawHasAxis
  <1> DEFINE low == Axis(D).low
             high == Axis(D).high
             span == high - low
  <1>2. low \in Int /\ high \in Int
    BY <1>1, AxisCovers
  <1>3. view'.ticks = Ticks(low, high, NiceStep(span, Decades))
    BY <1>1 DEF Picture
  <1>4. 4 * Scale <= span /\ span <= 400 * One
    <2> DEFINE c == 100 * (Reach * Scale)
               g == 100 * Scale
    <2>1. c \in Nat /\ g \in Nat \ {0} /\ Scale \in Nat \ {0}
      BY ScaleAssumption DEF Reach
    <2>2. \A v \in D : -c <= v /\ v <= c
      BY <1>1 DEF Reach
    <2>3. \E u, v \in D : v - u >= g
      <3>1. 100 * Scale * EntryRate \in D /\ 100 * Scale * ExitRate \in D
        BY <1>1 DEF Domain
      <3>2. ASSUME NEW a \in Int, NEW b \in Int, a < b
            PROVE  100 * Scale * b - 100 * Scale * a >= g
        <4>1. 1 * g <= (b - a) * g
          BY <2>1, <3>2, ProductSigns
        <4>2. (b - a) * g = 100 * Scale * b - 100 * Scale * a
          BY <2>1
        <4> QED
          BY <2>1, <4>1, <4>2
      <3>3. CASE EntryRate < ExitRate
        BY <3>1, <3>2, <3>3, ThresholdAssumption
      <3>4. CASE ExitRate < EntryRate
        BY <3>1, <3>2, <3>4, ThresholdAssumption
      <3> QED
        BY <3>3, <3>4, ThresholdAssumption
    <2> HIDE DEF c, g
    <2>4. span >= 116 * g /\ span <= 232 * c
      BY <1>1, <2>1, <2>2, <2>3, AxisSpan
    <2> HIDE DEF low, high
    <2> QED
      BY <1>2, <2>1, <2>4, DecadesAre DEF c, g, Reach
  <1> HIDE DEF low, high
  <1>5. PICK mag \in Nat \ {0} :
              /\ mag % 2 = 0 /\ Magnitude(span, Decades) = mag
              /\ 4 * mag <= span /\ span <= 40 * mag
    BY <1>2, <1>4, MagnitudeOf
  <1>6. /\ NiceStep(span, Decades) \in Nat \ {0}
        /\ 2 * NiceStep(span, Decades) <= span
        /\ span <= 4 * NiceStep(span, Decades)
    BY <1>2, <1>5, StepFitsSpan
  <1> QED
    BY <1>2, <1>3, <1>6, TicksCounted

\* Whatever was read, drawn and recorded: the axis has two to five labels, if
\* the two thresholds differ and no rate is beyond the modelled powers of ten
\* (_nice_step and the ticks, chart.py:107-116, 287-292).
THEOREM AxesAreLabelled ==
    ASSUME EntryRate # ExitRate, RatesWithin(Reach)
    PROVE  ChartSpec => []AxisIsLabelled
  <1> DEFINE Inv == FeedTypeOK /\ AxisIsLabelled
  <1>1. ChartInit => Inv
    BY InitFeedInv DEF ChartInit, NotYet, AxisIsLabelled, Drawn, FeedInv
  <1>2. Inv /\ [ChartNext]_chartVars => Inv'
    <2> SUFFICES ASSUME Inv, [ChartNext]_chartVars PROVE Inv'
      OBVIOUS
    <2>1. CASE UNCHANGED chartVars
      BY <2>1 DEF chartVars, FeedTypeOK, AxisIsLabelled, Drawn
    <2>2. CASE Next /\ UNCHANGED view
      BY <2>2, FeedStepTyped DEF AxisIsLabelled, Drawn
    <2>3. ASSUME NEW now \in End - Early .. End + Late,
                 NEW signals \in SUBSET Signals, Draw(now, signals)
          PROVE  Inv'
      <3>1. now \in Int
        BY ClockAssumption, RangeAssumption
      <3>2. AxisIsLabelled'
        BY <2>3, <3>1, DrawLabels
      <3> QED
        BY <2>3, <3>2 DEF Draw, feedVars, FeedTypeOK
    <2>4. CASE DrawBlank
      BY <2>4 DEF DrawBlank, feedVars, FeedTypeOK, AxisIsLabelled, Drawn, Blank
    <2> QED
      BY <2>1, <2>2, <2>3, <2>4 DEF ChartNext
  <1> QED
    BY <1>1, <1>2, PTL DEF ChartSpec
=============================================================================
