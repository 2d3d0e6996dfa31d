------------------------- MODULE FundingFeedProofs -------------------------
(***************************************************************************)
(* A read that returns is complete, for every range, history and page size *)
(* of the venue that is not below the client's.                            *)
(***************************************************************************)
EXTENDS FundingFeed, FiniteSetTheorems, TLAPS

\* The domain of a history, as the type invariant gives it.
LEMMA HistoryTimes ==
    ASSUME FeedTypeOK
    PROVE  DOMAIN history \subseteq Nat
<1>1. PICK T \in SUBSET (0 .. End + 1) : history \in [T -> Rates]
  BY DEF FeedTypeOK
<1>2. DOMAIN history = T
  BY <1>1
<1>. QED
  BY <1>2, RangeAssumption

\* Before the first page, nothing before it is missing.
LEMMA InitFeedInv == Init => FeedInv
<1>. SUFFICES ASSUME Init PROVE FeedInv
  OBVIOUS
<1>1. call \in Call
  BY RangeAssumption, AttemptsAssumption DEF Init, Call
<1>2. FeedTypeOK
  BY <1>1 DEF Init, FeedTypeOK
<1>3. fetched = {t \in DOMAIN history : Start <= t /\ t < call.from}
  BY <1>2, HistoryTimes, RangeAssumption DEF Init
<1>. QED
  BY <1>2, <1>3, RangeAssumption DEF Init, FeedInv, FetchComplete

\* A failure moves no page.
LEMMA PostFailsKeepsFeedInv == FeedInv /\ PostFails => FeedInv'
<1>. SUFFICES ASSUME FeedInv, PostFails PROVE FeedInv'
  OBVIOUS
<1>. USE DEF PostFails
<1>1. FeedTypeOK'
  BY AttemptsAssumption DEF FeedInv, FeedTypeOK, Call
<1>2. call'.pc \in {"post", "raised"} /\ call'.from = call.from
  BY DEF FeedInv, FeedTypeOK, Call
<1>. QED
  BY <1>1, <1>2 DEF FeedInv, FetchComplete

\* A page that ends the read was the rest of the range.
LEMMA LastPageIsRest ==
    ASSUME FeedInv, call.pc = "post", ClientPage <= ServerPage,
           NEW batch \in SUBSET Due(call.from), IsPage(batch, call.from),
           EndsRead(batch)
    PROVE  batch = Due(call.from)
<1>. SUFFICES ASSUME Cardinality(batch) = ServerPage
              PROVE  batch = Due(call.from)
  BY DEF IsPage
<1>1. batch # {}
  BY FS_EmptySet, PageAssumption
<1>2. ~(Cardinality(batch) < ClientPage)
  BY PageAssumption
<1>3. End \in batch
  BY <1>1, <1>2 DEF EndsRead
<1>4. \A u \in Due(call.from) : u <= End /\ u \in Nat
  BY HistoryTimes DEF Due, FeedInv
<1>5. ASSUME NEW u \in Due(call.from), u \notin batch
      PROVE  FALSE
  <2>1. End < u
    BY <1>3, <1>5 DEF IsPage
  <2>. QED
    BY <2>1, <1>4, <1>5, RangeAssumption
<1>. QED
  BY <1>5

\* A page followed by another has every settlement up to its last one.
LEMMA PageHasAllBefore ==
    ASSUME FeedInv, call.pc = "post",
           NEW batch \in SUBSET Due(call.from), IsPage(batch, call.from),
           NEW last \in batch, ~EndsRead(batch), \A t \in batch : t <= last
    PROVE  /\ last \in Nat /\ call.from <= last /\ last < End
           /\ fetched \cup batch =
                {t \in DOMAIN history : Start <= t /\ t < last + 1}
<1>. DEFINE Times == DOMAIN history
<1>1. Times \subseteq Nat /\ call.from \in Nat
  BY HistoryTimes DEF FeedInv, FeedTypeOK, Call
<1>2. last \in Nat /\ call.from <= last /\ last < End
  BY <1>1, RangeAssumption DEF Due, EndsRead
<1>3. \A t \in Times : call.from <= t /\ t < last + 1 => t \in batch
  BY <1>1, <1>2, RangeAssumption DEF Due, IsPage
<1>4. \A t \in batch : t \in Times /\ call.from <= t /\ t < last + 1
  BY <1>1, <1>2 DEF Due
<1>5. fetched = {t \in Times : Start <= t /\ t < call.from}
  BY DEF FeedInv
<1>6. Start <= call.from
  BY DEF FeedInv
<1>. DEFINE Before == {t \in Times : Start <= t /\ t < last + 1}
<1>7. \A t \in Before : t \in fetched \cup batch
  BY <1>1, <1>3, <1>5, RangeAssumption
<1>8. \A t \in fetched \cup batch : t \in Before
  <2>1. ASSUME NEW t \in fetched PROVE t \in Before
    <3>1. t \in Times /\ Start <= t /\ t < call.from
      BY <1>5, <2>1
    <3>. QED
      BY <1>1, <1>2, <3>1
  <2>2. ASSUME NEW t \in batch PROVE t \in Before
    <3>1. t \in Times /\ call.from <= t /\ t < last + 1
      BY <1>4, <2>2
    <3>. QED
      BY <1>1, <1>6, <3>1, RangeAssumption
  <2>. QED
    BY <2>1, <2>2
<1>9. fetched \cup batch = Before
  BY <1>7, <1>8
<1>. QED
  BY <1>2, <1>9

LEMMA PostAnswersKeepsFeedInv ==
    ASSUME FeedInv, PostAnswers, ClientPage <= ServerPage
    PROVE  FeedInv'
<1>1. call.pc = "post" /\ call \in Call /\ history' = history
  BY DEF PostAnswers, FeedInv, FeedTypeOK
<1>2. PICK batch \in SUBSET Due(call.from) :
          /\ IsPage(batch, call.from)
          /\ fetched' = fetched \cup batch
          /\ \/ EndsRead(batch) /\ call' = [call EXCEPT !.pc = "done"]
             \/ /\ ~EndsRead(batch)
                /\ \E last \in batch :
                      /\ \A t \in batch : t <= last
                      /\ call' = PageAfter(last)
  BY DEF PostAnswers
<1>3. fetched' \subseteq DOMAIN history'
  BY <1>1, <1>2 DEF FeedInv, FeedTypeOK, Due
<1>4. CASE EndsRead(batch) /\ call' = [call EXCEPT !.pc = "done"]
  <2>1. batch = Due(call.from)
    BY <1>1, <1>2, <1>4, LastPageIsRest
  <2>2. fetched' = Due(Start)
    BY <1>1, <1>2, <2>1, HistoryTimes, RangeAssumption
       DEF FeedInv, Due, Call
  <2>3. call' \in Call /\ call'.pc = "done"
    BY <1>1, <1>4 DEF Call
  <2>. QED
    BY <1>1, <1>3, <2>2, <2>3 DEF FeedInv, FeedTypeOK, FetchComplete, Due
<1>5. CASE /\ ~EndsRead(batch)
           /\ \E last \in batch :
                 /\ \A t \in batch : t <= last
                 /\ call' = PageAfter(last)
  <2>1. PICK last \in batch :
              /\ \A t \in batch : t <= last
              /\ call' = PageAfter(last)
    BY <1>5
  <2>2. /\ last \in Nat /\ call.from <= last /\ last < End
        /\ fetched' = {t \in DOMAIN history : Start <= t /\ t < last + 1}
    BY <1>1, <1>2, <1>5, <2>1, PageHasAllBefore
  <2>3. call' \in Call /\ call'.pc = "post" /\ call'.from = last + 1
    BY <2>1, <2>2, AttemptsAssumption DEF Call, PageAfter
  <2>4. Start <= call'.from /\ call'.from <= End
    BY <1>1, <2>2, <2>3, RangeAssumption DEF FeedInv, Call
  <2>. QED
    BY <1>1, <1>3, <2>2, <2>3, <2>4 DEF FeedInv, FeedTypeOK, FetchComplete
<1>. QED
  BY <1>2, <1>4, <1>5

\* The rows of a read that goes on are all that settled before its next page,
\* for every history, range and number of failures, as long as the venue's page
\* is not smaller than the one the client expects (data/hyperliquid.py:84-93).
THEOREM FetchLosesNothing ==
    ASSUME ClientPage <= ServerPage
    PROVE  Spec => []FeedInv
<1>1. FeedInv /\ [Next]_feedVars => FeedInv'
  <2>. SUFFICES ASSUME FeedInv, [Next]_feedVars PROVE FeedInv'
    OBVIOUS
  <2>1. CASE PostFails
    BY <2>1, PostFailsKeepsFeedInv
  <2>2. CASE PostAnswers
    BY <2>2, PostAnswersKeepsFeedInv
  <2>3. CASE UNCHANGED feedVars
    BY <2>3 DEF feedVars, FeedInv, FeedTypeOK, FetchComplete, Due
  <2>. QED
    BY <2>1, <2>2, <2>3 DEF Next
<1>. QED
  BY <1>1, InitFeedInv, PTL DEF Spec

\* A read that returns has the whole range, under the same assumption.
THEOREM FetchReturnsAll ==
    ASSUME ClientPage <= ServerPage
    PROVE  Spec => []FetchComplete
<1>1. FeedInv => FetchComplete
  BY DEF FeedInv
<1>. QED
  BY <1>1, FetchLosesNothing, PTL

-----------------------------------------------------------------------------
(* The average of what was read.                                           *)

\* A non-empty set of naturals with a bound has a greatest element: the least
\* of its bounds.
LEMMA BoundedHasMax ==
    ASSUME NEW S \in SUBSET Nat, S # {}, NEW bound \in Nat, \A x \in S : x <= bound
    PROVE  Max(S) \in S /\ \A x \in S : x <= Max(S)
<1>. DEFINE Bounds == {n \in Nat : \A x \in S : x <= n}
<1>1. PICK m \in Bounds : \A n \in Bounds : <<n, m>> \notin OpToRel(<, Nat)
  <2>1. Bounds \subseteq Nat /\ bound \in Bounds
    OBVIOUS
  <2>. HIDE DEF Bounds
  <2>. QED
    BY <2>1, WFMin, NatLessThanWellFounded, Zenon
<1>2. \A n \in Bounds : ~(n < m)
  BY <1>1 DEF OpToRel
<1>3. m \in S
  <2>1. SUFFICES ASSUME m \notin S PROVE FALSE
    OBVIOUS
  <2>2. \A x \in S : x < m
    BY <2>1
  <2>3. m # 0 /\ m - 1 \in Nat
    <3>1. PICK x \in S : TRUE
      OBVIOUS
    <3>. QED
      BY <2>2, <3>1
  <2>4. m - 1 \in Bounds
    BY <2>2, <2>3
  <2>. QED
    BY <1>2, <2>4
<1>4. \E x \in S : \A y \in S : x >= y
  BY <1>3
<1>. QED
  BY <1>4 DEF Max

\* The last settlement before t.
Precedes(m, t) ==
    /\ m \in DOMAIN history /\ m < t
    /\ \A u \in DOMAIN history : u < t => u <= m

\* A read has every settlement between two of its rows.
NoGaps(read) ==
    /\ read \subseteq DOMAIN history
    /\ \A v, w \in read : \A u \in DOMAIN history : v <= u /\ u <= w => u \in read

\* Where a row has an earlier one in such a read, its interval is its distance
\* from the settlement before it.
LEMMA IntervalFromPredecessor ==
    ASSUME DOMAIN history \subseteq Nat, NEW read, NoGaps(read),
           NEW t \in read, \E u \in read : u < t
    PROVE  \E m \in Nat : Precedes(m, t) /\ Interval(read, t) = t - m
<1>. DEFINE earlier == {u \in read : u < t}
<1>1. earlier \in SUBSET Nat /\ earlier # {} /\ t \in Nat
  BY DEF NoGaps
<1>2. \A u \in earlier : u <= t
  BY <1>1
<1>3. Max(earlier) \in earlier /\ \A u \in earlier : u <= Max(earlier)
  <2>. HIDE DEF earlier
  <2>. QED
    BY <1>1, <1>2, BoundedHasMax
<1>4. Interval(read, t) = t - Max(earlier)
  BY <1>1 DEF Interval
<1>5. Precedes(Max(earlier), t)
  <2>. DEFINE m == Max(earlier)
  <2>1. m \in Nat /\ m \in read /\ m \in DOMAIN history /\ m < t
    BY <1>3, <1>1 DEF NoGaps
  <2>2. ASSUME NEW u \in DOMAIN history, u < t, ~(u <= m) PROVE FALSE
    <3>1. u \in Nat /\ m <= u /\ u <= t
      <4>. HIDE DEF m
      <4>. QED
        BY <1>1, <2>1, <2>2
    <3>2. u \in earlier
      BY <2>1, <2>2, <3>1 DEF NoGaps
    <3>. QED
      BY <1>3, <2>2, <3>2
  <2>. QED
    BY <2>1, <2>2 DEF Precedes
<1>. QED
  BY <1>1, <1>3, <1>4, <1>5

LEMMA PredecessorIsUnique ==
    ASSUME DOMAIN history \subseteq Nat, NEW t \in Nat,
           NEW m \in Nat, NEW n \in Nat, Precedes(m, t), Precedes(n, t)
    PROVE  m = n
  BY DEF Precedes

\* The hours a settlement stands for reach back to its predecessor.
LEMMA SpreadFromPredecessor ==
    ASSUME DOMAIN history \subseteq Nat, NEW t \in Nat, NEW m \in Nat, Precedes(m, t)
    PROVE  Spread(t) = t - m
<1>. DEFINE Gap(d) == /\ t - d \in DOMAIN history
                     /\ \A e \in 1 .. d - 1 : t - e \notin DOMAIN history
<1>1. ~(\A u \in DOMAIN history : t <= u)
  BY DEF Precedes
<1>2. Spread(t) = CHOOSE d \in 1 .. t : Gap(d)
  BY <1>1 DEF Spread
<1>3. t - m \in 1 .. t /\ Gap(t - m)
  <2>1. t - m \in 1 .. t /\ t - (t - m) = m
    BY DEF Precedes
  <2>2. ASSUME NEW e \in 1 .. t - m - 1, t - e \in DOMAIN history PROVE FALSE
    BY <2>2 DEF Precedes
  <2>. QED
    BY <2>1, <2>2 DEF Precedes
<1>4. ASSUME NEW d \in 1 .. t, Gap(d) PROVE d = t - m
  <2>1. t - d <= m
    BY <1>4 DEF Precedes
  <2>2. ~(t - d < m)
    <3>1. ASSUME t - d < m PROVE FALSE
      <4>1. t - m \in 1 .. d - 1 /\ t - (t - m) = m
        BY <3>1 DEF Precedes
      <4>. QED
        BY <1>4, <4>1 DEF Precedes
    <3>. QED
      BY <3>1
  <2>. QED
    BY <2>1, <2>2
<1>. HIDE DEF Gap
<1>. QED
  BY <1>2, <1>3, <1>4

\* Over a complete read the average is that of the history, at every instant
\* whose window lies in the range and is preceded by a fetched row, or if the
\* read begins with the history.
LEMMA CompleteReadAverages ==
    ASSUME FeedTypeOK, fetched = Due(Start), NEW q \in Start .. End,
           \/ \E t \in fetched : t <= q - Lookback
           \/ \A t \in DOMAIN history : Start <= t
    PROVE  TrailingAverage(fetched, q) = MeanOfHistory(q)
<1>. DEFINE hours == {h \in q - Lookback + 1 .. q : h \in DOMAIN history}
<1>a. DOMAIN history \subseteq Nat /\ q \in Nat /\ Lookback \in Nat \ {0}
  BY HistoryTimes, RangeAssumption, LookbackAssumption
<1>b. fetched = {u \in DOMAIN history : Start <= u /\ u <= End}
  BY DEF Due
<1>1. Window(fetched, q) = hours
  <2>1. \A h \in hours : Start <= h /\ h <= End
    BY <1>a, <1>b, RangeAssumption
  <2>2. \A h \in Window(fetched, q) : h \in hours
    BY <1>a, <1>b DEF Window
  <2>3. \A h \in hours : h \in Window(fetched, q)
    BY <1>a, <1>b, <2>1 DEF Window
  <2>. HIDE DEF hours
  <2>. QED
    BY <2>2, <2>3
<1>2. ASSUME NEW h \in hours PROVE RatePerHour(fetched, h) = history[h] * (Scale \div Spread(h))
  <2>1. h \in fetched /\ h \in Nat
    BY <1>1, <1>a DEF Window
  <2>2. CASE \E u \in fetched : u < h
    <3>1. PICK m \in Nat : Precedes(m, h) /\ Interval(fetched, h) = h - m
      <4>1. NoGaps(fetched)
        BY <1>a, <1>b, RangeAssumption DEF NoGaps
      <4>. QED
        BY <1>a, <2>1, <2>2, <4>1, IntervalFromPredecessor
    <3>2. Spread(h) = h - m
      BY <1>a, <2>1, <3>1, SpreadFromPredecessor
    <3>. QED
      BY <3>1, <3>2 DEF RatePerHour
  <2>3. CASE \A u \in fetched : ~(u < h)
    <3>1. {u \in fetched : u < h} = {}
      BY <2>3
    <3>2. Interval(fetched, h) = 1
      BY <3>1 DEF Interval
    <3>3. \A t \in DOMAIN history : Start <= t
      BY <1>a, <1>b, <2>3
    <3>4. \A u \in DOMAIN history : h <= u
      <4>1. h <= End
        BY <1>b, <2>1
      <4>. QED
        BY <1>a, <1>b, <2>1, <2>3, <3>3, <4>1, RangeAssumption
    <3>5. Spread(h) = 1
      BY <3>4 DEF Spread
    <3>. QED
      BY <3>2, <3>5 DEF RatePerHour
  <2>. QED
    BY <2>2, <2>3
<1>3. [t \in Window(fetched, q) |-> RatePerHour(fetched, t)]
        = [h \in hours |-> history[h] * (Scale \div Spread(h))]
  <2>. HIDE DEF hours
  <2>. QED
    BY <1>1, <1>2
<1>. QED
  BY <1>1, <1>3 DEF TrailingAverage, MeanOfHistory

\* The average of the rows that were read is that of the venue's whole history
\* at every instant whose window a fetched row precedes, for every history,
\* range, lookback and number of failures, under the same assumption on the
\* venue's page (data/hyperliquid.py:112-122, signal.py:73-83).
THEOREM AverageIsOfHistory ==
    ASSUME ClientPage <= ServerPage
    PROVE  Spec => []AverageMatchesHistory
<1>1. FeedInv => AverageMatchesHistory
  BY CompleteReadAverages DEF FeedInv, FetchComplete, AverageMatchesHistory
<1>. QED
  BY <1>1, FetchLosesNothing, PTL

-----------------------------------------------------------------------------
(* The safety half of FetchEnds                                            *)

LEMMA FeedStepTyped ==
    ASSUME FeedTypeOK, Next
    PROVE  FeedTypeOK'
  <1>1. CASE PostFails
    BY <1>1, AttemptsAssumption DEF PostFails, FeedTypeOK, Call
  <1>2. CASE PostAnswers
    <2>1. PICK batch \in SUBSET Due(call.from) :
              /\ fetched' = fetched \cup batch
              /\ \/ call' = [call EXCEPT !.pc = "done"]
                 \/ \E last \in batch : call' = PageAfter(last)
      BY <1>2 DEF PostAnswers
    <2>2. history' = history /\ batch \subseteq DOMAIN history
      BY <1>2 DEF PostAnswers, Due
    <2>3. call' \in Call
      <3>1. CASE call' = [call EXCEPT !.pc = "done"]
        BY <3>1 DEF FeedTypeOK, Call
      <3>2. ASSUME NEW last \in batch, call' = PageAfter(last)
            PROVE  call' \in Call
        <4>1. last \in Nat
          BY <2>2, <3>2, HistoryTimes
        <4> QED
          BY <3>2, <4>1, AttemptsAssumption DEF PageAfter, Call
      <3> QED
        BY <2>1, <3>1, <3>2
    <2> QED
      BY <2>1, <2>2, <2>3 DEF FeedTypeOK
  <1> QED
    BY <1>1, <1>2 DEF Next

\* A request that is made again was not made before: the read has gone on to a
\* later page, or to a later attempt at this one, and both are bounded.
ReadGoesOn ==
    call.pc = "post" =>
        \/ call'.pc \in {"done", "raised"}
        \/ /\ call'.pc = "post"
           /\ call'.attempt \in 1 .. MaxAttempts
           /\ call'.from \in Start .. End
           /\ \/ call'.from > call.from
              \/ call'.from = call.from /\ call'.attempt > call.attempt

\* No step of a read repeats a request (data/hyperliquid.py:58-72, 84-95), so a
\* read is over after at most MaxAttempts requests for each hour of its range,
\* whatever the size of the venue's page.
THEOREM ReadsGoOn == Spec => [][ReadGoesOn]_feedVars
<1>. DEFINE InRange == call.pc = "post" => call.from \in Start .. End
            Inv == FeedTypeOK /\ InRange
<1>1. Init => Inv
  BY InitFeedInv, RangeAssumption DEF Init, FeedInv
<1>2. ASSUME Inv, Next
      PROVE  Inv' /\ ReadGoesOn
  <2>1. call.pc = "post" => call.from \in Int /\ call.attempt \in 1 .. MaxAttempts
    BY <1>2 DEF FeedTypeOK, Call
  <2>2. CASE PostFails
    <3>1. FeedTypeOK'
      BY <1>2, FeedStepTyped
    <3>2. InRange' /\ ReadGoesOn
      BY <1>2, <2>1, <2>2, AttemptsAssumption
         DEF PostFails, ReadGoesOn, FeedTypeOK, Call
    <3>. QED
      BY <3>1, <3>2
  <2>3. CASE PostAnswers
    <3>1. FeedTypeOK'
      BY <1>2, FeedStepTyped
    <3>2. CASE call'.pc = "done"
      BY <3>1, <3>2 DEF ReadGoesOn
    <3>3. ASSUME NEW batch \in SUBSET Due(call.from), NEW last \in batch,
                 ~EndsRead(batch), call' = PageAfter(last)
          PROVE  InRange' /\ ReadGoesOn
      <4>1. last \in Due(call.from) /\ End \notin batch
        BY <3>3 DEF EndsRead
      <4>2. last \in Int /\ call.from <= last /\ last < End
        BY <1>2, <3>3, <4>1, HistoryTimes, RangeAssumption DEF Due
      <4>3. /\ call.from \in Start .. End
            /\ call' = [pc |-> "post", from |-> last + 1, attempt |-> 1]
        BY <1>2, <2>3, <3>3 DEF PostAnswers, PageAfter
      <4>4. last + 1 \in Start .. End /\ last + 1 > call.from
        BY <4>2, <4>3, RangeAssumption
      <4>5. 1 \in 1 .. MaxAttempts
        BY AttemptsAssumption
      <4>. QED
        BY <4>3, <4>4, <4>5 DEF ReadGoesOn
    <3>4. call'.pc = "done" \/ \E batch \in SUBSET Due(call.from) :
            ~EndsRead(batch) /\ \E last \in batch : call' = PageAfter(last)
      BY <1>2, <2>3 DEF PostAnswers, FeedTypeOK, Call
    <3>. QED
      BY <3>1, <3>2, <3>3, <3>4
  <2>. QED
    BY <1>2, <2>2, <2>3 DEF Next
<1>3. Inv /\ UNCHANGED feedVars => Inv'
  BY DEF feedVars, FeedTypeOK
<1>. QED
  BY <1>1, <1>2, <1>3, PTL DEF Spec
=============================================================================
