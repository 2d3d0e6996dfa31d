---------------------------- MODULE FundingFeed ----------------------------
(***************************************************************************)
(* One read of the funding history: fetch_funding of data/hyperliquid.py   *)
(* pages through the venue's settlements, each page by _post with its      *)
(* retries, normalises what it got, and the trailing average of signal.py  *)
(* (and, at every displayed instant, of chart.py) is taken over the result.*)
(* Times are whole hours, rates are integers; a page is a set because the  *)
(* code deduplicates by time and sorts.                                    *)
(***************************************************************************)
EXTENDS Integers, FiniteSetsExt

CONSTANTS Start, End,      \* the range asked for (start_ms, end_ms)
          Rates,           \* the funding rates a settlement may have
          ClientPage,      \* the page size the client expects (_FUNDING_PAGE)
          ServerPage,      \* the page size of the venue
          MaxAttempts,     \* _MAX_ATTEMPTS
          Lookback,        \* the window of the trailing average, in hours
          Scale            \* rates per hour are counted in units of 1 / Scale

ASSUME RangeAssumption == Start \in Nat /\ End \in Nat /\ Start <= End
ASSUME RateAssumption == Rates \subseteq Int
ASSUME PageAssumption ==
    ClientPage \in Nat \ {0} /\ ServerPage \in Nat \ {0}
ASSUME AttemptsAssumption == MaxAttempts \in Nat \ {0}
ASSUME LookbackAssumption == Lookback \in Nat \ {0}
ASSUME ScaleAssumption ==
    Scale \in Nat \ {0} /\ \A gap \in 1 .. End : Scale % gap = 0

VARIABLES history,         \* the venue's settlements: a rate for each time
          fetched,         \* the times of the rows read so far
          call             \* where the read stands

feedVars == <<history, fetched, call>>

\* post: a page is to be asked for; done: fetch_funding has returned;
\* raised: _post gave up, and fetch_funding raised.
Call == [pc: {"post", "done", "raised"}, from: Nat, attempt: 1 .. MaxAttempts]

Init ==
    /\ history \in UNION {[T -> Rates] : T \in SUBSET (0 .. End + 1)}
    /\ fetched = {}
    /\ call = [pc |-> "post", from |-> Start, attempt |-> 1]

-----------------------------------------------------------------------------
(* The venue.                                                              *)

Due(from) == {t \in DOMAIN history : from <= t /\ t <= End}

\* The answer to a fundingHistory request: the earliest settlements due, as
\* many as fit on a page. If ServerPage < ClientPage, a page may be short for the
\* client although more settlements are due.
IsPage(batch, from) ==
    /\ batch \subseteq Due(from)
    /\ \A t \in batch, u \in Due(from) \ batch : t < u
    /\ \/ batch = Due(from) /\ Cardinality(batch) <= ServerPage
       \/ Cardinality(batch) = ServerPage

-----------------------------------------------------------------------------
(* The client.                                                             *)

\* Mutant: the last attempt starts the backoff over instead of raising.
PostFails_StartsOver ==
    /\ call.pc = "post"
    /\ call' = IF call.attempt = MaxAttempts
               THEN [call EXCEPT !.attempt = 1]
               ELSE [call EXCEPT !.attempt = @ + 1]
    /\ UNCHANGED <<history, fetched>>

\* Any failure of the request is retried, up to the last attempt.
PostFails ==
    /\ call.pc = "post"
    /\ call' = IF call.attempt = MaxAttempts
               THEN [call EXCEPT !.pc = "raised"]
               ELSE [call EXCEPT !.attempt = @ + 1]
    /\ UNCHANGED <<history, fetched>>

\* Mutant: an exactly full page counts as a short one.
EndsRead_Full(batch) ==
    batch = {} \/ End \in batch \/ Cardinality(batch) <= ClientPage

\* A page that is empty, reaches the end, or is short is the last one.
EndsRead(batch) ==
    batch = {} \/ End \in batch \/ Cardinality(batch) < ClientPage

\* Mutant: the next page starts with the last row of this one.
PageAfter_Same(last) == [pc |-> "post", from |-> last, attempt |-> 1]

PageAfter(last) == [pc |-> "post", from |-> last + 1, attempt |-> 1]

PostAnswers ==
    /\ call.pc = "post"
    /\ \E batch \in SUBSET Due(call.from) :
          /\ IsPage(batch, call.from)
          /\ fetched' = fetched \cup batch
          /\ \/ EndsRead(batch) /\ call' = [call EXCEPT !.pc = "done"]
             \/ /\ ~EndsRead(batch)
                /\ \E last \in batch :
                      /\ \A t \in batch : t <= last
                      /\ call' = PageAfter(last)
    /\ UNCHANGED history

Next == PostFails \/ PostAnswers

Spec == Init /\ [][Next]_feedVars

\* Each attempt ends: the HTTP timeout is 15 s, the backoff at most 30 s.
FairSpec == Spec /\ WF_feedVars(Next)

-----------------------------------------------------------------------------
(* What is computed from the rows.                                         *)

\* The interval of a row is its distance from the row before; the first row
\* that was read has none and gets the venue's default of one hour.
Interval(read, t) ==
    LET earlier == {u \in read : u < t}
    IN  IF earlier = {} THEN 1 ELSE t - Max(earlier)

RatePerHour(read, t) == history[t] * (Scale \div Interval(read, t))

\* Mutant: the window is closed at its left end as well.
Window_LeftClosed(read, q) == {t \in read : q - Lookback <= t /\ t <= q}

Window(read, q) == {t \in read : q - Lookback < t /\ t <= q}

\* compute_signal at the instant q over the rows that were read: the rates it
\* adds up, and how many.
TrailingAverage(read, q) ==
    LET window == Window(read, q)
    IN  [sum |-> SumFunction([t \in window |-> RatePerHour(read, t)]),
         count |-> Cardinality(window)]

-----------------------------------------------------------------------------
(* Properties                                                              *)

FeedTypeOK ==
    /\ history \in UNION {[T -> Rates] : T \in SUBSET (0 .. End + 1)}
    /\ fetched \subseteq DOMAIN history
    /\ call \in Call

\* A read that returns has every settlement of the range, whatever requests
\* failed on the way, and whether or not its last page was exactly full
\* (data/hyperliquid.py:81-93). This needs a venue whose page is not smaller than
\* _FUNDING_PAGE: with a smaller one the first page ends the read (line 91), and
\* it is not true that the read "never stops on a short page mid-range" (line 78).
FetchComplete == call.pc = "done" => fetched = Due(Start)

\* The hours a settlement stands for: those since the one before it; the very
\* first stands for one.
Spread(t) ==
    IF \A u \in DOMAIN history : t <= u THEN 1
    ELSE CHOOSE d \in 1 .. t :
             /\ t - d \in DOMAIN history
             /\ \A e \in 1 .. d - 1 : t - e \notin DOMAIN history

\* The rolling mean over all that ever settled, each settlement spread over the
\* hours it stands for.
MeanOfHistory(q) ==
    LET hours == {h \in q - Lookback + 1 .. q : h \in DOMAIN history}
    IN  [sum |-> SumFunction([h \in hours |-> history[h] * (Scale \div Spread(h))]),
         count |-> Cardinality(hours)]

\* The average of the rows that were fetched is that of the venue's whole
\* history, at the poll's instant and at every instant a chart shows, once a
\* row before the window was fetched or none exists: "the chart's "trailing
\* funding" is exactly the signal the poller acts on" (chart.py:12-14),
\* although the two reads start at different times.
AverageMatchesHistory ==
    call.pc = "done" =>
        \A q \in Start .. End :
            \/ \E t \in fetched : t <= q - Lookback
            \/ \A t \in DOMAIN history : Start <= t
            => TrailingAverage(fetched, q) = MeanOfHistory(q)

\* What the rows read so far are: all that settled before the next page.
FeedInv ==
    /\ FeedTypeOK
    /\ call.pc = "post" =>
          /\ Start <= call.from /\ call.from <= End
          /\ fetched = {t \in DOMAIN history : Start <= t /\ t < call.from}
    /\ FetchComplete

\* A read ends, with its rows or with the exception that makes the poll skip
\* the asset, however often the venue fails (data/hyperliquid.py:58-72).
FetchEnds == <>(call.pc # "post")
=============================================================================
