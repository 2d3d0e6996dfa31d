# A verification of mochi-carry-signal

TLA+ models of the funding-arb signal generator, their model-checking runs for
TLC and machine-checked proofs for TLAPS. Paths are relative to the package,
`src/mochi_carry_signal/`, unless they start with `src/`.

## 1. The system

One process (`run.py`: one uvicorn worker) holds a FastAPI app and, in the same
event loop, an hourly poller whose scans run in a worker thread. The two share
one SQLite table. Orders are placed by another service, the Position Manager
(PM), over HTTP; prices come from Hyperliquid over HTTP.

| Component | State | Operations |
|---|---|---|
| Signal table (`models.py`, `db.py`) | rows: asset, OPEN/CLOSE, status, UNIQUE idempotency key, arb_id | one short transaction per `session_scope` |
| Approve-to-fire handlers (`approval.py`) | locals across PM calls | `approve`, `reject`, `retry`, each in a thread of the app's pool |
| Poller (`poller.py`) | one scan: clock, PM snapshot, remaining assets; the loop's task | `poll_once`, `poll_asset`, `poll_loop` |
| PM client (`pm_client.py`) | none | `open_arb`, `close_arb`, `positions` |
| The PM (external) | arbs: opening, open, closing, closed, error | executes open and close after it has answered |
| Signal rule (`signal.py`) | none | `compute_signal`, `decide` |
| Hyperliquid client (`data/hyperliquid.py`) | none | paginated `fetch_funding`, `has_spot`, each request with retries |
| Web app (`web.py`) | a funding cache shared by the page loads; the lifespan | the three POST routes, `GET /`, start and shutdown |
| Chart (`chart.py`) | none | `build_funding_chart`: lines, markers, axis |
| Notifier, configuration, template, deployment | none | best-effort messages, settings |

How they interact: the poller only ever *records* (inserts a pending row); the
handlers only ever *fire* (change a row and call the PM), and only on a click.
No lock is held between them. A handler reads its row in one transaction, calls
the PM with a 15 s timeout, and writes in another transaction, so between the
two anything may have happened to the row: another handler, a scan, a crash.
Page loads run in threads too. They share the funding cache, again without a
lock, and draw whatever rows it holds with a clock of their own. At the end of
its life the server stops taking requests, cancels the loop's task, and joins
the worker threads, one of which may still be scanning.

What is hard about it, and what has to hold:

- **approve-to-fire**: no order without a click, one order per click, through
  double clicks, timeouts whose request still arrives, and restarts between the
  PM's answer and the commit (`ApproveToFire`, `GrantInv`);
- **the row and the order belong together**: the arb_id a row stores is the
  order this signal opened (`Lineage`, `FiredOpenMatchesArb`, `RetryOpensAnew`);
- **rejected means no order** (`RejectedMeansNoOrder`), **fired means executed**
  (`FiredCloseReached`), **a retry closes nothing that lives** (`NoChurn`);
- **one entry at a time**: the state derived from a stale PM snapshot and the
  log never proposes a second entry over one that stands
  (`OpensSeparatedByClose`), and keys stay unique although a retry rewrites one
  (`KeysUnique`);
- **the operator can see and repair what failed**: an order that failed at the
  PM keeps offering its retry (`FailedOrderIsRetryable`), and every answer the
  client can read decides the row it belongs to (`NoSilentOrder`). An answer it
  cannot read does not, although the order may exist (`FailureIsRecorded` is
  violated);
- **everything ends**: requests, scans and reads of the history, whatever the
  other side does (`ClickDecides`, `RequestAnswered`, `ScanCompletes`,
  `FetchEnds`, `PageLoadEnds`), and the process itself on a shutdown
  (`ShutdownEnds`);
- **the average is the right one**: no page is lost, and the window is exact
  (`FetchComplete`, `AverageMatchesHistory`);
- **the picture is the signal**: the trailing line shows what the poller acted
  on (`LineIsPolledSignal`), thinning keeps its shape (`ThinningKeepsShape`),
  nothing falls out of the plot (`PlotHoldsAll`, `AxisIsLabelled`);
- **the cache does not lie for long**: neither about its rows (`CacheIsRecent`)
  nor about a spot lookup that failed (`SpotFailureFades`);
- **one poller**: its scans never overlap, and a scan that raises does not end
  it (`OneScanAtATime`, `LoopLivesOn`). `CarrySignal` rests on this: it has one
  scan.

`PROJECT.json` lists the hazards one by one, at their lines.

## 2. The modules

    SignalLog <- PositionManager <- Approval, Poller <- CarrySignal
        CarrySignal <- MCCarrySignal (TLC)
        CarrySignal <- CarrySignalProofs <- ApproveToFireProofs <- KeyProofs
                                            ApproveToFireProofs <- OrderProofs <- RowProofs
        CarrySignal uses ApproveToFire as an instance (the refinement)
    FundingFeed <- FundingFeedProofs
    FundingFeed, ChartMath <- Chart (TLC) <- ChartProofs
    FundingCache, PollLoop <- WebApp <- MCWebApp (TLC), WebAppProofs

(`A <- B`: B extends A. The modules named `...Proofs` are for TLAPS.)

**SignalLog** is the table and the poller's pure decisions. A key is a record
(hour, asset, kind, retry timestamp) instead of the string `sig-...-r...`, and
`Stripped`/`RetryKey` do to it what the regular expression of `_retry_key` does.
A row's position stands for its id and for the order `(created_at, id)`: there
is one poller, it inserts in that order, and nothing deletes rows. The trailing
average enters as four classes, since `decide` only compares it with two
thresholds; every scan may find any class.

**PositionManager** is the PM and the wire. A call is a request in flight, then a
reply in the mailbox of the calling thread. The faults:

| Fault | What happens | What the client makes of it |
|---|---|---|
| `timeout` | the request is lost | `PMError` after 15 s |
| `late` | the request arrives after its sender has given up | `PMError` after 15 s |
| `refuse` | any 4xx or 5xx but the 409 | `PMError` |
| `redirect` | a 3xx, which httpx does not follow | no error if there is no body or it is JSON (`empty`), otherwise `resp.json()` raises (`garbled`) |
| `garble` | the PM executes the request, but the body below 400 is no JSON; or that of a positions read is not | an exception that nothing but the framework catches |
| `outage` | a positions read fails | `positions()` turns it into an empty list |
| `crash` | the process dies | see `CarrySignal` |

`_request` guards the call of httpx only (`pm_client.py:57-61`), so what
`resp.json()` (line 66), `resp.get` and `int` (`approval.py:96, 115, 212, 216`)
raise on a body without an `arb_id` passes the handlers' `except PMError`.
Executed requests are `garbled` only: an executed open whose answer is empty or
no object ends in the same way, and an executed close whose answer is empty is a
success like any other. The PM itself is external: one arb that
is not closed per asset, dedup by key, execution after the answer. Where the
contract that the client quotes leaves two answers open (a used key of a held
asset; a close of an arb that is closing), both are possible.

**Approval** has one action per section of a handler between two points where
another actor can act: the end of a transaction, and a wait for the PM.

| Code | Actions |
|---|---|
| `approve` 80-84, 86-101, 111-125, 102-109 | `ApproveLoad`; `ApproveOpen`, `ApproveClose`; `ApproveFired`; `ApproveFailed` |
| `reject` 131-132, 133-138 | `RejectLoad`; `RejectCommit` |
| `retry` 162-170, 172-184, 183-190, 187-198, 212-225, 199-210 | `RetryLoad`; `RetryCheck`; `RetryCleared`; `RetryReopen`; `RetryFired`; `RetryFailed` |
| what `except PMError` does not catch: 96, 100, 115; 184, 195, 212, 216 | `AnswerUnreadable` |
| the same for the positions: 88; 173, 188 | `PositionsUnreadable` |

`reject` takes two steps because SQLite takes no lock for a read (the driver
begins a transaction at the first write), so its check can be overtaken. The
sessions that record an outcome (103-107, 112-118, 204-208, 213-220) write
values that do not depend on what they read and are one step. A positions read
is merged with the request that follows it: that request may be delayed without
bound, so what the PM does in between is covered. The wait loop of `retry` ends
after six looks or earlier, so it is an arbitrary delay. `granted` is a history
variable: the keys that a click has authorised. `unrecorded` is another: by row,
where an `approve` or `reject` stood when it ended without an outcome, in a crash
or on an answer it could not read (`Abandon`); no guard reads it, and it lets
the properties name their exception exactly. `APP_SECRET` decides who may
click and is left out.

**Poller** has a scan's start (clock and snapshot, read once), one decision per
asset over the state at that moment, and the insert, a step of its own since the
pre-check of the key and the flush are not atomic. Assets may come in any order.
A scan whose read of the positions raises (`poller.py:226`) has not done anything
yet: it is a scan that does not start.

**CarrySignal** composes them over one table, adds the crash of the process
(threads, scan and mailboxes are lost; each request in flight survives or is
lost; the table and the PM stay), and states the properties.

**ApproveToFire** is the abstract specification: signals are proposed, a key is
granted for a proposed signal, an order is opened once per granted key.
CarrySignal implements it under the mapping of `Promise`.

**FundingFeed** is one read of the funding history: pages, retries, the merge by
time, the interval of each row, and the trailing average at any instant. Times
are whole hours; a rate per hour is counted in units of `1 / Scale`, and `Scale`
is divisible by every gap, so that the division is exact. The venue's history is
any set of settlements, one of them possibly after the end of the range, and it
does not change during the read.

**Chart** continues such a read with the page that draws it:
`build_funding_chart` is one pure call and one action, `Draw`. The page's clock
may be later than the read's (the entry was cached) or earlier (another load,
started later, stored its rows first). `LineAt` is `compute_signal` over the
slice that `build_funding_chart` cuts for each point; markers are recorded
signals inside the window. Values stay integers: rates per hour in units of
`1 / Scale`, the axis in units of `1 / (100 * 100 * Scale)`, since the
percentile and the 8% padding divide by 100 each. **ChartMath** holds
`DrawIndices`, `Percentile`, `NiceStep` and `Ticks` for themselves.

**FundingCache** is `GET /`: a load takes the assets of the page in order, and
for each looks into the cache (`Hit`, `Miss`) and fetches (`FetchReturns`,
`FetchRaises`). An entry keeps its `stamp` (when it was stored) and its `asof`
(the `now` of the load that fetched it, one for the whole page); only the stamp
is compared with the ttl. `lastFailure` is a history variable. Time is a clock
that ticks, and no wait outlives `MaxStep`, which stands for all attempts of the
wait's HTTP calls with their timeouts and pauses.

**PollLoop** is the task of `poll_loop` and the lifespan. The task sleeps or
awaits the scan it has handed to a worker thread; a cancellation is delivered to
it later, as an exception at the point where it waits. It takes a scan that is
still queued out of the queue, and leaves a running one alone.

| Code | Actions |
|---|---|
| `web.py` 149-198: per page, per asset | `Open`, `PositionsRead`, `NextRow`, `Answer` |
| `web.py` 43-55 | `Hit`; `Miss`; `FetchReturns`, `FetchRaises` |
| `poller.py` 246-260 | `Timer`, `ScanStarts`, `ScanEnds`, `Resume`, `CancelDelivered` |
| `web.py` 82-87 | `Stop`, `Close`, `CloseReturns`, `Exit` |

**WebApp** composes the two: pages open only while the server is up, and the
lifespan closes once they are answered. Handlers and scans appear in
`CarrySignal` instead; the two compositions share no state but the fact that
there is one scan at a time, which `WebApp` shows and `CarrySignal` uses.

## 3. The runs

| Run | Instance | What it shows |
|---|---|---|
| `serial` | 1 thread; `timeout`, `late`, `garble`; 1 retry, 2 hours | one request at a time: rejected means no order, a fired OPEN stores its own order and no row that of another signal, entries and exits alternate, a failed order keeps its retry, what can be read is recorded, a retry buys a new order |
| `concurrent` | 2 threads; `late`, `crash`, `garble`; 1 retry, 1 hour | the promise of `ApproveToFire`, fired CLOSEs were executed, no churn, unique keys; the two inductive invariants of the proofs |
| `assets` | 2 assets, 2 threads that never work on one row (`LockedSpec`); `redirect`, `outage` | no row ever stores the other asset's arb, and the inductive invariant `RowInv` holds while handlers of different rows interleave |
| `liveness` | 1 thread, every kind of fault (2 faults, and any number of timeouts), 1 retry | every request and scan ends, and every accepted click decides its row unless its handler ended without an outcome |
| `chart` | range 1..6 of a history over 0..7, pages of 2, window of 2, the page's clock one hour off either way, caps of 3 and 2 points | a read loses nothing and ends, averages are right, and the picture shows what the poller acted on, whole |
| `web` | 2 loads, a page of one asset, ttl 2, waits of 1, clock to 5, a poll loop | the cache is recent, a failed lookup fades, scans do not overlap, only the shutdown ends the loop, and pages and shutdown end |

The violation runs are disagreements between the repository's text and its code,
each with the smallest instance that shows it (details under `findings` in
`PROJECT.json`):

| Run | The text | What happens |
|---|---|---|
| `reject_race` | reject: "no order sent" (`approval.py:129`) | approve and reject both pass the pending check; the rejected row has an order |
| `retry_outage` | retry refuses a healthy arb, "no churn" (`approval.py:150`) | the positions read fails, and the healthy arb stored on the row is closed |
| `redirect` | "any transport error or non-2xx status" raises (`pm_client.py:54`) | a redirect passes for a success and a CLOSE that never arrived is `fired` |
| `repeat_poll` | "a repeat poll in the same state inserts nothing" (`poller.py:12`) | one pending CLOSE per hour for one live arb |
| `stale_close` | the arb "copied from the matching open signal/arb" (`models.py:62-63`) | a CLOSE stores the arb of an earlier, closed cycle |
| `unreadable` | "On a PM failure the signal is marked `error`" (`approval.py:72`) | the answer to an executed open is no JSON; the row stays pending with a live order |

The properties that a passing run checks are the same formulas wherever
possible: `RejectedMeansNoOrder` holds with one handler and fails with two on one row,
`FiredCloseReached` fails with redirects, `NoChurn` with outages, and for these
three section 5 proves the property under the opposite condition.
`FailureIsRecorded` is `NoSilentOrder` without its exception for handlers that
ended without an outcome. So each of those runs also says under which condition
the text is true.

Two further disagreements are stated by theorems instead of runs. "Two polls in
the same clock hour that both see the same transition produce the SAME key, so
the UNIQUE constraint dedups them" (`poller.py:53-55`, `HourDedup`) is kept until
a retry makes a key (`HourDedupUntilRetry`); a retry frees the hour's key
(`approval.py:215`), and after a CLOSE in that hour the OPEN can be recorded
under it once more. And `_raw_funding` "never stops on a short page mid-range"
(`data/hyperliquid.py:78`), but any page below 500 rows ends the read (line 91):
if the venue's page were smaller than the client's, the first page would be the
last one. `FetchReturnsAll` assumes `ClientPage <= ServerPage`, and nothing
else; the run `chart` has equal pages, so `FetchComplete` says nothing there of a
page that the venue cuts short.

Bounds, and why they are enough. Two threads make every race between two
requests; the handlers share nothing but rows and PM, and a third would only
repeat a race. One retry makes the key change that the other properties must
survive; with a late request it meets the order of the attempt before it.
Two hours give two keys per transition (`serial`); in one hour a retry frees a
key and aliased rows still arise (`concurrent`). `MaxFaults`, 1 but for
`liveness`, counts the faults of a whole behaviour. Lost requests are not
counted, so that a PM that never answers is one in which every request is lost.
Refusals are in `liveness`: for the safety properties a refused request is one
that was lost. `assets` has no retry and one hour because two assets multiply
the states; it is about the table and the snapshot they share. Its specification
keeps the behaviours in which no two handlers are ever at work on one row; those
in which they are belong to `concurrent`. Symmetry of threads (and of assets) is
used in these two runs, which check no liveness. `concurrent` also takes states
for one that differ in `unrecorded` alone: no action and, but for its type (see
`serial`), none of its properties depends on that history. In one hour all OPENs
of an asset share a signal key, so `Lineage`, a part of `OrderInv` there, tells
signals apart only in `serial` (two hours) and `assets` (two assets); for handlers
that race on one row it is `LineageHolds` that covers this.

`chart` has up to six settlements in the range, hence a full last page, a short
one, and a page after the last; with caps of 3 and 2 the stride is 1, 2 or 3,
and the last point falls on it or not. Rates of 1 and 4 over gaps of 1 to 6
hours, thresholds 3 and 0 and one marker at 9 give axes whose quarter is just
below and just above a power of ten, and beyond the ladder's middle. The percentile is the 30th instead of the 2nd, so that with five
points it still cuts something off. The poller's own read goes back 4 hours, the
page's 2.

`web` has one asset on the page, since two exceed the budget of a run; two loads
still race on its entry in every order, and section 5 proves the properties of
the cache for pages of any length. The clock reaches 5, beyond ttl + the budget
of a load (4), so that an entry can become too old.

Deadlock is checked everywhere except in `chart`, where a picture is drawn once,
and in `web`, where the process exits.

## 4. Fairness

`FairSpec` assumes only what the process itself does: a handler that has started
and the scan's thread go on (weak fairness on each), and httpx ends every wait
after 15 s (`GiveUp`, `pm_client.py:58`). Nothing is assumed of the PM, the
operator, the clock or a crash. The requests are answered even so. `FundingFeed`
and `Chart` assume that each HTTP attempt ends, with success or not.

`WebApp` assumes that a page load goes on (each of its waits is for HTTP calls
with a timeout), that the pool starts a scan and the scan ends (`ScanCompletes`
of `CarrySignal` shows the latter), that the event loop delivers outcomes and
cancellations, and that uvicorn closes when the requests are answered. Nothing
is assumed of the timer, the clock, the viewers or SIGTERM: the shutdown ends
even if the hour never strikes.

## 5. The proofs

All of them hold for every value of the constants that satisfies the named
assumptions.

- `CarrySignalProofs!TypeCorrect`: `Spec => []TypeOK`. One lemma per action; the
  type of the table, of the PM and of a handler's locals are separate lemmas.
- `ApproveToFireProofs!GrantsHold`: `Spec => []GrantInv`, then
  `ImplementsApproveToFire`: `Spec => ApproveToFire`. A grant must be for a
  recorded signal, but a handler sends the key it *copied* before its waits, and
  the row may have been rewritten meanwhile. `CopiesAgree` says what survives:
  asset, kind and the stripped key of a row never change. `SentWasGranted` says
  that whatever may still arrive at the PM was granted; `InsertsAreFresh` that
  the poller proposes unsuffixed keys. Together with the types they are inductive
  and give, step by step, `Propose`, `Grant`, `Open` or a stutter.
- `OrderProofs!OrderHolds`: `Spec => []OrderInv`, and from it `LineageHolds`,
  `FiredClosesReached` (if no fault is a redirect) and `RetriesNeverChurn` (if
  none is an outage). None of the three is inductive: when a handler writes an
  arb_id, it takes it from a reply, and the reply must be the answer to *its*
  request. `WaitsForOwnReply` says that a handler has at most one request in
  flight or one reply in its mailbox, that of the step it waits in, and what a
  success then says of the arbs; `ArbsAreKnown` and `KeysNameAssets` say the same
  of the arb_ids and keys in memory. `ArbsGrow` is what makes a stale look at the
  PM safe: an arb keeps its asset and key, and once it is closing, closed or in
  error it is never opening or open again. `HandlerMove` and `HandlerWrites`
  describe what the steps of a handler have in common, so that each
  action is examined once and the invariant is proved once for all of them.
- `KeyProofs!KeysStayUnique`: `Spec => []KeysUnique`. A retry makes its key
  before it waits and writes it after, and the poller checks a key before it
  inserts it. `KeyInv` says that no row and no handler is ahead of the clock the
  suffixes are drawn from, and that the key a retry carries is nobody else's;
  the poller's keys have no suffix (`InsertsAreFresh`, from `GrantInv`).
  `HourDedupUntilRetry` follows: as long as `stamp` is 0, no key has a suffix.
- `RowProofs!RowsHold`: `Spec /\ []OneHandlerPerRow => []RowInv`. The condition
  is on the operator: the code has no lock that keeps two requests off one row
  (`approval.py:75-84, 131-138, 162-172`), and `reject_race` shows what happens
  without it. Requests for different rows, the scan, late answers and crashes
  interleave freely. `RowInv` follows a row through its request:
  `OrdersAreRecorded` ties every order to a recorded OPEN and to the clock of
  the suffixes, so that the key a retry makes is new to the PM too;
  `HandlersOwnRows` says that the row a handler will write is still as it was
  when it was checked; `UndecidedHasNoOrder` that a row without a decision has
  no order, or a handler that has sent one and will record the answer;
  `InsertIsSeparated` that the scan decides and inserts with nothing between
  that it would have had to see. From it `FiredOpensMatch`, `OpensStaySeparated`,
  `RetriesOpenAnew`, `RejectedHasNoOrder`, `NoOrderIsSilent` and
  `FailedOrdersAreRetryable`. Crashes and unreadable answers are not excluded;
  the last three, and `UndecidedHasNoOrder`, except the rows they struck between
  an order and its record (`approval.py:93-118`), and only those:
  `OrderUnrecorded` is about one row, and the lemma `HandlerRecords` shows that
  no other step of a handler adds to it.
- `FundingFeedProofs!FetchLosesNothing` and `FetchReturnsAll`:
  `Spec => []FeedInv` and `Spec => []FetchComplete` if
  `ClientPage <= ServerPage`. `FeedInv` says that the rows read so far are all
  that settled before the next page.
- `FundingFeedProofs!AverageIsOfHistory`: `Spec => []AverageMatchesHistory` under
  the same condition, for every lookback. The code takes the interval of a row
  from the row before it in the read, the reference definition from the venue's
  history; `PredecessorIsUnique` and `NoGaps` show that these are one settlement
  as soon as some fetched row precedes the window.
- `ChartProofs!ChartsKeepShape`: `ChartSpec => []ThinningKeepsShape`, for every
  history and every cap. The lemma `DrawIndicesThin` is about the arithmetic: a
  stride of `ceil(n / max)` has at most `max` multiples below `n`, and every
  index has one less than a stride below it.
- `ChartProofs!LinesArePolled`: `ChartSpec => []LineIsPolledSignal`, if
  `ClientPage <= ServerPage`. `PointIsPolled` compares a point's slice of the
  page's read with the poller's own read: both are intervals of one history, and
  `IntervalsAgree` on the window.
- `ChartProofs!PlotsHoldAll`: `ChartSpec => []PlotHoldsAll`, without a further
  assumption. The domain is finite and not empty, so it has a minimum and a
  maximum, the padding lies outside them, and what is clamped is inside.
- `ChartProofs!AxesAreLabelled`: `ChartSpec => []AxisIsLabelled`, if the two
  thresholds differ and no rate, threshold or recorded average exceeds 170 times
  the rate unit (`Reach`). The model's powers of ten end there and the code's do
  not (`chart.py:112`); equal thresholds over a flat line give a span that may be
  smaller than the smallest modelled power. `DomainInBounds` bounds what enters
  the axis, `StepFitsSpan` shows that the step is a quarter to a half of the
  span, and `TicksCounted` counts its multiples.
- `WebAppProofs!WebHolds`: `Spec => []WebInv`, and from it `CacheStaysRecent`,
  `SpotFailuresFade`, `ScansNeverOverlap`, `LoopSurvivesScans` and `WebTyped`,
  for any page, ttl, bound on a wait and number of loads. Whether an entry is
  recent depends on the load that stored it, hence on what a load in the middle
  of the page may be: `Waiting` says that a load at row `i` asked for its `now`
  at most `i` waits before the one it is in. `LoopInv` adds that a known outcome
  means that the scan is over, and that a cancellation means a shutdown.

Sums and maxima are inductions over data, and the library's induction theorems
take an operator, which no installed prover instantiates. Where the proofs need
one, they go by the least counterexample instead: `WFMin` gives a subset of
smallest cardinality for which the claim fails, one element is taken from it, and
the definition of the fold relates the two (`SumIsDefined`, `SumIsInt`,
`SumInBounds`, `FiniteHasMax`).

Every safety property that a passing run checks is stated by a theorem.
Model-checked only: liveness (`FetchEnds`, `PageLoadEnds`, `ShutdownEnds`,
`ClickDecides`, `RequestAnswered`, `ScanCompletes`), since fairness and ENABLED
are out of the prover's reach. What is proved of five of them is the safety half,
that no step turns back and what it leaves behind when it ends:
`OrderProofs!RequestsAdvance`, `ClicksDecide` (any number of handlers on one row;
one that ends without deciding its row is in `unrecorded`) and `ScansAdvance`, `FundingFeedProofs!ReadsGoOn` and
`WebAppProofs!LoadsAdvance`. What is left to TLC is that, under the fairness of
section 4, some step is always possible.

## 6. Not modelled

The template and the drawing itself (pixels, colours, labels, the ticks of the
time axis), the notifier (runs after the commit, never raises, changes nothing),
offline stubs, security headers and secrets, deployment files. Configuration is
parsed once, before anything else runs, and appears as the constants; the parser
keeps a raw string for a value that starts with "[" and is no JSON, such as
`ASSETS=[BTC,ETH]`, although `config.py:79` says "never leaves a raw string".
Prices and timestamps on a row are data no
decision reads. A 404 of the PM for an unknown arb cannot occur: every arb_id
the service knows came from the PM. An object without an `arb_id` in answer to
an open (`approval.py:115` then keeps the row's old one) is against the contract
that `open_arb` quotes (`pm_client.py:78`). The state `approved` of a row is named in
`poller.py:47`, but nothing in the code assigns it.

`AverageMatchesHistory` leaves out windows that no fetched row precedes: there
the first row gets the default interval of one hour (`data/hyperliquid.py:116`),
and the average depends on where the read started. For the poller the window is
3 of 14 days and this needs a gap of 11 days; for the first days of a chart it
needs a cadence other than hourly. `LineIsPolledSignal` leaves out the same.

Modelled as the code is, where a comment reads otherwise:

- "failures are NOT cached" (`web.py:47`) holds of exceptions. `has_spot` raises
  none (`data/hyperliquid.py:158-161`), so its failure is stored as "no spot";
  `SpotFailureFades` bounds how long that is shown.
- "never a 500" (`web.py:155`) is about the venue. `positions()` catches
  `PMError` only, and an answer of the PM that is no JSON ends the page; `Answer`
  may therefore follow `open` directly.
- `positions()` "never raises" (`pm_client.py:105`) for the same reason only as
  long as the answer is a JSON list; see `PositionsUnreadable`.
- The dashboard offers the retry of a fired row from one read of the positions
  (`web.py:233-240`); a page whose read failed leaves it out until the next.
  `Retryable` is the page whose read succeeded.
- `poll_loop` tests `stop_event` after its sleep, but the lifespan sets it
  together with the cancellation, and the test never finds it set.
- "investigate and retry" (`notifier.py:96`) is sent for a CLOSE too, and `retry`
  refuses one (`approval.py:166`): the position is closed only if a later scan
  records another CLOSE, which depends on the market.
- The open of a first attempt may arrive after a retry has replaced the row's key
  (`approval.py:193`): the order was granted, but no row names it any more. The
  positions list it, and nothing in the text says what becomes of it.

## 7. Plan

1. Prove the safety half of `ShutdownEnds`: what may still run in each phase of
   the shutdown.
2. A page of two assets for TLC, with a smaller clock, to see the budget of the
   second row reached.
3. Two disagreements as runs of their own: the read that ends on a short page,
   and the hour's transition recorded twice after a retry.
