---------------------------- MODULE WebAppProofs ----------------------------
(***************************************************************************)
(* Proofs about WebApp, for a page of any length, any number of threads,   *)
(* any ttl and any bound on a wait: what the cache may show, and that the  *)
(* poller's scans never overlap.                                           *)
(***************************************************************************)
EXTENDS WebApp, TLAPS

CacheTypeOK ==
    /\ clock \in Nat
    /\ cache \in [PageAssets -> Entry \cup {Missing}]
    /\ loads \in [Loads -> Load \cup {Idle}]
    /\ lastFailure \in [PageAssets -> Nat]

LoopTypeOK == loop \in Loop /\ scans \in Scans /\ server \in Phases

\* A load that is at the row i asked for its `now` at most i waits before the
\* one it is in.
Waiting(ld) ==
    /\ ld.asof <= ld.since /\ ld.since <= clock
    /\ clock <= ld.since + MaxStep
    /\ ld.pc = "open" => ld.row = 1 /\ ld.since = ld.asof
    /\ ld.pc = "lookup" => ld.since = clock
    /\ ld.pc \in {"lookup", "fetch"} => ld.since <= ld.asof + MaxStep * ld.row

LoadsWait == \A l \in Loads : loads[l].pc # "idle" => Waiting(loads[l])

\* What an entry says of its own age, and a lookup that failed of the asset.
EntryInv(a) ==
    cache[a].pc = "stored" =>
        /\ cache[a].asof <= cache[a].stamp
        /\ cache[a].stamp <= cache[a].asof + Budget(Len(Page))
        /\ a \in Listed /\ ~cache[a].spot => cache[a].stamp <= lastFailure[a]

CacheInv ==
    /\ CacheTypeOK
    /\ LoadsWait
    /\ \A a \in PageAssets : EntryInv(a)

\* At most one scan is on its way; when its outcome is known it is over.
LoopInv ==
    /\ LoopTypeOK
    /\ OneScanAtATime
    /\ loop.pc = "sleep" => loop.outcome = "none"
    /\ loop.pc = "scan" /\ loop.outcome # "none" => scans.queued + scans.running = 0
    /\ loop.cancelled \/ loop.pc = "ended" => server \notin {"up", "stopping"}

-----------------------------------------------------------------------------
(* Arithmetic of the budget.                                               *)

\* One more row, one more wait.
LEMMA BudgetStep ==
    ASSUME NEW i \in Nat
    PROVE  MaxStep * (i + 1) = MaxStep * i + MaxStep /\ MaxStep * i \in Nat
  <1>1. MaxStep \in Nat
    BY TimeAssumption
  <1>2. \A m, n \in Nat : m * (n + 1) = m * n + m /\ m * n \in Nat
    OBVIOUS
  <1> QED
    BY <1>1, <1>2

\* The last row has the largest budget.
LEMMA BudgetGrows ==
    ASSUME NEW i \in Nat, NEW n \in Nat, i <= n
    PROVE  MaxStep * (i + 1) <= Budget(n)
  <1>1. MaxStep \in Nat
    BY TimeAssumption
  <1>2. \A m, d, k \in Nat : m * (k + 1 + d) = m * (k + 1) + m * d /\ m * d >= 0
    OBVIOUS
  <1>3. n - i \in Nat /\ n + 1 = i + 1 + (n - i)
    OBVIOUS
  <1>4. MaxStep * (n + 1) = MaxStep * (i + 1) + MaxStep * (n - i)
    BY <1>1, <1>2, <1>3
  <1>5. MaxStep * (n - i) >= 0
    BY <1>1, <1>2, <1>3
  <1>6. MaxStep * (i + 1) \in Int /\ MaxStep * (n - i) \in Int
    BY <1>1, <1>3
  <1> QED
    BY <1>4, <1>5, <1>6 DEF Budget

LEMMA PageFacts ==
    /\ Len(Page) \in Nat /\ Len(Page) >= 1
    /\ DOMAIN Page = 1 .. Len(Page)
    /\ \A i \in DOMAIN Page : i \in Nat /\ i <= Len(Page) /\ Page[i] \in PageAssets
  BY PageAssumption DEF PageAssets
-----------------------------------------------------------------------------
(* The page loads.                                                         *)

LEMMA LoadTyped ==
    ASSUME CacheTypeOK, NEW l \in Loads, loads[l].pc # "idle"
    PROVE  loads[l] \in Load
  <1>1. loads[l] \in Load \cup {Idle}
    BY DEF CacheTypeOK
  <1> QED
    BY <1>1 DEF Idle

\* A load that moves starts a new wait, within the budget of its row.
LEMMA LoadMoves ==
    ASSUME CacheInv, NEW l \in Loads, NEW ld \in Load,
           loads' = [loads EXCEPT ![l] = ld], clock' = clock,
           ld.since = clock, ld.asof <= clock,
           ld.pc = "open" => ld.row = 1 /\ ld.asof = clock,
           ld.pc \in {"lookup", "fetch"} => clock <= ld.asof + MaxStep * ld.row
    PROVE  loads' \in [Loads -> Load \cup {Idle}] /\ LoadsWait'
  <1>1. loads \in [Loads -> Load \cup {Idle}] /\ clock \in Nat
    BY DEF CacheInv, CacheTypeOK
  <1>2. loads' \in [Loads -> Load \cup {Idle}]
    BY <1>1
  <1>3. ASSUME NEW k \in Loads, loads'[k].pc # "idle"
        PROVE  Waiting(loads[k])' /\ (k = l \/ loads'[k] = loads[k])
    <2>1. CASE k = l
      <3>1. loads'[k] = ld
        BY <1>1, <2>1
      <3>2. clock <= ld.since + MaxStep
        BY <1>1, TimeAssumption
      <3> QED
        BY <3>1, <3>2, <2>1, <1>1 DEF Waiting
    <2>2. CASE k # l
      <3>1. loads'[k] = loads[k]
        BY <1>1, <2>2
      <3>2. Waiting(loads[k])
        BY <3>1, <1>3 DEF CacheInv, LoadsWait
      <3> QED
        BY <3>1, <3>2 DEF Waiting
    <2> QED
      BY <2>1, <2>2
  <1> QED
    BY <1>2, <1>3 DEF LoadsWait

\* A load that ends.
LEMMA LoadEnds ==
    ASSUME CacheInv, NEW l \in Loads,
           loads' = [loads EXCEPT ![l] = Idle], clock' = clock
    PROVE  loads' \in [Loads -> Load \cup {Idle}] /\ LoadsWait'
  <1>1. loads \in [Loads -> Load \cup {Idle}]
    BY DEF CacheInv, CacheTypeOK
  <1>2. ASSUME NEW k \in Loads, loads'[k].pc # "idle"
        PROVE  loads'[k] = loads[k]
    BY <1>1, <1>2 DEF Idle
  <1>3. ASSUME NEW k \in Loads, loads'[k].pc # "idle"
        PROVE  Waiting(loads[k])'
    <2>1. Waiting(loads[k])
      BY <1>2, <1>3 DEF CacheInv, LoadsWait
    <2> QED
      BY <2>1, <1>2, <1>3 DEF Waiting
  <1> QED
    BY <1>1, <1>3 DEF LoadsWait

\* On to another point of the same row.
LEMMA GotoKeepsWaits ==
    ASSUME CacheInv, NEW l \in Loads, NEW pc \in {"lookup", "fetch", "render"},
           Goto(l, pc), clock' = clock,
           \/ loads[l].pc = "open" /\ pc = "lookup"
           \/ loads[l].pc = "lookup" /\ pc = "fetch"
           \/ loads[l].pc # "idle" /\ pc = "render"
    PROVE  loads' \in [Loads -> Load \cup {Idle}] /\ LoadsWait'
  <1> DEFINE ld == [loads[l] EXCEPT !.pc = pc, !.since = clock]
  <1>1. loads[l] \in Load /\ Waiting(loads[l])
    BY LoadTyped DEF CacheInv, LoadsWait
  <1>2. clock \in Nat /\ loads \in [Loads -> Load \cup {Idle}]
    BY DEF CacheInv, CacheTypeOK
  <1>3. ld \in Load /\ ld.pc = pc /\ ld.since = clock
            /\ ld.asof = loads[l].asof /\ ld.row = loads[l].row
    BY <1>1, <1>2 DEF Load
  <1>4. loads' = [loads EXCEPT ![l] = ld]
    BY <1>2 DEF Goto
  <1>5. MaxStep \in Nat /\ loads[l].asof \in Nat /\ loads[l].since \in Nat
            /\ loads[l].row \in Nat
    BY <1>1, TimeAssumption, PageFacts DEF Load
  <1>6. loads[l].asof <= clock
    BY <1>1, <1>2, <1>5 DEF Waiting
  <1>7. pc \in {"lookup", "fetch"} =>
            clock <= loads[l].asof + MaxStep * loads[l].row
    <2>1. CASE loads[l].pc = "open"
      <3>1. MaxStep * loads[l].row = MaxStep
        BY <1>1, <1>5, <2>1 DEF Waiting
      <3> QED
        BY <3>1, <1>1, <2>1 DEF Waiting
    <2>2. CASE loads[l].pc = "lookup"
      BY <1>1, <2>2 DEF Waiting
    <2> QED
      BY <2>1, <2>2
  <1> HIDE DEF ld
  <1> QED
    BY <1>3, <1>4, <1>6, <1>7, LoadMoves

\* On to the next row, from a hit (which took no time) or from a fetch.
LEMMA NextRowKeepsWaits ==
    ASSUME CacheInv, NEW l \in Loads, NextRow(l), clock' = clock,
           loads[l].pc \in {"lookup", "fetch"}
    PROVE  loads' \in [Loads -> Load \cup {Idle}] /\ LoadsWait'
  <1>1. CASE loads[l].row = Len(Page)
    BY <1>1, GotoKeepsWaits DEF NextRow
  <1>2. CASE loads[l].row # Len(Page)
    <2> DEFINE ld == [loads[l] EXCEPT !.pc = "lookup", !.row = @ + 1,
                                      !.since = clock]
    <2>1. loads[l] \in Load /\ Waiting(loads[l])
      BY LoadTyped DEF CacheInv, LoadsWait
    <2>2. clock \in Nat /\ loads \in [Loads -> Load \cup {Idle}]
      BY DEF CacheInv, CacheTypeOK
    <2>3. loads[l].row + 1 \in DOMAIN Page /\ loads[l].row \in Nat
      BY <2>1, <1>2, PageFacts DEF Load
    <2>4. ld \in Load /\ ld.pc = "lookup" /\ ld.since = clock
              /\ ld.asof = loads[l].asof /\ ld.row = loads[l].row + 1
      BY <2>1, <2>2, <2>3 DEF Load
    <2>5. loads' = [loads EXCEPT ![l] = ld]
      BY <1>2, <2>2 DEF NextRow
    <2>6. MaxStep \in Nat /\ loads[l].asof \in Nat /\ loads[l].since \in Nat
      BY <2>1, TimeAssumption DEF Load
    <2>7. MaxStep * (loads[l].row + 1) = MaxStep * loads[l].row + MaxStep
              /\ MaxStep * loads[l].row \in Nat
      BY <2>3, BudgetStep
    <2>8. clock <= loads[l].asof + MaxStep * (loads[l].row + 1)
      BY <2>1, <2>2, <2>6, <2>7 DEF Waiting
    <2>9. loads[l].asof <= clock
      BY <2>1, <2>2, <2>6 DEF Waiting
    <2> HIDE DEF ld
    <2> QED
      BY <2>4, <2>5, <2>8, <2>9, LoadMoves
  <1> QED
    BY <1>1, <1>2

\* Storing what was fetched: it is as old as the load says, and the load is
\* within the budget of its row.
LEMMA StoreKeepsInv ==
    ASSUME CacheInv, NEW l \in Loads, NEW spotFails \in BOOLEAN,
           FetchReturns(l, spotFails)
    PROVE  CacheInv'
  <1> DEFINE a == Asset(l)
             entry == [pc |-> "stored", stamp |-> clock, asof |-> loads[l].asof,
                       spot |-> HasSpot(a, spotFails)]
  <1>1. loads[l] \in Load /\ Waiting(loads[l]) /\ loads[l].pc = "fetch"
    BY LoadTyped DEF CacheInv, LoadsWait, FetchReturns
  <1>2. /\ clock \in Nat /\ clock' = clock
        /\ cache \in [PageAssets -> Entry \cup {Missing}]
        /\ lastFailure \in [PageAssets -> Nat]
        /\ cache' = [cache EXCEPT ![a] = entry]
        /\ NextRow(l)
        /\ lastFailure' = IF spotFails /\ a \in Listed
                          THEN [lastFailure EXCEPT ![a] = clock]
                          ELSE lastFailure
    BY DEF CacheInv, CacheTypeOK, FetchReturns
  <1>3. a \in PageAssets
    BY <1>1, PageFacts DEF Load, Asset
  <1>4. loads[l].row \in Nat /\ loads[l].row <= Len(Page)
            /\ loads[l].asof \in Nat /\ loads[l].since \in Nat
    BY <1>1, PageFacts DEF Load
  <1>5. entry \in Entry
    BY <1>2, <1>4 DEF Entry, HasSpot
  <1>6. loads' \in [Loads -> Load \cup {Idle}] /\ LoadsWait'
    BY <1>1, <1>2, NextRowKeepsWaits
  <1>7. lastFailure' \in [PageAssets -> Nat]
    BY <1>2, <1>3
  <1>8. CacheTypeOK'
    BY <1>2, <1>3, <1>5, <1>6, <1>7 DEF CacheTypeOK
  <1>9. clock <= loads[l].asof + Budget(Len(Page)) /\ loads[l].asof <= clock
    <2>1. MaxStep * (loads[l].row + 1) = MaxStep * loads[l].row + MaxStep
              /\ MaxStep * loads[l].row \in Nat
      BY <1>4, BudgetStep
    <2>2. MaxStep * (loads[l].row + 1) <= Budget(Len(Page))
      BY <1>4, PageFacts, BudgetGrows
    <2>3. MaxStep \in Nat /\ Budget(Len(Page)) \in Int
      BY TimeAssumption, PageFacts DEF Budget
    <2>4. /\ loads[l].asof <= loads[l].since /\ loads[l].since <= clock
          /\ clock <= loads[l].since + MaxStep
          /\ loads[l].since <= loads[l].asof + MaxStep * loads[l].row
      BY <1>1 DEF Waiting
    <2> DEFINE spent == MaxStep * loads[l].row
               more == MaxStep * (loads[l].row + 1)
               budget == Budget(Len(Page))
    <2>5. /\ more = spent + MaxStep /\ more <= budget
          /\ loads[l].since <= loads[l].asof + spent
          /\ spent \in Nat /\ more \in Int /\ budget \in Int
      BY <2>1, <2>2, <2>3, <2>4
    <2>6. /\ clock \in Nat /\ MaxStep \in Nat
          /\ loads[l].asof \in Nat /\ loads[l].since \in Nat
          /\ loads[l].asof <= loads[l].since /\ loads[l].since <= clock
          /\ clock <= loads[l].since + MaxStep
      BY <1>2, <1>4, <2>3, <2>4
    <2> HIDE DEF spent, more, budget
    <2>7. clock <= loads[l].asof + budget /\ loads[l].asof <= clock
      BY <2>5, <2>6
    <2> QED
      BY <2>7 DEF budget
  <1>10. ASSUME NEW b \in PageAssets
         PROVE  EntryInv(b)'
    <2>1. CASE b = a
      <3>1. cache'[b] = entry
        BY <1>2, <1>3, <2>1
      <3>2. b \in Listed /\ ~HasSpot(a, spotFails) => lastFailure'[b] = clock
        BY <1>2, <1>3, <2>1 DEF HasSpot
      <3>3. Budget(Len(Page))' = Budget(Len(Page))
        BY DEF Budget
      <3>4. clock = entry.stamp /\ loads[l].asof = entry.asof
                /\ HasSpot(a, spotFails) = entry.spot
        OBVIOUS
      <3>5. clock <= clock
        BY <1>2
      <3> QED
        BY <3>1, <3>2, <3>3, <3>4, <3>5, <1>9 DEF EntryInv
    <2>2. CASE b # a
      <3>1. cache'[b] = cache[b] /\ lastFailure'[b] = lastFailure[b]
        BY <1>2, <1>3, <2>2
      <3>2. EntryInv(b)
        BY DEF CacheInv
      <3> QED
        BY <3>1, <3>2 DEF EntryInv, Budget
    <2> QED
      BY <2>1, <2>2
  <1> QED
    BY <1>6, <1>8, <1>10 DEF CacheInv

\* A step that leaves the cache alone keeps what it says.
LEMMA EntriesStay ==
    ASSUME CacheInv, UNCHANGED <<cache, lastFailure>>,
           clock' \in Nat, loads' \in [Loads -> Load \cup {Idle}], LoadsWait'
    PROVE  CacheInv'
  <1>1. CacheTypeOK'
    BY DEF CacheInv, CacheTypeOK
  <1>2. \A b \in PageAssets : EntryInv(b)'
    BY DEF CacheInv, EntryInv, Budget
  <1> QED
    BY <1>1, <1>2 DEF CacheInv

LEMMA LoadStepKeepsInv ==
    ASSUME CacheInv, NEW l \in Loads, Open(l) \/ LoadStep(l)
    PROVE  CacheInv'
  <1>1. CASE Open(l)
    <2> DEFINE ld == [pc |-> "open", row |-> 1, asof |-> clock, since |-> clock]
    <2>1. clock \in Nat /\ ld \in Load
      BY PageFacts DEF CacheInv, CacheTypeOK, Load
    <2>3. /\ ld.since = clock /\ ld.asof = clock /\ ld.pc = "open" /\ ld.row = 1
          /\ ld.asof <= clock
      BY <2>1
    <2>4. loads' = [loads EXCEPT ![l] = ld] /\ clock' = clock
      BY <1>1 DEF Open
    <2> HIDE DEF ld
    <2>2. loads' \in [Loads -> Load \cup {Idle}] /\ LoadsWait'
      BY <2>1, <2>3, <2>4, LoadMoves
    <2> QED
      BY <1>1, <2>1, <2>2, EntriesStay DEF Open
  <1>2. CASE PositionsRead(l)
    <2>1. loads' \in [Loads -> Load \cup {Idle}] /\ LoadsWait'
      BY <1>2, GotoKeepsWaits DEF PositionsRead
    <2> QED
      BY <1>2, <2>1, EntriesStay DEF PositionsRead, CacheInv, CacheTypeOK
  <1>3. CASE Hit(l)
    <2>1. loads' \in [Loads -> Load \cup {Idle}] /\ LoadsWait'
      BY <1>3, NextRowKeepsWaits DEF Hit
    <2> QED
      BY <1>3, <2>1, EntriesStay DEF Hit, CacheInv, CacheTypeOK
  <1>4. CASE Miss(l)
    <2>1. loads' \in [Loads -> Load \cup {Idle}] /\ LoadsWait'
      BY <1>4, GotoKeepsWaits DEF Miss
    <2> QED
      BY <1>4, <2>1, EntriesStay DEF Miss, CacheInv, CacheTypeOK
  <1>5. CASE FetchRaises(l)
    <2>1. loads' \in [Loads -> Load \cup {Idle}] /\ LoadsWait'
      BY <1>5, NextRowKeepsWaits DEF FetchRaises
    <2> QED
      BY <1>5, <2>1, EntriesStay DEF FetchRaises, CacheInv, CacheTypeOK
  <1>6. CASE Answer(l)
    <2>1. loads' \in [Loads -> Load \cup {Idle}] /\ LoadsWait'
      BY <1>6, LoadEnds DEF Answer
    <2> QED
      BY <1>6, <2>1, EntriesStay DEF Answer, CacheInv, CacheTypeOK
  <1>7. CASE \E spotFails \in BOOLEAN : FetchReturns(l, spotFails)
    BY <1>7, StoreKeepsInv
  <1> QED
    BY <1>1, <1>2, <1>3, <1>4, <1>5, <1>6, <1>7 DEF LoadStep

\* Time passes only within the waits.
LEMMA TickKeepsInv ==
    ASSUME CacheInv, Tick
    PROVE  CacheInv'
  <1>1. clock \in Nat /\ clock' = clock + 1 /\ MaxStep \in Nat
    BY TimeAssumption DEF Tick, CacheInv, CacheTypeOK
  <1>2. ASSUME NEW k \in Loads, loads'[k].pc # "idle"
        PROVE  Waiting(loads[k])'
    <2>1. loads[k] \in Load /\ Waiting(loads[k]) /\ loads'[k] = loads[k]
      BY <1>2, LoadTyped DEF Tick, CacheInv, LoadsWait
    <2>2. loads[k].pc # "lookup" /\ clock - loads[k].since < MaxStep
      BY <1>2, <2>1 DEF Tick
    <2>3. loads[k].since \in Nat
      BY <2>1 DEF Load
    <2> QED
      BY <1>1, <2>1, <2>2, <2>3 DEF Waiting
  <1>3. LoadsWait'
    BY <1>2 DEF LoadsWait
  <1> QED
    BY <1>1, <1>3, EntriesStay DEF Tick, CacheInv, CacheTypeOK

-----------------------------------------------------------------------------
(* The poll loop.                                                          *)

LEMMA LoopKeepsInv ==
    ASSUME LoopInv, Timer \/ LoopStep \/ Stop \/ Close \/ CloseReturns \/ Exit
    PROVE  LoopInv'
  <1> USE DEF LoopInv, LoopTypeOK, Loop, Scans, Outcomes, Phases, OneScanAtATime
  <1>1. CASE Timer
    BY <1>1 DEF Timer
  <1>2. CASE ScanStarts
    <2>1. scans' = [queued |-> scans.queued - 1, running |-> scans.running + 1]
      BY <1>2 DEF ScanStarts
    <2>2. scans.queued = 1 /\ scans.running = 0
      BY <1>2 DEF ScanStarts
    <2> QED
      BY <1>2, <2>1, <2>2 DEF ScanStarts
  <1>3. CASE ScanEnds
    BY <1>3 DEF ScanEnds
  <1>4. CASE Resume
    BY <1>4 DEF Resume
  <1>5. CASE CancelDelivered
    BY <1>5 DEF CancelDelivered
  <1>6. CASE Stop
    BY <1>6 DEF Stop
  <1>7. CASE Close
    BY <1>7 DEF Close
  <1>8. CASE CloseReturns \/ Exit
    BY <1>8 DEF CloseReturns, Exit
  <1> QED
    BY <1>1, <1>2, <1>3, <1>4, <1>5, <1>6, <1>7, <1>8 DEF LoopStep

-----------------------------------------------------------------------------
(* The invariant and what follows from it.                                 *)

WebInv == CacheInv /\ LoopInv

\* The type of the caches, the loads and the loop, the budget of every wait and
\* the life of a scan, together (web.py:40-55, poller.py:246-260).
THEOREM WebHolds == Spec => []WebInv
  <1>1. Init => WebInv
    <2> SUFFICES ASSUME Init PROVE WebInv
      OBVIOUS
    <2>1. CacheTypeOK
      BY DEF Init, CacheInit, CacheTypeOK
    <2>2. LoadsWait
      BY DEF Init, CacheInit, LoadsWait, Idle
    <2>3. \A a \in PageAssets : EntryInv(a)
      BY DEF Init, CacheInit, EntryInv, Missing
    <2>4. LoopInv
      BY DEF Init, LoopInit, LoopInv, LoopTypeOK, Loop, Scans, Outcomes, Phases,
             OneScanAtATime
    <2> QED
      BY <2>1, <2>2, <2>3, <2>4 DEF WebInv, CacheInv
  <1>2. WebInv /\ [Next]_webVars => WebInv'
    <2> SUFFICES ASSUME WebInv, [Next]_webVars PROVE WebInv'
      OBVIOUS
    <2>1. ASSUME UNCHANGED cacheVars PROVE CacheInv'
      <3>1. UNCHANGED <<clock, cache, loads, lastFailure>>
        BY <2>1 DEF cacheVars
      <3>2. LoadsWait'
        BY <3>1 DEF WebInv, CacheInv, LoadsWait, Waiting
      <3> QED
        BY <3>1, <3>2, EntriesStay DEF WebInv, CacheInv, CacheTypeOK
    <2>2. ASSUME UNCHANGED loopVars PROVE LoopInv'
      BY <2>2 DEF WebInv, loopVars, LoopInv, LoopTypeOK, OneScanAtATime
    <2>3. ASSUME NEW l \in Loads, Open(l) \/ LoadStep(l) PROVE CacheInv'
      BY <2>3, LoadStepKeepsInv DEF WebInv
    <2>4. CASE UNCHANGED webVars
      BY <2>1, <2>2, <2>4 DEF webVars, cacheVars, loopVars, WebInv
    <2>5. CASE Tick /\ UNCHANGED loopVars
      BY <2>2, <2>5, TickKeepsInv DEF WebInv
    <2>6. CASE (\E l \in Loads : Open(l) \/ LoadStep(l)) /\ UNCHANGED loopVars
      BY <2>2, <2>3, <2>6 DEF WebInv
    <2>7. CASE (Timer \/ LoopStep \/ Stop \/ Close \/ CloseReturns \/ Exit)
                  /\ UNCHANGED cacheVars
      BY <2>1, <2>7, LoopKeepsInv DEF WebInv
    <2> QED
      BY <2>4, <2>5, <2>6, <2>7 DEF Next
  <1> QED
    BY <1>1, <1>2, PTL DEF Spec

\* Every variable keeps its type.
THEOREM WebTyped == Spec => []WebTypeOK
  <1>1. WebInv => WebTypeOK
    BY DEF WebInv, CacheInv, CacheTypeOK, LoopInv, LoopTypeOK, WebTypeOK
  <1> QED
    BY <1>1, WebHolds, PTL

\* What the dashboard shows from the cache is younger than the ttl plus the
\* waits of the load that fetched it, for every page (web.py:43-55).
THEOREM CacheStaysRecent == Spec => []CacheIsRecent
  <1>1. WebInv => CacheIsRecent
    <2> SUFFICES ASSUME WebInv, NEW a \in PageAssets, Usable(a)
                 PROVE  clock - cache[a].asof < Ttl + Budget(Len(Page))
      BY DEF CacheIsRecent
    <2>1. cache[a] \in Entry /\ EntryInv(a)
      <3>1. cache[a] \in Entry \cup {Missing}
        BY DEF WebInv, CacheInv, CacheTypeOK
      <3> QED
        BY <3>1 DEF WebInv, CacheInv, Usable, Missing
    <2>2. cache[a].stamp \in Nat /\ cache[a].asof \in Nat /\ clock \in Nat
      BY <2>1 DEF Entry, WebInv, CacheInv, CacheTypeOK
    <2>3. Ttl \in Nat /\ Budget(Len(Page)) \in Int
      BY TimeAssumption, PageFacts DEF Budget
    <2> QED
      BY <2>1, <2>2, <2>3 DEF EntryInv, Usable
  <1> QED
    BY <1>1, WebHolds, PTL

\* A "no spot" that a failed lookup left behind is shown for less than one ttl
\* (hyperliquid.py:158-161, web.py:53-54).
THEOREM SpotFailuresFade == Spec => []SpotFailureFades
  <1>1. WebInv => SpotFailureFades
    <2> SUFFICES ASSUME WebInv, NEW a \in Listed, Usable(a), ~cache[a].spot
                 PROVE  clock - lastFailure[a] < Ttl
      BY DEF SpotFailureFades
    <2>1. a \in PageAssets
      BY ListedAssumption
    <2>2. cache[a] \in Entry /\ EntryInv(a) /\ lastFailure[a] \in Nat
      <3>1. cache[a] \in Entry \cup {Missing} /\ lastFailure[a] \in Nat
        BY <2>1 DEF WebInv, CacheInv, CacheTypeOK
      <3> QED
        BY <2>1, <3>1 DEF WebInv, CacheInv, Usable, Missing
    <2>3. cache[a].stamp \in Nat /\ clock \in Nat /\ Ttl \in Nat
      BY <2>2, TimeAssumption DEF Entry, WebInv, CacheInv, CacheTypeOK
    <2> QED
      BY <2>2, <2>3 DEF EntryInv, Usable
  <1> QED
    BY <1>1, WebHolds, PTL

\* At most one scan is queued or running, and none is queued once the loop has
\* ended (poller.py:246-260, web.py:82-87).
THEOREM ScansNeverOverlap == Spec => []OneScanAtATime
  <1>1. WebInv => OneScanAtATime
    BY DEF WebInv, LoopInv
  <1> QED
    BY <1>1, WebHolds, PTL

\* The loop ends with the server and not before (poller.py:259-260).
THEOREM LoopSurvivesScans == Spec => []LoopLivesOn
  <1>1. WebInv => LoopLivesOn
    BY DEF WebInv, LoopInv, LoopLivesOn
  <1> QED
    BY <1>1, WebHolds, PTL

-----------------------------------------------------------------------------
(* The safety half of PageLoadEnds                                         *)

\* A load keeps its `now` and goes through the rows of the page, one fetch at
\* most for each.
LoadAdvances(l) ==
    loads[l].pc # "idle" =>
        \/ loads'[l] = loads[l]
        \/ loads'[l].pc = "idle"
        \/ /\ loads'[l].asof = loads[l].asof
           /\ \/ /\ loads'[l].row = loads[l].row
                 /\ \/ loads[l].pc = "open" /\ loads'[l].pc = "lookup"
                    \/ loads[l].pc = "lookup" /\ loads'[l].pc \in {"fetch", "render"}
                    \/ loads[l].pc = "fetch" /\ loads'[l].pc = "render"
              \/ /\ loads'[l].row = loads[l].row + 1
                 /\ loads'[l].row <= Len(Page)
                 /\ loads[l].pc \in {"lookup", "fetch"} /\ loads'[l].pc = "lookup"

LEMMA LoadStepAdvances ==
    ASSUME CacheInv, NEW l \in Loads, LoadStep(l)
    PROVE  LoadAdvances(l) /\ \A k \in Loads \ {l} : loads'[k] = loads[k]
  <1>1. loads \in [Loads -> Load \cup {Idle}]
    BY DEF CacheInv, CacheTypeOK
  <1>2. ASSUME loads[l].pc # "idle"
        PROVE  loads[l] \in Load /\ loads[l].row \in 1 .. Len(Page)
    BY <1>2, LoadTyped, PageFacts DEF CacheInv, Load
  <1>3. ASSUME NEW pc, Goto(l, pc), loads[l].pc # "idle"
        PROVE  /\ loads'[l].pc = pc /\ loads'[l].row = loads[l].row
               /\ loads'[l].asof = loads[l].asof
               /\ \A k \in Loads \ {l} : loads'[k] = loads[k]
    BY <1>1, <1>2, <1>3 DEF Goto, Load
  <1>4. ASSUME NextRow(l), loads[l].pc \in {"lookup", "fetch"}
        PROVE  LoadAdvances(l) /\ \A k \in Loads \ {l} : loads'[k] = loads[k]
    <2>1. CASE loads[l].row = Len(Page)
      BY <1>3, <1>4, <2>1 DEF NextRow, LoadAdvances
    <2>2. CASE loads[l].row # Len(Page)
      <3>1. /\ loads'[l].pc = "lookup" /\ loads'[l].row = loads[l].row + 1
            /\ loads'[l].asof = loads[l].asof
            /\ \A k \in Loads \ {l} : loads'[k] = loads[k]
        BY <1>1, <1>2, <1>4, <2>2 DEF NextRow, Load
      <3>2. loads[l].row + 1 <= Len(Page)
        BY <1>2, <1>4, <2>2, PageFacts
      <3> QED
        BY <1>4, <3>1, <3>2 DEF LoadAdvances
    <2> QED
      BY <2>1, <2>2
  <1>5. CASE PositionsRead(l)
    BY <1>3, <1>5 DEF PositionsRead, LoadAdvances
  <1>6. CASE Miss(l)
    BY <1>3, <1>6 DEF Miss, LoadAdvances
  <1>7. CASE Hit(l) \/ FetchRaises(l) \/ \E b \in BOOLEAN : FetchReturns(l, b)
    BY <1>4, <1>7 DEF Hit, FetchRaises, FetchReturns
  <1>8. CASE Answer(l)
    BY <1>1, <1>8 DEF Answer, Idle, LoadAdvances
  <1> QED
    BY <1>5, <1>6, <1>7, <1>8 DEF LoadStep

\* A page load never turns back, whatever the venue and the other loads do
\* (web.py:149-198): it is over after at most two steps for each of its rows,
\* and two more.
THEOREM LoadsAdvance == Spec => [][\A l \in Loads : LoadAdvances(l)]_webVars
  <1>1. ASSUME WebInv, Next
        PROVE  \A l \in Loads : LoadAdvances(l)
    <2>1. CASE loads' = loads
      BY <2>1 DEF LoadAdvances
    <2>2. ASSUME NEW l \in Loads, LoadStep(l)
          PROVE  \A k \in Loads : LoadAdvances(k)
      BY <1>1, <2>2, LoadStepAdvances DEF WebInv, LoadAdvances
    <2>3. ASSUME NEW l \in Loads, Open(l)
          PROVE  \A k \in Loads : LoadAdvances(k)
      <3>1. loads[l].pc = "idle" /\ \A k \in Loads \ {l} : loads'[k] = loads[k]
        BY <1>1, <2>3 DEF Open, WebInv, CacheInv, CacheTypeOK
      <3> QED
        BY <3>1 DEF LoadAdvances
    <2> QED
      BY <1>1, <2>1, <2>2, <2>3 DEF Next, Tick, cacheVars
  <1> QED
    BY <1>1, WebHolds, PTL DEF Spec
=============================================================================
