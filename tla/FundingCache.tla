---------------------------- MODULE FundingCache ----------------------------
(***************************************************************************)
(* The dashboard's page loads over the in-memory funding cache of web.py.  *)
(* A load takes the configured assets one after the other: a cached entry  *)
(* that is young enough is shown, otherwise the history and the spot       *)
(* listing are fetched and stored. Loads run in threads and share the      *)
(* cache without a lock, so a load that started long ago may store after a *)
(* newer one. Time is a clock that ticks; a load's waits are bounded.      *)
(***************************************************************************)
EXTENDS Integers, Sequences

CONSTANTS Loads,           \* the threads that serve GET /
          Page,            \* settings.assets: the order of a page's rows
          Listed,          \* the assets that have a spot market
          Ttl,             \* chart_cache_seconds; 0 disables the cache
          MaxStep,         \* bound on each wait of a load, over all its attempts
          MaxClock         \* bound on the clock

PageAssets == {Page[i] : i \in DOMAIN Page}

ASSUME PageAssumption == Page \in Seq(PageAssets) /\ Page # <<>>
ASSUME ListedAssumption == Listed \subseteq PageAssets
ASSUME TimeAssumption == Ttl \in Nat /\ MaxStep \in Nat \ {0} /\ MaxClock \in Nat

VARIABLES clock,
          cache,           \* _funding_cache, by asset
          loads,           \* the page load each thread is busy with
          lastFailure      \* history: when a lookup last missed a listed asset

cacheVars == <<clock, cache, loads, lastFailure>>

\* An entry keeps when it was stored (stamp), the instant its rows were asked
\* for (asof: the `now` of the page that fetched them) and the spot flag.
Missing == [pc |-> "missing"]
Entry == [pc: {"stored"}, stamp: Nat, asof: Nat, spot: BOOLEAN]

\* A load's locals: the row of the page it is at, its `now`, and since when it
\* waits.
\*   open:   reads the PM's positions     lookup: enters _funding_cached
\*   fetch:  in fetch_funding, then in has_spot
\*   render: reads the PM's positions again, for the signal table
Idle == [pc |-> "idle"]
Load == [pc: {"open", "lookup", "fetch", "render"}, row: DOMAIN Page,
         asof: Nat, since: Nat]

CacheInit ==
    /\ clock = 0
    /\ cache = [a \in PageAssets |-> Missing]
    /\ loads = [l \in Loads |-> Idle]
    /\ lastFailure = [a \in PageAssets |-> 0]

-----------------------------------------------------------------------------

Asset(l) == Page[loads[l].row]

\* ttl > 0 and the entry is younger than the ttl.
Usable(a) == cache[a].pc = "stored" /\ clock - cache[a].stamp < Ttl

Goto(l, pc) == loads' = [loads EXCEPT ![l].pc = pc, ![l].since = clock]

\* Mutant: an asset is looked up again until its fetch works.
NextRow_Same(l) == Goto(l, "lookup")

\* On to the next asset of the page, or to the rest of the page.
NextRow(l) ==
    IF loads[l].row = Len(Page)
    THEN Goto(l, "render")
    ELSE loads' = [loads EXCEPT ![l].pc = "lookup", ![l].row = @ + 1,
                                ![l].since = clock]

\* GET /: one `now` for all rows of the page, taken before the positions read.
Open(l) ==
    /\ loads[l].pc = "idle"
    /\ loads' = [loads EXCEPT ![l] = [pc |-> "open", row |-> 1,
                                      asof |-> clock, since |-> clock]]
    /\ UNCHANGED <<clock, cache, lastFailure>>

PositionsRead(l) ==
    /\ loads[l].pc = "open"
    /\ Goto(l, "lookup")
    /\ UNCHANGED <<clock, cache, lastFailure>>

\* Mutant: a hit keeps the entry alive (a sliding expiry).
Hit_Slides(l) ==
    /\ loads[l].pc = "lookup"
    /\ Usable(Asset(l))
    /\ NextRow(l)
    /\ cache' = [cache EXCEPT ![Asset(l)].stamp = clock]
    /\ UNCHANGED <<clock, lastFailure>>

Hit(l) ==
    /\ loads[l].pc = "lookup"
    /\ Usable(Asset(l))
    /\ NextRow(l)
    /\ UNCHANGED <<clock, cache, lastFailure>>

Miss(l) ==
    /\ loads[l].pc = "lookup"
    /\ ~Usable(Asset(l))
    /\ Goto(l, "fetch")
    /\ UNCHANGED <<clock, cache, lastFailure>>

\* Mutant: the failure is stored too.
FetchRaises_Cached(l) ==
    /\ loads[l].pc = "fetch"
    /\ NextRow(l)
    /\ cache' = [cache EXCEPT ![Asset(l)] = [pc |-> "failed", stamp |-> clock]]
    /\ UNCHANGED <<clock, lastFailure>>

\* Nothing is stored; the row of the asset stays blank.
FetchRaises(l) ==
    /\ loads[l].pc = "fetch"
    /\ NextRow(l)
    /\ UNCHANGED <<clock, cache, lastFailure>>

\* has_spot never raises: a lookup that fails says "no spot".
HasSpot(a, spotFails) == a \in Listed /\ ~spotFails

\* Mutant: the spot listing is looked up once.
FetchReturns_KeepsSpot(l, spotFails) ==
    /\ loads[l].pc = "fetch"
    /\ cache' = [cache EXCEPT ![Asset(l)] =
                   [pc |-> "stored", stamp |-> clock, asof |-> loads[l].asof,
                    spot |-> IF @ = Missing THEN HasSpot(Asset(l), spotFails)
                             ELSE @.spot]]
    /\ lastFailure' = IF cache[Asset(l)] = Missing /\ spotFails
                      THEN [lastFailure EXCEPT ![Asset(l)] = clock]
                      ELSE lastFailure
    /\ NextRow(l)
    /\ UNCHANGED clock

\* Both calls have returned, and what they say is stored.
FetchReturns(l, spotFails) ==
    /\ loads[l].pc = "fetch"
    /\ cache' = [cache EXCEPT ![Asset(l)] =
                   [pc |-> "stored", stamp |-> clock, asof |-> loads[l].asof,
                    spot |-> HasSpot(Asset(l), spotFails)]]
    /\ lastFailure' = IF spotFails /\ Asset(l) \in Listed
                      THEN [lastFailure EXCEPT ![Asset(l)] = clock]
                      ELSE lastFailure
    /\ NextRow(l)
    /\ UNCHANGED clock

\* The page is answered: rendered, or refused because the PM's answer to a
\* positions read is no JSON, which positions() does not catch.
Answer(l) ==
    /\ loads[l].pc \in {"open", "render"}
    /\ loads' = [loads EXCEPT ![l] = Idle]
    /\ UNCHANGED <<clock, cache, lastFailure>>

\* Time passes while no load has reached the limit of its wait; a lookup takes
\* none.
Tick ==
    /\ clock < MaxClock
    /\ \A l \in Loads : loads[l].pc # "idle" =>
          loads[l].pc # "lookup" /\ clock - loads[l].since < MaxStep
    /\ clock' = clock + 1
    /\ UNCHANGED <<cache, loads, lastFailure>>

\* One step of a load that has started.
LoadStep(l) ==
    \/ PositionsRead(l)
    \/ Hit(l) \/ Miss(l)
    \/ FetchRaises(l) \/ Answer(l)
    \/ \E spotFails \in BOOLEAN : FetchReturns(l, spotFails)
=============================================================================
