------------------------------- MODULE WebApp -------------------------------
(***************************************************************************)
(* One process from its start to its exit: the page loads over the funding *)
(* cache and the background poller, under the lifespan of web.py. The      *)
(* server takes requests while it is up and closes when they are answered. *)
(***************************************************************************)
EXTENDS FundingCache, PollLoop

webVars == <<clock, cache, loads, lastFailure, loop, scans, server>>

Init == CacheInit /\ LoopInit

NoLoads == \A l \in Loads : loads[l].pc = "idle"

Next ==
    \/ \E l \in Loads : server = "up" /\ Open(l) /\ UNCHANGED loopVars
    \/ (\E l \in Loads : LoadStep(l)) /\ UNCHANGED loopVars
    \/ Tick /\ UNCHANGED loopVars
    \/ (Timer \/ LoopStep \/ Stop) /\ UNCHANGED cacheVars
    \/ NoLoads /\ Close /\ UNCHANGED cacheVars
    \/ (CloseReturns \/ Exit) /\ UNCHANGED cacheVars

Spec == Init /\ [][Next]_webVars

\* Threads and tasks that can go on do, and every wait of a load or a scan is
\* for HTTP calls with timeouts. Nothing is assumed of the clock, of the
\* viewers, of SIGTERM, nor of the timer: a shutdown may not need the hour.
Fairness ==
    /\ \A l \in Loads : WF_webVars(LoadStep(l) /\ UNCHANGED loopVars)
    /\ WF_webVars(ScanStarts /\ UNCHANGED cacheVars)
    /\ WF_webVars(ScanEnds /\ UNCHANGED cacheVars)
    /\ WF_webVars((Resume \/ CancelDelivered) /\ UNCHANGED cacheVars)
    /\ WF_webVars(NoLoads /\ Close /\ UNCHANGED cacheVars)
    /\ WF_webVars((CloseReturns \/ Exit) /\ UNCHANGED cacheVars)

FairSpec == Spec /\ Fairness

-----------------------------------------------------------------------------
(* Properties                                                              *)

WebTypeOK ==
    /\ clock \in Nat
    /\ cache \in [PageAssets -> Entry \cup {Missing}]
    /\ loads \in [Loads -> Load \cup {Idle}]
    /\ lastFailure \in [PageAssets -> Nat]
    /\ loop \in Loop
    /\ scans \in Scans
    /\ server \in Phases

\* How long a page may have waited when it is done with the row i.
Budget(i) == MaxStep * (i + 1)

\* What a page shows from the cache is never older than the ttl and the load
\* that fetched it, even if that load stored its rows over newer ones: "Funding
\* settles hourly, so a few minutes is plenty" (config.py:59-62, web.py:43-55).
CacheIsRecent ==
    \A a \in PageAssets : Usable(a) =>
        clock - cache[a].asof < Ttl + Budget(Len(Page))

\* "No spot" is shown of an asset that has spot only if a lookup failed less
\* than one ttl ago: the failure that has_spot swallows (hyperliquid.py:158-161)
\* is stored, but does not stay (web.py:53-54).
SpotFailureFades ==
    \A a \in Listed : Usable(a) /\ ~cache[a].spot =>
        clock - lastFailure[a] < Ttl

\* The scans of the poller never overlap, whatever the previous one did and
\* however long it took, and none starts once the loop has ended: what makes
\* the poller the only writer that inserts (poller.py:246-260, web.py:82-87).
OneScanAtATime ==
    /\ scans.queued + scans.running <= 1
    /\ loop.pc = "ended" => scans.queued = 0
    /\ loop.pc = "sleep" => scans.queued + scans.running = 0

\* Only the shutdown ends the loop; a scan that raises does not
\* (poller.py:259-260).
LoopLivesOn == loop.pc = "ended" => server \notin {"up", "stopping"}

\* Every page load is answered, whatever the venue does (web.py:149-198).
PageLoadEnds == \A l \in Loads : loads[l].pc # "idle" ~> loads[l].pc = "idle"

\* "shut down cleanly on exit" (web.py:4-5): the process ends, without waiting
\* for the next scan, although one may be running and pages may be loading.
ShutdownEnds == server = "stopping" ~> server = "exited"
=============================================================================
