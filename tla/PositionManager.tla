-------------------------- MODULE PositionManager --------------------------
(***************************************************************************)
(* The Position Manager (PM), a service outside this repository, as the    *)
(* client in pm_client.py uses it, and the HTTP calls between the two.     *)
(* A call is a request in flight, then a reply in the caller's mailbox.    *)
(* A caller that gives up (the 15 s httpx timeout) or dies leaves its      *)
(* request behind: it may still arrive, or be lost.                        *)
(***************************************************************************)
EXTENDS SignalLog

CONSTANTS Threads,         \* the request-handler threads of the web app
          Nobody,          \* the addressee of a reply nobody waits for
          Faults,          \* which faults may happen, a subset of FaultKinds
          MaxFaults        \* bound on their number, timeouts not counted

FaultKinds ==
    {"timeout", "late", "refuse", "redirect", "garble", "outage", "crash"}

ASSUME FaultAssumption == Faults \subseteq FaultKinds /\ MaxFaults \in Nat
ASSUME NobodyAssumption == Nobody \notin Threads

VARIABLES arbs,            \* the PM's arbs, by arb_id
          requests,        \* HTTP requests in flight
          replies,         \* the reply each thread has received and not read
          faults           \* faults so far, but for timeouts

pmVars == <<arbs, requests, replies, faults>>

ArbStatuses == {"opening", "open", "closing", "closed", "error"}
Healthy == {"opening", "open"}
Arb == [asset: Assets, key: Key, status: ArbStatuses]

Callers == Threads \cup {Nobody}
OpenRequest == [to: Callers, op: {"open"}, asset: Assets, key: Key]
CloseRequest == [to: Callers, op: {"close"}, arb: Nat]

\* "conflict": 409. "failed": any other PMError (4xx, 5xx or transport). Any
\* status below 400 raises no PMError, and its body is "ok" (the object of the
\* contract), "empty" (nothing, JSON that is no object, or an arb_id that is no
\* number) or "garbled" (no JSON: resp.json() raises, even for a close).
Codes == {"none", "ok", "conflict", "failed", "empty", "garbled"}
Unreadable == {"empty", "garbled"}
Reply == [code: Codes, arb: Nat]
NoReply == [code |-> "none", arb |-> NoArb]

PMInit ==
    /\ arbs = <<>>
    /\ requests = {}
    /\ replies = [t \in Threads |-> NoReply]
    /\ faults = 0

Fault(kind) ==
    /\ kind \in Faults
    /\ faults < MaxFaults
    /\ faults' = faults + 1

-----------------------------------------------------------------------------
(* The client side of a call, used by the handlers.                        *)

SendOpen(t, asset, key) ==
    requests' = requests \cup
        {[to |-> t, op |-> "open", asset |-> asset, key |-> key]}

SendClose(t, arb) ==
    requests' = requests \cup {[to |-> t, op |-> "close", arb |-> arb]}

Answered(t) == replies[t].code # "none"
RaisesPMError(t) == replies[t].code \in {"conflict", "failed"}
TakeReply(t) == replies' = [replies EXCEPT ![t] = NoReply]

LiveArbs(asset) ==
    {i \in DOMAIN arbs : arbs[i].asset = asset /\ arbs[i].status # "closed"}

\* GET /positions for one asset. positions() catches PMError: when the read fails
\* (up = FALSE, an outage) the caller sees an empty list. A body that cannot be
\* read raises instead, see PositionsUnreadable.
SeenArb(asset, up) ==
    IF up /\ LiveArbs(asset) # {} THEN CHOOSE i \in LiveArbs(asset) : TRUE
    ELSE NoArb

ReadPositions(up) == IF up THEN UNCHANGED faults ELSE Fault("outage")

-----------------------------------------------------------------------------
(* The PM's side.                                                          *)

Answer(r, code, arb) ==
    /\ requests' = requests \ {r}
    /\ replies' = IF r.to \in Threads
                  THEN [replies EXCEPT ![r.to] = [code |-> code, arb |-> arb]]
                  ELSE replies

\* A request that was executed. What stands between the two services may cut
\* off or replace the answer. (An "empty" one would do to an open what "garbled"
\* does, and to a close what "ok" does.)
Succeed(r, arb) ==
    \/ Answer(r, "ok", arb) /\ UNCHANGED faults
    \/ Fault("garble") /\ Answer(r, "garbled", NoArb)

\* A new key for a free asset opens an arb; the legs are executed afterwards.
AcceptOpen(r) ==
    /\ r.op = "open"
    /\ LiveArbs(r.asset) = {}
    /\ \A i \in DOMAIN arbs : arbs[i].key # r.key
    /\ arbs' = Append(arbs, [asset |-> r.asset, key |-> r.key,
                             status |-> "opening"])
    /\ Succeed(r, Len(arbs) + 1)

\* A used key is a duplicate and answers with the arb it opened.
DuplicateOpen(r) ==
    /\ r.op = "open"
    /\ \E i \in DOMAIN arbs : arbs[i].key = r.key /\ Succeed(r, i)
    /\ UNCHANGED arbs

\* The contract puts the 409 for a held asset before the dedup, so a used key
\* of a held asset may answer either way.
ConflictOpen(r) ==
    /\ r.op = "open"
    /\ LiveArbs(r.asset) # {}
    /\ Answer(r, "conflict", NoArb)
    /\ UNCHANGED <<arbs, faults>>

AcceptClose(r) ==
    /\ r.op = "close"
    /\ r.arb \in DOMAIN arbs
    /\ arbs[r.arb].status \in Healthy \cup {"error"}
    /\ arbs' = [arbs EXCEPT ![r.arb].status = "closing"]
    /\ Succeed(r, r.arb)

\* 409 by the route's description, `already_closed` by the response's enum.
RepeatClose(r) ==
    /\ r.op = "close"
    /\ r.arb \in DOMAIN arbs
    /\ arbs[r.arb].status \in {"closing", "closed"}
    /\ \/ Succeed(r, r.arb)
       \/ Answer(r, "conflict", NoArb) /\ UNCHANGED faults
    /\ UNCHANGED arbs

\* 401, 422 or 5xx; or a redirect in front of the PM, which httpx does not
\* follow: a 3xx with no body or with a page. Neither executes the request.
Refuse(r) ==
    /\ \/ Fault("refuse") /\ Answer(r, "failed", NoArb)
       \/ Fault("redirect") /\ \E code \in Unreadable : Answer(r, code, NoArb)
    /\ UNCHANGED arbs

\* The caller's timeout. The request never arrives, or arrives later.
GiveUp(t) ==
    /\ \E r \in requests :
          /\ r.to = t
          /\ \/ /\ "timeout" \in Faults
                /\ requests' = requests \ {r}
                /\ UNCHANGED faults
             \/ /\ Fault("late")
                /\ requests' = (requests \ {r}) \cup {[r EXCEPT !.to = Nobody]}
    /\ replies' = [replies EXCEPT ![t] = [code |-> "failed", arb |-> NoArb]]
    /\ UNCHANGED arbs

\* The PM's executor finishes, or fails, what an open or a close started.
Settle(i) ==
    /\ \E outcome \in {"open", "closed", "error"} :
          /\ \/ arbs[i].status = "opening" /\ outcome # "closed"
             \/ arbs[i].status = "closing" /\ outcome # "open"
          /\ arbs' = [arbs EXCEPT ![i].status = outcome]
    /\ UNCHANGED <<requests, replies, faults>>

PMStep ==
    \/ \E r \in requests :
          \/ AcceptOpen(r) \/ DuplicateOpen(r) \/ ConflictOpen(r)
          \/ AcceptClose(r) \/ RepeatClose(r) \/ Refuse(r)
    \/ \E t \in Threads : GiveUp(t)
    \/ \E i \in DOMAIN arbs : Settle(i)
=============================================================================
