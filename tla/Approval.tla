------------------------------ MODULE Approval ------------------------------
(***************************************************************************)
(* The approve, reject and retry handlers of approval.py. Each runs in a   *)
(* thread of the web app's pool; its steps are the sections between two    *)
(* points where another actor can get in: the end of a database session,   *)
(* and each wait for the PM.                                               *)
(***************************************************************************)
EXTENDS PositionManager

CONSTANT MaxRetries        \* bound: no retry starts once this many keys exist

ASSUME MaxRetriesAssumption == MaxRetries \in Nat

VARIABLES threads,         \* what each handler thread is doing
          stamp,           \* the clock _retry_key reads, as a counter
          granted,         \* history: the keys an operator's click authorised
          unrecorded       \* history: the handlers of undecided rows that ended
                           \* without an outcome, by row and by where they were

approvalVars == <<threads, stamp, granted, unrecorded>>

\* A handler's locals: the row id and its copy of the row, in which key and
\* arb become the key and the close target it computes on the way.
\*   approve: loaded    fire:   awaits the PM     reject: loaded
\*   retry:   loaded    clear:  awaits the PM's answer to the close
\*   wait:    polls until the symbol is free      reopen: awaits the PM
Pcs == {"approve", "fire", "reject", "retry", "clear", "wait", "reopen"}
Job == [pc: Pcs, id: Nat, sig: Row]
Idle == [pc |-> "idle"]

\* What a handler that awaits the PM has asked for.
Opens(job) == job.pc = "reopen" \/ (job.pc = "fire" /\ job.sig.kind = "OPEN")
Closes(job) == job.pc = "clear" \/ (job.pc = "fire" /\ job.sig.kind = "CLOSE")

ApprovalInit ==
    /\ threads = [t \in Threads |-> Idle]
    /\ stamp = 0
    /\ granted = {}
    /\ unrecorded = {}

Load(t, pc, id) ==
    threads' = [threads EXCEPT ![t] = [pc |-> pc, id |-> id, sig |-> rows[id]]]

Goto(t, pc) == threads' = [threads EXCEPT ![t].pc = pc]

Finish(t) == threads' = [threads EXCEPT ![t] = Idle]

\* The handlers in T end without having written to their rows. (The row of a
\* retry has an outcome, which it keeps.)
Abandon(T) ==
    /\ threads' = [t \in Threads |-> IF t \in T THEN Idle ELSE threads[t]]
    /\ unrecorded' = unrecorded \cup
          {[id |-> threads[t].id, pc |-> threads[t].pc] :
              t \in {u \in T : threads[u].pc \in {"approve", "fire", "reject"}}}

\* Mutant: a status outside the lifecycle.
MarkError_Failed(id) == rows' = [rows EXCEPT ![id].status = "failed"]

MarkError(id) == rows' = [rows EXCEPT ![id].status = "error"]

-----------------------------------------------------------------------------
(* approve()                                                               *)

\* The operator's click, and the transaction that validates it. What the click
\* authorises is the order of an OPEN, under the row's key.
ApproveLoad(t, id) ==
    /\ threads[t].pc = "idle"
    /\ rows[id].status = "pending"
    /\ Load(t, "approve", id)
    /\ granted' = IF rows[id].kind = "OPEN" THEN granted \cup {rows[id].key}
                  ELSE granted
    /\ UNCHANGED <<rows, stamp, unrecorded, pmVars>>

\* Mutant: each approve sends a key of its own, as retry does.
ApproveOpen_FreshKey(t) ==
    /\ threads[t].pc = "approve"
    /\ threads[t].sig.kind = "OPEN"
    /\ SendOpen(t, threads[t].sig.asset, RetryKey(threads[t].sig.key, stamp + 1))
    /\ Goto(t, "fire")
    /\ UNCHANGED <<rows, stamp, granted, unrecorded, arbs, replies, faults>>

ApproveOpen(t) ==
    /\ threads[t].pc = "approve"
    /\ threads[t].sig.kind = "OPEN"
    /\ SendOpen(t, threads[t].sig.asset, threads[t].sig.key)
    /\ Goto(t, "fire")
    /\ UNCHANGED <<rows, stamp, granted, unrecorded, arbs, replies, faults>>

\* A CLOSE without an arb_id asks the PM for the asset's live arb.
CloseTarget(sig, up) ==
    IF sig.arb = NoArb THEN SeenArb(sig.asset, up) ELSE sig.arb

ApproveClose(t, up) ==
    LET sig == threads[t].sig
        target == CloseTarget(sig, up)
    IN  /\ threads[t].pc = "approve"
        /\ sig.kind = "CLOSE"
        /\ ReadPositions(up)
        /\ IF target = NoArb
           THEN /\ MarkError(threads[t].id)
                /\ Finish(t)
                /\ UNCHANGED requests
           ELSE /\ SendClose(t, target)
                /\ threads' = [threads EXCEPT ![t].pc = "fire",
                                              ![t].sig.arb = target]
                /\ UNCHANGED rows
        /\ UNCHANGED <<stamp, granted, unrecorded, arbs, replies>>

\* Mutant: a close that raised PMError counts as a success as well.
ApproveFired_AnyAnswer(t) ==
    LET sig == threads[t].sig
    IN  /\ threads[t].pc = "fire"
        /\ \/ replies[t].code = "ok"
           \/ Answered(t) /\ sig.kind = "CLOSE"
        /\ rows' = [rows EXCEPT
                      ![threads[t].id].status = "fired",
                      ![threads[t].id].arb =
                          IF sig.kind = "OPEN" THEN replies[t].arb ELSE sig.arb]
        /\ TakeReply(t)
        /\ Finish(t)
        /\ UNCHANGED <<stamp, granted, unrecorded, arbs, requests, faults>>

\* Mutant: the outcome is written to the latest row, not to the row approved.
ApproveFired_LatestRow(t) ==
    /\ threads[t].pc = "fire"
    /\ replies[t].code = "ok"
    /\ rows' = [rows EXCEPT ![Len(rows)].status = "fired",
                            ![Len(rows)].arb = replies[t].arb]
    /\ TakeReply(t)
    /\ Finish(t)
    /\ UNCHANGED <<stamp, granted, unrecorded, arbs, requests, faults>>

\* close_arb's response is not looked at: any that raises nothing is a success.
ApproveFired(t) ==
    LET sig == threads[t].sig
    IN  /\ threads[t].pc = "fire"
        /\ \/ replies[t].code = "ok"
           \/ replies[t].code = "empty" /\ sig.kind = "CLOSE"
        /\ rows' = [rows EXCEPT
                      ![threads[t].id].status = "fired",
                      ![threads[t].id].arb =
                          IF sig.kind = "OPEN" THEN replies[t].arb ELSE sig.arb]
        /\ TakeReply(t)
        /\ Finish(t)
        /\ UNCHANGED <<stamp, granted, unrecorded, arbs, requests, faults>>

\* Mutant: the failure is reported but not recorded.
ApproveFailed_KeepsRow(t) ==
    /\ threads[t].pc = "fire"
    /\ RaisesPMError(t)
    /\ TakeReply(t)
    /\ Finish(t)
    /\ UNCHANGED <<rows, stamp, granted, unrecorded, arbs, requests, faults>>

\* The error is written whatever the row's status has become meanwhile.
ApproveFailed(t) ==
    /\ threads[t].pc = "fire"
    /\ RaisesPMError(t)
    /\ MarkError(threads[t].id)
    /\ TakeReply(t)
    /\ Finish(t)
    /\ UNCHANGED <<stamp, granted, unrecorded, arbs, requests, faults>>

-----------------------------------------------------------------------------
(* reject(): one session, but SQLite takes no lock for its read.           *)

\* Mutant: the status is not checked.
RejectLoad_AnyStatus(t, id) ==
    /\ threads[t].pc = "idle"
    /\ Load(t, "reject", id)
    /\ UNCHANGED <<rows, stamp, granted, unrecorded, pmVars>>

RejectLoad(t, id) ==
    /\ threads[t].pc = "idle"
    /\ rows[id].status = "pending"
    /\ Load(t, "reject", id)
    /\ UNCHANGED <<rows, stamp, granted, unrecorded, pmVars>>

RejectCommit(t) ==
    /\ threads[t].pc = "reject"
    /\ rows' = [rows EXCEPT ![threads[t].id].status = "rejected"]
    /\ Finish(t)
    /\ UNCHANGED <<stamp, granted, unrecorded, pmVars>>

-----------------------------------------------------------------------------
(* retry()                                                                 *)

RetryLoad(t, id) ==
    /\ threads[t].pc = "idle"
    /\ stamp < MaxRetries
    /\ rows[id].kind = "OPEN"
    /\ rows[id].status \in {"fired", "error"}
    /\ Load(t, "retry", id)
    /\ UNCHANGED <<rows, stamp, granted, unrecorded, pmVars>>

\* Mutant: the health of the current arb is not looked at.
RetryCheck_AnyHealth(t, up) ==
    LET sig == threads[t].sig
        cur == SeenArb(sig.asset, up)
        target == IF cur # NoArb THEN cur ELSE sig.arb
    IN  /\ threads[t].pc = "retry"
        /\ ReadPositions(up)
        /\ IF target = NoArb
           THEN Goto(t, "wait") /\ UNCHANGED requests
           ELSE /\ SendClose(t, target)
                /\ threads' = [threads EXCEPT ![t].pc = "clear",
                                              ![t].sig.arb = target]
        /\ UNCHANGED <<rows, stamp, granted, unrecorded, arbs, replies>>

\* Refuses a healthy arb; otherwise closes the asset's current arb, or the one
\* the row remembers when the PM lists none.
RetryCheck(t, up) ==
    LET sig == threads[t].sig
        cur == SeenArb(sig.asset, up)
        target == IF cur # NoArb THEN cur ELSE sig.arb
    IN  /\ threads[t].pc = "retry"
        /\ ReadPositions(up)
        /\ IF cur # NoArb /\ arbs[cur].status \in Healthy
           THEN Finish(t) /\ UNCHANGED requests
           ELSE IF target = NoArb
           THEN Goto(t, "wait") /\ UNCHANGED requests
           ELSE /\ SendClose(t, target)
                /\ threads' = [threads EXCEPT ![t].pc = "clear",
                                              ![t].sig.arb = target]
        /\ UNCHANGED <<rows, stamp, granted, unrecorded, arbs, replies>>

\* Mutant: a close that raises PMError is not caught.
RetryCleared_OnlyOk(t) ==
    /\ threads[t].pc = "clear"
    /\ replies[t].code = "ok"
    /\ TakeReply(t)
    /\ Goto(t, "wait")
    /\ UNCHANGED <<rows, stamp, granted, unrecorded, arbs, requests, faults>>

\* Best effort: a PMError is logged, and an answer that can be read as JSON, or
\* that has no body, is not looked at.
RetryCleared(t) ==
    /\ threads[t].pc = "clear"
    /\ Answered(t) /\ replies[t].code # "garbled"
    /\ TakeReply(t)
    /\ Goto(t, "wait")
    /\ UNCHANGED <<rows, stamp, granted, unrecorded, arbs, requests, faults>>

\* The wait ends when the symbol is free or after six looks, whichever is
\* first, so the fresh open may be sent at any moment.
RetryReopen(t) ==
    LET key == RetryKey(threads[t].sig.key, stamp + 1)
    IN  /\ threads[t].pc = "wait"
        /\ stamp' = stamp + 1
        /\ granted' = granted \cup {key}
        /\ SendOpen(t, threads[t].sig.asset, key)
        /\ threads' = [threads EXCEPT ![t].pc = "reopen", ![t].sig.key = key]
        /\ UNCHANGED <<rows, unrecorded, arbs, replies, faults>>

\* Mutant: the row keeps the key it had before the retry.
RetryFired_KeepsKey(t) ==
    /\ threads[t].pc = "reopen"
    /\ replies[t].code = "ok"
    /\ rows' = [rows EXCEPT ![threads[t].id].status = "fired",
                            ![threads[t].id].arb = replies[t].arb]
    /\ TakeReply(t)
    /\ Finish(t)
    /\ UNCHANGED <<stamp, granted, unrecorded, arbs, requests, faults>>

\* Mutant: the row keeps the arb it had before the retry.
RetryFired_KeepsArb(t) ==
    /\ threads[t].pc = "reopen"
    /\ replies[t].code = "ok"
    /\ rows' = [rows EXCEPT ![threads[t].id].status = "fired",
                            ![threads[t].id].key = threads[t].sig.key]
    /\ TakeReply(t)
    /\ Finish(t)
    /\ UNCHANGED <<stamp, granted, unrecorded, arbs, requests, faults>>

RetryFired(t) ==
    /\ threads[t].pc = "reopen"
    /\ replies[t].code = "ok"
    /\ rows' = [rows EXCEPT ![threads[t].id].status = "fired",
                            ![threads[t].id].key = threads[t].sig.key,
                            ![threads[t].id].arb = replies[t].arb]
    /\ TakeReply(t)
    /\ Finish(t)
    /\ UNCHANGED <<stamp, granted, unrecorded, arbs, requests, faults>>

\* A 409 is transient and changes nothing; any other PMError marks the row.
RetryFailed(t) ==
    /\ threads[t].pc = "reopen"
    /\ RaisesPMError(t)
    /\ IF replies[t].code = "conflict" THEN UNCHANGED rows
       ELSE MarkError(threads[t].id)
    /\ TakeReply(t)
    /\ Finish(t)
    /\ UNCHANGED <<stamp, granted, unrecorded, arbs, requests, faults>>

-----------------------------------------------------------------------------
(* What no handler catches: the request fails with a 500, the row stays.   *)

\* Only PMError is caught. resp.json() raises on a body that is no JSON, and
\* for an open resp.get or int() on one without an arb_id, whether or not the
\* PM has executed what it was asked for.
AnswerUnreadable(t) ==
    /\ \/ Opens(threads[t]) /\ replies[t].code \in Unreadable
       \/ Closes(threads[t]) /\ replies[t].code = "garbled"
    /\ TakeReply(t)
    /\ Abandon({t})
    /\ UNCHANGED <<rows, stamp, granted, arbs, requests, faults>>

\* The same of the reads of the positions: for a CLOSE without an arb_id, and
\* in retry before the close and in its wait.
PositionsUnreadable(t) ==
    /\ \/ /\ threads[t].pc = "approve"
          /\ threads[t].sig.kind = "CLOSE" /\ threads[t].sig.arb = NoArb
       \/ threads[t].pc \in {"retry", "wait"}
    /\ Fault("garble")
    /\ Abandon({t})
    /\ UNCHANGED <<rows, stamp, granted, arbs, requests, replies>>

-----------------------------------------------------------------------------

Click(t) ==
    \E id \in DOMAIN rows :
        ApproveLoad(t, id) \/ RejectLoad(t, id) \/ RetryLoad(t, id)

\* One step of a handler that has started.
HandlerStep(t) ==
    \/ ApproveOpen(t)
    \/ \E up \in BOOLEAN : ApproveClose(t, up) \/ RetryCheck(t, up)
    \/ ApproveFired(t) \/ ApproveFailed(t)
    \/ RejectCommit(t)
    \/ RetryCleared(t) \/ RetryReopen(t) \/ RetryFired(t) \/ RetryFailed(t)
    \/ AnswerUnreadable(t) \/ PositionsUnreadable(t)
=============================================================================
