---------------------------- MODULE CarrySignal ----------------------------
(***************************************************************************)
(* The whole service: the web app's handler threads and the background     *)
(* poller over one signals table, the Position Manager they call, the      *)
(* clock, and the crash of the process, which loses everything but the     *)
(* table (and the PM, which is another process).                           *)
(***************************************************************************)
EXTENDS Approval, Poller

vars == <<rows, arbs, requests, replies, faults,
          threads, stamp, granted, unrecorded, hour, poll>>

Init ==
    /\ rows = <<>>
    /\ PMInit
    /\ ApprovalInit
    /\ PollInit

\* Each request of the dead process may still reach the PM, or be lost.
Crash ==
    /\ Fault("crash")
    /\ \E survivors \in SUBSET requests :
          requests' = {[r EXCEPT !.to = Nobody] : r \in survivors}
    /\ replies' = [t \in Threads |-> NoReply]
    /\ Abandon(Threads)
    /\ poll' = Asleep
    /\ UNCHANGED <<rows, arbs, stamp, granted, hour>>

Next ==
    \/ PMStep /\ UNCHANGED <<rows, approvalVars, pollVars>>
    \/ (\E t \in Threads : Click(t) \/ HandlerStep(t)) /\ UNCHANGED pollVars
    \/ (PollStep \/ HourTick) /\ UNCHANGED approvalVars
    \/ Crash

Spec == Init /\ [][Next]_vars

\* A handler that has started and the poller's thread go on while they can, and
\* the httpx timeout ends every wait. Nothing is assumed of the PM, of the
\* operator or of the clock.
Fairness ==
    /\ \A t \in Threads :
          /\ WF_vars(HandlerStep(t) /\ UNCHANGED pollVars)
          /\ WF_vars(GiveUp(t) /\ UNCHANGED <<rows, approvalVars, pollVars>>)
    /\ WF_vars(ScanStep /\ UNCHANGED approvalVars)

FairSpec == Spec /\ Fairness

-----------------------------------------------------------------------------
(* Types                                                                   *)

PMTypeOK ==
    /\ arbs \in Seq(Arb)
    /\ requests \subseteq OpenRequest \cup CloseRequest
    /\ replies \in [Threads -> Reply]
    /\ faults \in Nat

\* The values each variable takes; the table is modelled by its rows, the
\* handlers by the locals they keep across a wait.
TypeOK ==
    /\ rows \in Seq(Row)
    /\ PMTypeOK
    /\ threads \in [Threads -> Job \cup {Idle}]
    /\ stamp \in Nat
    /\ granted \subseteq Key
    /\ unrecorded \subseteq [id: Nat, pc: Pcs]
    /\ hour \in Nat
    /\ poll \in Scan \cup Insert \cup {Asleep}

-----------------------------------------------------------------------------
(* Safety                                                                  *)

SignalKey(i) == Stripped(rows[i].key)

\* No order without a grant, no grant without a recorded signal, one order per
\* grant: approve and retry (approval.py:69-225) keep the promise of
\* ApproveToFire through double clicks, timeouts and restarts.
Promise == INSTANCE ApproveToFire WITH
    proposed <- {SignalKey(i) : i \in DOMAIN rows},
    granted <- granted,
    opened <- [i \in DOMAIN arbs |-> arbs[i].key]

ApproveToFire == Promise!Spec

\* The arb_id a row stores (approval.py:115 and 216, poller.py:172) names an
\* arb of the row's asset, and for an OPEN one that the row's own signal
\* opened, whatever threads raced to write it.
Lineage ==
    \A i \in DOMAIN rows : rows[i].arb # NoArb =>
        /\ rows[i].arb \in DOMAIN arbs
        /\ arbs[rows[i].arb].asset = rows[i].asset
        /\ rows[i].kind = "OPEN" =>
              Stripped(arbs[rows[i].arb].key) = SignalKey(i)

\* No two rows ever have one key, although a retry rewrites the key of a row
\* that exists: "our UNIQUE column never collides" (approval.py:240).
KeysUnique ==
    \A i, j \in DOMAIN rows : rows[i].key = rows[j].key => i = j

\* A CLOSE marked fired (approval.py:111-116) was executed: its arb is known
\* and is no longer opening or open.
FiredCloseReached ==
    \A i \in DOMAIN rows :
        rows[i].kind = "CLOSE" /\ rows[i].status = "fired" =>
            /\ rows[i].arb \in DOMAIN arbs
            /\ arbs[rows[i].arb].status \notin Healthy

\* The close that a retry sends never hits a healthy arb: "refuses if the
\* asset's arb is actually healthy/in-flight (no churn)" (approval.py:150).
NoChurn ==
    \A t \in Threads : threads[t].pc = "clear" =>
        arbs[threads[t].sig.arb].status \notin Healthy

\* Two rows for one hour, asset and transition. A retry frees the key it
\* replaces, so a later poll of the same hour can record that key once more.
Aliased(i) == \E j \in DOMAIN rows \ {i} : SignalKey(j) = SignalKey(i)

\* The row i was not fired as far as the table says: it still asks for a
\* decision, or was rejected.
Unfired(i) == rows[i].status \in {"pending", "rejected"}

\* A handler sent the order of the row i, and ended before it had recorded an
\* outcome: the process died, or the answer could not be read. Only another
\* approve, whose request the PM dedups, brings the two together again.
OrderUnrecorded(i) == [id |-> i, pc |-> "fire"] \in unrecorded

\* A rejected signal has no order and never gets one: "Reject a pending signal
\* (no order sent)" (approval.py:129). The exception is a row whose order went
\* unrecorded before (see FailureIsRecorded). An order belongs to a signal by
\* its key, so this says nothing of two rows that share one.
RejectedMeansNoOrder ==
    \A i \in DOMAIN rows :
        rows[i].status = "rejected" /\ ~OrderUnrecorded(i) /\ ~Aliased(i) =>
            /\ \A a \in DOMAIN arbs : Stripped(arbs[a].key) # SignalKey(i)
            /\ \A r \in requests :
                  r.op = "open" => Stripped(r.key) # SignalKey(i)

\* A fired OPEN (approval.py:111-118 and 213-220) stores the arb that its own
\* current key opened, so a later CLOSE or retry acts on that order.
FiredOpenMatchesArb ==
    \A i \in DOMAIN rows :
        rows[i].kind = "OPEN" /\ rows[i].status = "fired" =>
            /\ rows[i].arb \in DOMAIN arbs
            /\ arbs[rows[i].arb].key = rows[i].key

\* Two OPENs of an asset that were not rejected have a CLOSE between them: the
\* derived state (poller.py:86-112) never proposes a second entry on top of one
\* that still stands.
OpensSeparatedByClose ==
    \A i, j \in DOMAIN rows :
        /\ i < j
        /\ rows[i].asset = rows[j].asset
        /\ rows[i].kind = "OPEN" /\ rows[j].kind = "OPEN"
        /\ rows[i].status # "rejected"
        => \E k \in (i + 1) .. (j - 1) :
              rows[k].asset = rows[i].asset /\ rows[k].kind = "CLOSE"

\* The rows the dashboard offers a Retry button for: an OPEN whose request or
\* whose arb failed. It reads the positions once per page; a page whose read
\* failed leaves out the fired rows (and every page all but the latest fifty).
Retryable(i) ==
    /\ rows[i].kind = "OPEN"
    /\ \/ rows[i].status = "error"
       \/ /\ rows[i].status = "fired"
          /\ rows[i].arb # NoArb
          /\ arbs[rows[i].arb].status = "error"

InHand(i) == \E t \in Threads : threads[t].pc # "idle" /\ threads[t].id = i

\* An order that failed at the PM holds its asset there (a further open is
\* answered 409), so the row that placed it must offer the retry that clears
\* it: "a fired signal whose PM arb is 'error' (or a fire-time error) is
\* retryable" (web.py:231-232). A handler may still be at work on the row; and
\* an undecided row whose order went unrecorded offers none.
FailedOrderIsRetryable ==
    \A a \in DOMAIN arbs, i \in DOMAIN rows :
        /\ arbs[a].status = "error"
        /\ arbs[a].key = rows[i].key
        /\ ~Aliased(i)
        /\ ~(Unfired(i) /\ OrderUnrecorded(i))
        => Retryable(i) \/ InHand(i)

\* A row that asks for a decision has no order at the PM, except while a handler
\* is at work on it, or after one ended without an outcome: whatever the PM
\* answers in a form the client can read, a refusal, a conflict or a timeout
\* whose order arrives later, the row is decided with it (approval.py:102-118).
NoSilentOrder ==
    \A a \in DOMAIN arbs, i \in DOMAIN rows :
        /\ rows[i].status = "pending"
        /\ arbs[a].key = rows[i].key
        /\ ~OrderUnrecorded(i)
        /\ ~Aliased(i)
        => InHand(i)

\* A retry that succeeds gives the row an arb opened after the one it had: the
\* fresh key is never answered with the dead arb (approval.py:192-220).
RetryOpensAnew ==
    [][\A i \in DOMAIN rows : rows'[i].key # rows[i].key =>
          rows'[i].arb > rows[i].arb]_vars

-----------------------------------------------------------------------------
(* The inductive invariant behind the safety properties                    *)

\* A handler's copy of a row still names the signal, asset and transition of
\* that row, although the row may have changed under it.
Agrees(job) ==
    /\ job.id \in DOMAIN rows
    /\ job.sig.asset = rows[job.id].asset
    /\ job.sig.kind = rows[job.id].kind
    /\ Stripped(job.sig.key) = SignalKey(job.id)
    /\ job.pc \in {"retry", "clear", "wait", "reopen"} => job.sig.kind = "OPEN"

CopiesAgree ==
    \A t \in Threads : threads[t].pc # "idle" => Agrees(threads[t])

\* What may still open an order was authorised by a click.
SentWasGranted ==
    /\ \A r \in requests : r.op = "open" => r.key \in granted
    /\ \A t \in Threads :
          threads[t].pc = "approve" /\ threads[t].sig.kind = "OPEN" =>
              threads[t].sig.key \in granted

\* The poller inserts keys without a retry suffix.
InsertsAreFresh == poll.pc = "insert" => poll.new.key.retry = 0

GrantInv == TypeOK /\ CopiesAgree /\ SentWasGranted /\ InsertsAreFresh

RequestOf(t, job) ==
    IF Opens(job)
    THEN [to |-> t, op |-> "open", asset |-> job.sig.asset, key |-> job.sig.key]
    ELSE [to |-> t, op |-> "close", arb |-> job.sig.arb]

ArbOf(asset, arb) == arb \in DOMAIN arbs /\ arbs[arb].asset = asset
Executed(arb) == arb \in DOMAIN arbs /\ arbs[arb].status \notin Healthy

ReplyFits(job, arb) ==
    /\ Opens(job) => arb \in DOMAIN arbs /\ arbs[arb].key = job.sig.key
    /\ Closes(job) => Executed(job.sig.arb)

\* The only request and the only reply a handler can have are those of the
\* step it waits in; what it gave up on is no longer addressed to it.
WaitsForOwnReply ==
    \A t \in Threads :
        /\ Answered(t) => Opens(threads[t]) \/ Closes(threads[t])
        /\ \A r \in requests : r.to = t =>
              /\ Opens(threads[t]) \/ Closes(threads[t])
              /\ ~Answered(t)
              /\ r = RequestOf(t, threads[t])
        /\ replies[t].code = "ok" => ReplyFits(threads[t], replies[t].arb)
        /\ replies[t].code = "empty" /\ Closes(threads[t]) =>
              "redirect" \in Faults \/ Executed(threads[t].sig.arb)

KeysNameAssets ==
    /\ \A i \in DOMAIN rows : rows[i].key.asset = rows[i].asset
    /\ \A i \in DOMAIN arbs : arbs[i].key.asset = arbs[i].asset
    /\ \A r \in requests : r.op = "open" => r.key.asset = r.asset
    /\ poll.pc = "insert" => poll.new.key.asset = poll.new.asset

\* Every arb_id in the memory of a handler or of the scan is an arb of the
\* asset it is used for.
ArbsAreKnown ==
    /\ \A t \in Threads : threads[t].pc # "idle" /\ threads[t].sig.arb # NoArb
          => ArbOf(threads[t].sig.asset, threads[t].sig.arb)
    /\ \A t \in Threads : Closes(threads[t]) => threads[t].sig.arb # NoArb
    /\ poll.pc # "asleep" => \A a \in Assets :
          poll.seen[a] # NoArb => ArbOf(a, poll.seen[a])
    /\ poll.pc = "insert" =>
          /\ poll.new.status = "pending"
          /\ poll.new.arb # NoArb =>
                ArbOf(poll.new.asset, poll.new.arb) /\ poll.new.kind = "CLOSE"

OrderInv ==
    /\ GrantInv
    /\ WaitsForOwnReply
    /\ KeysNameAssets
    /\ ArbsAreKnown
    /\ Lineage
    /\ "redirect" \notin Faults => FiredCloseReached
    /\ "outage" \notin Faults => NoChurn

-----------------------------------------------------------------------------
(* What holds when no two requests are at work on one row                  *)

\* A condition on the operator's side: the code has no lock that ensures it
\* (approval.py:75-84, 131-138, 162-172).
OneHandlerPerRow ==
    \A t, u \in Threads :
        /\ threads[t].pc # "idle" /\ threads[u].pc # "idle"
        /\ threads[t].id = threads[u].id
        => t = u

\* The keys of the orders that the PM has, or that are on their way to it.
OrderKeys ==
    {arbs[a].key : a \in DOMAIN arbs}
        \cup {r.key : r \in {q \in requests : q.op = "open"}}

\* An order is for a recorded OPEN, and no key is ahead of the clock from which
\* a retry takes its suffix.
OrdersAreRecorded ==
    /\ \A key \in OrderKeys : \E i \in DOMAIN rows :
          rows[i].kind = "OPEN" /\ SignalKey(i) = Stripped(key)
    /\ \A key \in OrderKeys : key.retry <= stamp
    /\ \A i \in DOMAIN rows : rows[i].key.retry <= stamp

ArbKeysDiffer ==
    \A a, b \in DOMAIN arbs : arbs[a].key = arbs[b].key => a = b

KeysNameKinds ==
    /\ \A i \in DOMAIN rows : rows[i].key.kind = rows[i].kind
    /\ poll.pc = "insert" => poll.new.key.kind = poll.new.kind

\* The row is what its only handler has validated, and a retry's fresh key has
\* at most opened an arb after the one the row stores.
OwnsRow(job) ==
    /\ job.pc \in {"approve", "fire", "reject"} =>
          rows[job.id].status = "pending"
    /\ job.pc \in {"retry", "clear", "wait", "reopen"} =>
          rows[job.id].status \in {"fired", "error"}
    /\ job.pc # "reopen" => rows[job.id].key = job.sig.key
    /\ job.pc = "reopen" => \A a \in DOMAIN arbs :
          arbs[a].key = job.sig.key => a > rows[job.id].arb

HandlersOwnRows == \A t \in Threads : threads[t].pc # "idle" => OwnsRow(threads[t])

\* An OPEN about to be recorded follows a CLOSE, if it follows an OPEN at all.
InsertIsSeparated ==
    poll.pc = "insert" /\ poll.new.kind = "OPEN" =>
        \A i \in DOMAIN rows :
            /\ rows[i].asset = poll.new.asset
            /\ rows[i].kind = "OPEN" /\ rows[i].status # "rejected"
            => \E k \in DOMAIN rows :
                  /\ k > i
                  /\ rows[k].asset = rows[i].asset /\ rows[k].kind = "CLOSE"

NoOrderFor(i) == \A key \in OrderKeys : Stripped(key) # SignalKey(i)

\* A handler that fires the row i: its request is the only thing under way, or
\* it has the answer.
Firing(t, i) ==
    /\ threads[t].pc = "fire" /\ threads[t].id = i
    /\ ~Answered(t) =>
          /\ \A a \in DOMAIN arbs : Stripped(arbs[a].key) # SignalKey(i)
          /\ \A r \in requests :
                r.op = "open" /\ Stripped(r.key) = SignalKey(i) => r.to = t

UndecidedHasNoOrder ==
    \A i \in DOMAIN rows :
        Unfired(i) /\ ~OrderUnrecorded(i) /\ ~Aliased(i) =>
            NoOrderFor(i) \/ \E t \in Threads : Firing(t, i)

\* With OrderInv, inductive while OneHandlerPerRow holds.
RowInv ==
    /\ OrdersAreRecorded
    /\ ArbKeysDiffer
    /\ KeysNameKinds
    /\ HandlersOwnRows
    /\ FiredOpenMatchesArb
    /\ OpensSeparatedByClose
    /\ InsertIsSeparated
    /\ UndecidedHasNoOrder

-----------------------------------------------------------------------------
(* Liveness                                                                *)

\* A click that found its signal pending moves it out of pending, even if the PM
\* never answers (approval.py:69-125, 128-138), unless its handler is among those
\* that ended without an outcome: in a crash, or on an answer nobody can read.
ClickDecides ==
    \A t \in Threads, id \in 1 .. 4 * MaxHour :
        (threads[t].pc \in {"approve", "fire", "reject"} /\ threads[t].id = id)
            ~> \/ id \in DOMAIN rows /\ rows[id].status # "pending"
               \/ \E pc \in Pcs : [id |-> id, pc |-> pc] \in unrecorded

\* Every request of the operator is answered (approval.py:146-225): no handler
\* waits for ever on the PM or on a close it cannot confirm.
RequestAnswered ==
    \A t \in Threads : threads[t].pc # "idle" ~> threads[t].pc = "idle"

\* A scan ends, whatever the fetches and the PM do for its assets
\* (poller.py:217-236).
ScanCompletes == poll.pc # "asleep" ~> poll.pc = "asleep"

-----------------------------------------------------------------------------
(* What the repository's text says, and the code does not keep             *)

\* "On a PM failure the signal is marked ``error`` (with the message)"
\* (approval.py:72): no row still asks for a decision once its order is at the
\* PM and its handler has ended. This is NoSilentOrder without the exception.
FailureIsRecorded ==
    \A a \in DOMAIN arbs, i \in DOMAIN rows :
        rows[i].status = "pending" /\ arbs[a].key = rows[i].key => InHand(i)

\* "Idempotent: a repeat poll in the same state inserts nothing"
\* (poller.py:12): no CLOSE is proposed while one is already pending.
RepeatPollInsertsNothing ==
    \A i, j \in DOMAIN rows :
        /\ i < j
        /\ rows[i].asset = rows[j].asset
        /\ rows[i].kind = "CLOSE" /\ rows[j].kind = "CLOSE"
        /\ rows[i].status = "pending" /\ rows[j].status = "pending"
        => \E k \in (i + 1) .. (j - 1) :
              rows[k].asset = rows[i].asset /\ rows[k].kind = "OPEN"

\* "for a CLOSE, the arb_id we closed (copied from the matching open
\* signal/arb)" (models.py:62-63): a CLOSE about to be recorded while the PM
\* lists no arb does not name the arb that a fired CLOSE has closed already.
CloseMatchesOpen ==
    poll.pc = "insert" /\ poll.new.kind = "CLOSE" =>
        \/ poll.seen[poll.new.asset] # NoArb
        \/ poll.new.arb = NoArb
        \/ \A i \in DOMAIN rows :
              rows[i].kind = "CLOSE" /\ rows[i].status = "fired" =>
                  rows[i].arb # poll.new.arb

\* "two polls in the same clock hour that both see the same transition produce
\* the SAME key, so the UNIQUE constraint dedups them" (poller.py:53-55). This
\* much is kept until the first retry, which frees the key its row had.
HourDedup == \A i \in DOMAIN rows : ~Aliased(i)
=============================================================================
