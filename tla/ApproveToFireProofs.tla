------------------------ MODULE ApproveToFireProofs ------------------------
(***************************************************************************)
(* CarrySignal implements ApproveToFire: no order without an operator's    *)
(* grant, no grant without a recorded signal, one order per grant, for     *)
(* every number of assets, threads, faults, retries and hours.             *)
(***************************************************************************)
EXTENDS CarrySignalProofs

-----------------------------------------------------------------------------
(* The table grows, and a row keeps its asset, its kind and its signal key *)

RowsGrow ==
    /\ DOMAIN rows \subseteq DOMAIN rows'
    /\ \A i \in DOMAIN rows :
          /\ rows'[i].asset = rows[i].asset
          /\ rows'[i].kind = rows[i].kind
          /\ Stripped(rows'[i].key) = Stripped(rows[i].key)

RowsKeep == RowsGrow /\ DOMAIN rows' = DOMAIN rows

LEMMA StatusKeeps ==
    ASSUME rows \in Seq(Row), NEW id, NEW status,
           rows' = [rows EXCEPT ![id].status = status]
    PROVE  RowsKeep
<1>1. \A i \in DOMAIN rows : rows[i] \in Row  OBVIOUS
<1>2. DOMAIN rows' = DOMAIN rows  OBVIOUS
<1>3. \A i \in DOMAIN rows :
         rows'[i] = IF i = id THEN [rows[i] EXCEPT !.status = status]
                    ELSE rows[i]
  OBVIOUS
<1>4. \A i \in DOMAIN rows :
         /\ rows'[i].asset = rows[i].asset
         /\ rows'[i].kind = rows[i].kind
         /\ rows'[i].key = rows[i].key
  BY <1>1, <1>3 DEF Row
<1>5. QED BY <1>2, <1>4 DEF RowsKeep, RowsGrow

LEMMA SameKeeps == ASSUME rows' = rows PROVE RowsKeep
BY DEF RowsKeep, RowsGrow

LEMMA AppendGrows ==
    ASSUME rows \in Seq(Row), NEW row \in Row, rows' = Append(rows, row)
    PROVE  /\ RowsGrow
           /\ DOMAIN rows' = DOMAIN rows \cup {Len(rows) + 1}
           /\ rows'[Len(rows) + 1] = row
           /\ \A i \in DOMAIN rows : rows'[i] = rows[i]
BY DEF RowsGrow

\* A handler's copy keeps agreeing while the table only grows.
LEMMA AgreesStable ==
    ASSUME RowsGrow, NEW job, Agrees(job)
    PROVE  Agrees(job)'
BY DEF RowsGrow, Agrees, SignalKey

\* One thread moves, the table grows: the copies agree if the mover's does.
LEMMA CopiesStep ==
    ASSUME CopiesAgree, RowsGrow, NEW t \in Threads, NEW job,
           threads \in [Threads -> Job \cup {Idle}],
           threads' = [threads EXCEPT ![t] = job],
           job.pc = "idle" \/ Agrees(job)
    PROVE  CopiesAgree'
<1>1. ASSUME NEW u \in Threads, threads'[u].pc # "idle"
      PROVE  Agrees(threads[u])'
  <2>1. CASE u = t
    <3>1. threads'[u] = job BY <2>1
    <3>2. Agrees(job) BY <1>1, <3>1
    <3>3. Agrees(job)' BY <3>2, AgreesStable
    <3>4. QED BY <3>1, <3>3 DEF Agrees, SignalKey
  <2>2. CASE u # t
    <3>1. threads'[u] = threads[u] BY <2>2
    <3>2. Agrees(threads[u]) BY <1>1, <3>1 DEF CopiesAgree
    <3>3. QED BY <3>1, <3>2 DEF RowsGrow, Agrees, SignalKey
  <2>3. QED BY <2>1, <2>2
<1>2. QED BY <1>1 DEF CopiesAgree

-----------------------------------------------------------------------------
(* GrantInv is inductive: one lemma for the steps of each component        *)

LEMMA GrantInit == Init => GrantInv
<1> SUFFICES ASSUME Init PROVE GrantInv
  OBVIOUS
<1>1. CopiesAgree BY DEF Init, ApprovalInit, Idle, CopiesAgree
<1>2. SentWasGranted
  BY DEF Init, PMInit, ApprovalInit, Idle, SentWasGranted
<1>3. InsertsAreFresh BY DEF Init, PollInit, Asleep, InsertsAreFresh
<1>4. QED BY <1>1, <1>2, <1>3, InitTypes DEF GrantInv

\* The PM only consumes requests, or forgets who sent them.
LEMMA PMStepRequests ==
    ASSUME TypeOK, PMStep
    PROVE  \A r \in requests' : r.op = "open" =>
              \E q \in requests : /\ q.op = "open" /\ q.key = r.key
                                  /\ q.asset = r.asset
<1>1. ASSUME NEW r \in requests,
             \/ AcceptOpen(r) \/ DuplicateOpen(r) \/ ConflictOpen(r)
             \/ AcceptClose(r) \/ RepeatClose(r) \/ Refuse(r)
      PROVE  requests' \subseteq requests
  BY <1>1 DEF AcceptOpen, DuplicateOpen, ConflictOpen, AcceptClose,
              RepeatClose, Refuse, Succeed, Answer
<1>2. ASSUME NEW t \in Threads, GiveUp(t)
      PROVE  \A r \in requests' : r.op = "open" =>
                \E q \in requests : /\ q.op = "open" /\ q.key = r.key
                                    /\ q.asset = r.asset
  <2>1. PICK q \in requests :
           \/ requests' = requests \ {q}
           \/ requests' = (requests \ {q}) \cup {[q EXCEPT !.to = Nobody]}
    BY <1>2 DEF GiveUp
  <2>2. q \in OpenRequest \cup CloseRequest
    BY DEF TypeOK, PMTypeOK
  <2>3. LET m == [q EXCEPT !.to = Nobody]
        IN  m.op = "open" =>
               q.op = "open" /\ q.key = m.key /\ q.asset = m.asset
    BY <2>2 DEF OpenRequest, CloseRequest
  <2>4. QED BY <2>1, <2>3
<1>3. ASSUME NEW i \in DOMAIN arbs, Settle(i)
      PROVE  requests' = requests
  BY <1>3 DEF Settle
<1>4. QED BY <1>1, <1>2, <1>3 DEF PMStep

LEMMA GrantPM ==
    ASSUME GrantInv, PMStep, UNCHANGED <<rows, approvalVars, pollVars>>
    PROVE  CopiesAgree' /\ SentWasGranted' /\ InsertsAreFresh'
<1> USE DEF approvalVars, pollVars
<1>1. CopiesAgree'
  BY DEF GrantInv, CopiesAgree, Agrees, SignalKey
<1>2. SentWasGranted'
  BY PMStepRequests DEF GrantInv, SentWasGranted
<1>3. InsertsAreFresh' BY DEF GrantInv, InsertsAreFresh
<1>4. QED BY <1>1, <1>2, <1>3

LEMMA GrantClick ==
    ASSUME GrantInv, NEW t \in Threads, Click(t), UNCHANGED pollVars
    PROVE  CopiesAgree' /\ SentWasGranted' /\ InsertsAreFresh'
<1> USE DEF pollVars, pmVars
<1>a. TypeOK /\ threads \in [Threads -> Job \cup {Idle}]
  BY DEF GrantInv, TypeOK
<1>1. PICK id \in DOMAIN rows :
         ApproveLoad(t, id) \/ RejectLoad(t, id) \/ RetryLoad(t, id)
  BY DEF Click
<1>2. PICK pc \in {"approve", "reject", "retry"} :
         /\ threads' = [threads EXCEPT ![t] =
                          [pc |-> pc, id |-> id, sig |-> rows[id]]]
         /\ pc = "retry" => rows[id].kind = "OPEN"
         /\ pc = "approve" /\ rows[id].kind = "OPEN" => rows[id].key \in granted'
         /\ granted \subseteq granted'
  BY <1>1 DEF ApproveLoad, RejectLoad, RetryLoad, Load
<1>3. UNCHANGED <<rows, requests, poll>>
  BY <1>1 DEF ApproveLoad, RejectLoad, RetryLoad
<1>4. CopiesAgree'
  <2> DEFINE job == [pc |-> pc, id |-> id, sig |-> rows[id]]
  <2>1. Agrees(job) BY <1>2 DEF Agrees, SignalKey
  <2>2. RowsGrow BY <1>3 DEF RowsGrow
  <2>3. CopiesAgree BY DEF GrantInv
  <2>4. QED BY <1>a, <1>2, <2>1, <2>2, <2>3, CopiesStep
<1>5. SentWasGranted'
  <2>1. \A u \in Threads : threads'[u] =
           IF u = t THEN [pc |-> pc, id |-> id, sig |-> rows[id]]
           ELSE threads[u]
    BY <1>a, <1>2
  <2>2. QED BY <1>2, <1>3, <2>1 DEF GrantInv, SentWasGranted
<1>6. InsertsAreFresh' BY <1>3 DEF GrantInv, InsertsAreFresh
<1>7. QED BY <1>4, <1>5, <1>6

\* A handler moves to job, sends at most one open under a granted key, and
\* writes statuses only: the invariant holds after its step.
LEMMA GrantHandler ==
    ASSUME GrantInv, UNCHANGED pollVars, NEW t \in Threads, NEW job,
           threads' = [threads EXCEPT ![t] = job],
           job.pc \in {"idle", "fire", "clear", "wait", "reopen"},
           job.pc = "idle" \/ Agrees(job),
           RowsGrow, granted \subseteq granted',
           \A r \in requests' \ requests : r.op = "open" => r.key \in granted'
    PROVE  CopiesAgree' /\ SentWasGranted' /\ InsertsAreFresh'
<1>a. threads \in [Threads -> Job \cup {Idle}]
  BY DEF GrantInv, TypeOK
<1>1. CopiesAgree' BY <1>a, CopiesStep DEF GrantInv
<1>2. \A u \in Threads : threads'[u] = IF u = t THEN job ELSE threads[u]
  BY <1>a
<1>3. SentWasGranted' BY <1>2 DEF GrantInv, SentWasGranted
<1>4. InsertsAreFresh' BY DEF GrantInv, InsertsAreFresh, pollVars
<1>5. QED BY <1>1, <1>3, <1>4

\* A retry's key names the same signal as the key it replaces.
LEMMA RetryKeepsSignal ==
    ASSUME NEW key \in Key, NEW n \in Nat
    PROVE  Stripped(RetryKey(key, n)) = Stripped(key)
BY DEF Key, RetryKey, Stripped

LEMMA AbandonFinishes ==
    ASSUME threads \in [Threads -> Job \cup {Idle}], NEW t \in Threads,
           Abandon({t})
    PROVE  Finish(t)
BY DEF Abandon, Finish

\* What the steps of a handler do to the table, the grants and the requests.
HandlerEffect(t) ==
    /\ RowsKeep
    /\ granted \subseteq granted'
    /\ \A r \in requests' \ requests : r.op = "open" => r.key \in granted'
    /\ \/ granted' = granted
       \/ \E key \in Key : /\ [key EXCEPT !.retry = 0] = SignalKey(threads[t].id)
                           /\ threads[t].id \in DOMAIN rows
                           /\ granted' = granted \cup {key}
    /\ \E job : /\ threads' = [threads EXCEPT ![t] = job]
                /\ job.pc \in {"idle", "fire", "clear", "wait", "reopen"}
                /\ job.pc = "idle" \/ Agrees(job)

LEMMA HandlerEffects ==
    ASSUME GrantInv, NEW t \in Threads, HandlerStep(t)
    PROVE  HandlerEffect(t)
<1>a. /\ TypeOK /\ CopiesAgree /\ SentWasGranted
      /\ rows \in Seq(Row)
      /\ threads \in [Threads -> Job \cup {Idle}]
  BY DEF GrantInv, TypeOK
<1>b. ASSUME threads[t].pc # "idle"
      PROVE  /\ threads[t] \in Job /\ threads[t].sig \in Row
             /\ threads[t].sig.key \in Key
             /\ threads[t].id \in DOMAIN rows
             /\ Agrees(threads[t])
  BY <1>a, <1>b, JobType DEF CopiesAgree, Agrees, Row
<1>c. ASSUME Finish(t), RowsKeep, granted' = granted, requests' = requests
      PROVE  HandlerEffect(t)
  <2>1. Idle.pc = "idle" BY DEF Idle
  <2>2. QED BY <1>c, <2>1 DEF HandlerEffect, Finish
<1>d. ASSUME NEW pc \in {"fire", "wait"}, Goto(t, pc), threads[t].pc # "idle",
             RowsKeep, granted' = granted,
             \A r \in requests' \ requests : r.op = "open" => r.key \in granted,
             pc = "wait" => threads[t].sig.kind = "OPEN"
      PROVE  HandlerEffect(t)
  <2> DEFINE job == [threads[t] EXCEPT !.pc = pc]
  <2>1. threads' = [threads EXCEPT ![t] = job] BY <1>d DEF Goto
  <2>2. job.pc = pc /\ job.id = threads[t].id /\ job.sig = threads[t].sig
    BY <1>b, <1>d DEF Job
  <2>3. Agrees(job) BY <1>b, <1>d, <2>2 DEF Agrees
  <2>4. QED BY <1>d, <2>1, <2>2, <2>3 DEF HandlerEffect
<1>e. ASSUME NEW pc \in {"fire", "clear"}, NEW arb, threads[t].pc # "idle",
             threads' = [threads EXCEPT ![t].pc = pc, ![t].sig.arb = arb],
             SendClose(t, arb), RowsKeep, granted' = granted,
             pc = "clear" => threads[t].sig.kind = "OPEN"
      PROVE  HandlerEffect(t)
  <2> DEFINE job == [threads[t] EXCEPT !.pc = pc, !.sig.arb = arb]
  <2>1. threads' = [threads EXCEPT ![t] = job] BY <1>a, <1>e
  <2>2. /\ job.pc = pc /\ job.id = threads[t].id
        /\ job.sig.asset = threads[t].sig.asset
        /\ job.sig.kind = threads[t].sig.kind
        /\ job.sig.key = threads[t].sig.key
    BY <1>b, <1>e DEF Job, Row
  <2>3. Agrees(job) BY <1>b, <1>e, <2>2 DEF Agrees
  <2>4. \A r \in requests' \ requests : r.op = "close"
    BY <1>e DEF SendClose
  <2>5. QED BY <1>e, <2>1, <2>2, <2>3, <2>4 DEF HandlerEffect
<1>1. CASE ApproveOpen(t)
  <2>1. \A r \in requests' \ requests : r.key = threads[t].sig.key
    BY <1>1 DEF ApproveOpen, SendOpen
  <2>2. threads[t].sig.key \in granted
    BY <1>1, <1>a DEF ApproveOpen, SentWasGranted
  <2>3. threads[t].pc # "idle" /\ Goto(t, "fire") BY <1>1 DEF ApproveOpen
  <2>4. RowsKeep /\ granted' = granted BY <1>1, SameKeeps DEF ApproveOpen
  <2>5. QED BY <1>d, <2>1, <2>2, <2>3, <2>4
<1>2. ASSUME NEW up \in BOOLEAN, ApproveClose(t, up)
      PROVE  HandlerEffect(t)
  <2> DEFINE target == CloseTarget(threads[t].sig, up)
  <2>1. CASE target = NoArb
    <3>1. rows' = [rows EXCEPT ![threads[t].id].status = "error"]
      BY <1>2, <2>1 DEF ApproveClose, MarkError
    <3>2. RowsKeep BY <1>a, <3>1, StatusKeeps
    <3>3. QED BY <1>2, <1>c, <2>1, <3>2 DEF ApproveClose
  <2>2. CASE target # NoArb
    <3>1. RowsKeep BY <1>2, <2>2, SameKeeps DEF ApproveClose
    <3>2. /\ threads' = [threads EXCEPT ![t].pc = "fire",
                                        ![t].sig.arb = target]
          /\ SendClose(t, target) /\ granted' = granted
          /\ threads[t].pc # "idle"
      BY <1>2, <2>2 DEF ApproveClose
    <3>3. QED BY <1>e, <3>1, <3>2
  <2>3. QED BY <2>1, <2>2
<1>3. CASE ApproveFired(t)
  <2>1. PICK arb : rows' = [rows EXCEPT ![threads[t].id].status = "fired",
                                        ![threads[t].id].arb = arb]
    BY <1>3 DEF ApproveFired
  <2>2. RowsKeep
    <3>1. threads[t].id \in DOMAIN rows BY <1>3, <1>b DEF ApproveFired
    <3>2. \A i \in DOMAIN rows : rows[i] \in Row BY <1>a
    <3>3. \A i \in DOMAIN rows : rows'[i] =
             IF i = threads[t].id
             THEN [rows[i] EXCEPT !.status = "fired", !.arb = arb]
             ELSE rows[i]
      BY <1>a, <2>1, <3>1
    <3>4. \A i \in DOMAIN rows :
             /\ rows'[i].asset = rows[i].asset
             /\ rows'[i].kind = rows[i].kind
             /\ rows'[i].key = rows[i].key
      BY <3>2, <3>3 DEF Row
    <3>5. DOMAIN rows' = DOMAIN rows BY <2>1
    <3>6. QED BY <3>4, <3>5 DEF RowsKeep, RowsGrow
  <2>3. QED BY <1>3, <1>c, <2>2 DEF ApproveFired
<1>4. CASE ApproveFailed(t)
  <2>1. RowsKeep
    BY <1>4, <1>a, StatusKeeps DEF ApproveFailed, MarkError
  <2>2. QED BY <1>4, <1>c, <2>1 DEF ApproveFailed
<1>5. CASE AnswerUnreadable(t) \/ PositionsUnreadable(t)
  <2>1. Finish(t)
    BY <1>5, <1>a, AbandonFinishes DEF AnswerUnreadable, PositionsUnreadable
  <2>2. QED
    BY <1>5, <1>c, <2>1, SameKeeps DEF AnswerUnreadable, PositionsUnreadable
<1>6. CASE RejectCommit(t)
  <2>1. RowsKeep BY <1>6, <1>a, StatusKeeps DEF RejectCommit
  <2>2. QED BY <1>6, <1>c, <2>1 DEF RejectCommit, pmVars
<1>7. ASSUME NEW up \in BOOLEAN, RetryCheck(t, up)
      PROVE  HandlerEffect(t)
  <2> DEFINE cur == SeenArb(threads[t].sig.asset, up)
             target == IF cur # NoArb THEN cur ELSE threads[t].sig.arb
  <2>1. RowsKeep /\ granted' = granted /\ threads[t].pc = "retry"
    BY <1>7, SameKeeps DEF RetryCheck
  <2>2. threads[t].sig.kind = "OPEN" BY <1>b, <2>1 DEF Agrees
  <2>3. \/ Finish(t) /\ UNCHANGED requests
        \/ Goto(t, "wait") /\ UNCHANGED requests
        \/ /\ SendClose(t, target)
           /\ threads' = [threads EXCEPT ![t].pc = "clear",
                                         ![t].sig.arb = target]
    BY <1>7 DEF RetryCheck
  <2>4. QED
    <3> HIDE DEF target
    <3> QED BY <1>c, <1>d, <1>e, <2>1, <2>2, <2>3
<1>8. CASE RetryCleared(t)
  <2>1. threads[t].sig.kind = "OPEN" BY <1>8, <1>b DEF RetryCleared, Agrees
  <2>2. QED BY <1>8, <1>d, <2>1, SameKeeps DEF RetryCleared
<1>9. CASE RetryReopen(t)
  <2> DEFINE key == RetryKey(threads[t].sig.key, stamp + 1)
             job == [threads[t] EXCEPT !.pc = "reopen", !.sig.key = key]
  <2>1. threads[t].pc = "wait" BY <1>9 DEF RetryReopen
  <2>2. threads[t].sig.kind = "OPEN" BY <1>b, <2>1 DEF Agrees
  <2>3. key \in Key /\ Stripped(key) = Stripped(threads[t].sig.key)
    <3>1. stamp + 1 \in Nat BY <1>a DEF TypeOK
    <3>2. QED BY <1>b, <2>1, <3>1, KeyTypes, RetryKeepsSignal
  <2>4. threads' = [threads EXCEPT ![t] = job] BY <1>9, <1>a DEF RetryReopen
  <2>5. /\ job.pc = "reopen" /\ job.id = threads[t].id
        /\ job.sig.asset = threads[t].sig.asset
        /\ job.sig.kind = threads[t].sig.kind
        /\ job.sig.key = key
    <3> HIDE DEF key
    <3> QED BY <1>b, <2>1 DEF Job, Row
  <2>6. Agrees(job)
    <3> HIDE DEF key, job
    <3> QED BY <1>b, <2>1, <2>2, <2>3, <2>5 DEF Agrees
  <2>7. \A r \in requests' \ requests : r.key = key
    BY <1>9 DEF RetryReopen, SendOpen
  <2>8. granted' = granted \cup {key} BY <1>9 DEF RetryReopen
  <2>9. Stripped(key) = SignalKey(threads[t].id)
    BY <1>b, <2>1, <2>3 DEF Agrees
  <2>10. RowsKeep BY <1>9, SameKeeps DEF RetryReopen
  <2>11. [key EXCEPT !.retry = 0] = SignalKey(threads[t].id)
    BY <2>9 DEF Stripped
  <2>12. threads[t].id \in DOMAIN rows BY <1>b, <2>1
  <2>13. QED
    <3> HIDE DEF key, job
    <3> QED BY <2>3, <2>4, <2>5, <2>6, <2>7, <2>8, <2>10, <2>11, <2>12
            DEF HandlerEffect
<1>10. CASE RetryFired(t)
  <2>1. threads[t].pc = "reopen" BY <1>10 DEF RetryFired
  <2>2. RowsKeep
    <3>1. \A i \in DOMAIN rows : rows[i] \in Row BY <1>a
    <3>2. \A i \in DOMAIN rows : rows'[i] =
             IF i = threads[t].id
             THEN [rows[i] EXCEPT !.status = "fired",
                                  !.key = threads[t].sig.key,
                                  !.arb = replies[t].arb]
             ELSE rows[i]
      BY <1>10, <1>a DEF RetryFired
    <3>3. \A i \in DOMAIN rows :
             /\ rows'[i].asset = rows[i].asset
             /\ rows'[i].kind = rows[i].kind
             /\ rows'[i].key = IF i = threads[t].id THEN threads[t].sig.key
                               ELSE rows[i].key
      BY <3>1, <3>2 DEF Row
    <3>4. Stripped(threads[t].sig.key) = Stripped(rows[threads[t].id].key)
      BY <1>b, <2>1 DEF Agrees, SignalKey
    <3>5. DOMAIN rows' = DOMAIN rows BY <1>10 DEF RetryFired
    <3>6. QED BY <3>3, <3>4, <3>5 DEF RowsKeep, RowsGrow
  <2>3. QED BY <1>10, <1>c, <2>2 DEF RetryFired
<1>11. CASE RetryFailed(t)
  <2>1. RowsKeep
    BY <1>11, <1>a, StatusKeeps, SameKeeps DEF RetryFailed, MarkError
  <2>2. QED BY <1>11, <1>c, <2>1 DEF RetryFailed
<1>12. QED BY <1>1, <1>2, <1>3, <1>4, <1>5, <1>6, <1>7, <1>8, <1>9, <1>10,
              <1>11 DEF HandlerStep

LEMMA GrantHandlerStep ==
    ASSUME GrantInv, NEW t \in Threads, HandlerStep(t), UNCHANGED pollVars
    PROVE  CopiesAgree' /\ SentWasGranted' /\ InsertsAreFresh'
<1>1. HandlerEffect(t) BY HandlerEffects
<1>2. PICK job : /\ threads' = [threads EXCEPT ![t] = job]
                 /\ job.pc \in {"idle", "fire", "clear", "wait", "reopen"}
                 /\ job.pc = "idle" \/ Agrees(job)
  BY <1>1 DEF HandlerEffect
<1>3. QED BY <1>1, <1>2, GrantHandler DEF HandlerEffect, RowsKeep

\* The poller inserts a pending row under a key without a suffix.
LEMMA PollEffects ==
    ASSUME GrantInv, PollStep \/ HourTick
    PROVE  /\ InsertsAreFresh'
           /\ requests' = requests /\ arbs' = arbs
           /\ \/ RowsKeep
              \/ /\ poll.pc = "insert" /\ poll.new \in Row
                 /\ poll.new.key.retry = 0
                 /\ rows' = Append(rows, poll.new)
<1> USE DEF pmVars
<1>a. TypeOK /\ InsertsAreFresh BY DEF GrantInv
<1>b. \A asset : Rest(asset).pc # "insert" BY DEF Rest, Asleep
<1>1. ASSUME NEW up \in BOOLEAN, PollStart(up)
      PROVE  InsertsAreFresh' /\ RowsKeep
  BY <1>1, SameKeeps DEF PollStart, InsertsAreFresh
<1>2. ASSUME NEW asset, NEW avg, NEW spot, PollDecide(asset, avg, spot)
      PROVE  InsertsAreFresh' /\ RowsKeep
  <2>1. poll' = Rest(asset) \/ poll'.pc # "insert" \/ poll'.new.key.retry = 0
    BY <1>2 DEF PollDecide, PendingRow, IdempotencyKey
  <2>2. InsertsAreFresh' BY <1>b, <2>1 DEF InsertsAreFresh
  <2>3. QED BY <1>2, <2>2, SameKeeps DEF PollDecide
<1>3. ASSUME PollInsert
      PROVE  /\ InsertsAreFresh'
             /\ \/ RowsKeep
                \/ /\ poll.pc = "insert" /\ poll.new \in Row
                   /\ poll.new.key.retry = 0
                   /\ rows' = Append(rows, poll.new)
  <2>1. poll.pc = "insert" BY <1>3 DEF PollInsert
  <2>2. poll.new \in Row
    BY <1>a, <2>1 DEF TypeOK, Scan, Asleep, Insert
  <2>3. InsertsAreFresh' BY <1>3, <1>b DEF PollInsert, InsertsAreFresh
  <2>4. QED BY <1>3, <1>a, <2>1, <2>2, <2>3, SameKeeps
            DEF PollInsert, InsertsAreFresh
<1>4. ASSUME HourTick
      PROVE  InsertsAreFresh' /\ RowsKeep
  BY <1>4, <1>a, SameKeeps DEF HourTick, InsertsAreFresh
<1>5. requests' = requests /\ arbs' = arbs
  BY DEF PollStep, ScanStep, PollStart, PollDecide, PollInsert, HourTick
<1>6. QED BY <1>1, <1>2, <1>3, <1>4, <1>5 DEF PollStep, ScanStep

LEMMA GrantPoll ==
    ASSUME GrantInv, PollStep \/ HourTick, UNCHANGED approvalVars
    PROVE  CopiesAgree' /\ SentWasGranted' /\ InsertsAreFresh'
<1>1. RowsGrow
  BY PollEffects, AppendGrows DEF RowsKeep, GrantInv, TypeOK
<1>2. CopiesAgree'
  <2>1. ASSUME NEW t \in Threads, threads[t].pc # "idle"
        PROVE  Agrees(threads[t])'
    <3>1. Agrees(threads[t]) BY <2>1 DEF GrantInv, CopiesAgree
    <3>2. QED BY <1>1, <3>1 DEF Agrees, RowsGrow, SignalKey, approvalVars
  <2>2. QED BY <2>1 DEF CopiesAgree, approvalVars
<1>3. SentWasGranted'
  BY PollEffects DEF GrantInv, SentWasGranted, approvalVars
<1>4. QED BY <1>2, <1>3, PollEffects

LEMMA GrantCrash ==
    ASSUME GrantInv, Crash
    PROVE  CopiesAgree' /\ SentWasGranted' /\ InsertsAreFresh'
<1>1. CopiesAgree' BY DEF Crash, Abandon, Idle, CopiesAgree
<1>2. SentWasGranted'
  <2>1. PICK survivors \in SUBSET requests :
           requests' = {[r EXCEPT !.to = Nobody] : r \in survivors}
    BY DEF Crash
  <2>2. \A r \in survivors : LET m == [r EXCEPT !.to = Nobody]
                             IN  m.op = "open" => r.op = "open" /\ m.key = r.key
    BY <2>1 DEF GrantInv, TypeOK, PMTypeOK, OpenRequest, CloseRequest
  <2>3. \A r \in requests' : r.op = "open" => r.key \in granted
    <3>1. \A r \in survivors : r.op = "open" => r.key \in granted
      BY <2>1 DEF GrantInv, SentWasGranted
    <3>2. QED BY <2>1, <2>2, <3>1
  <2>4. \A t \in Threads : threads'[t].pc = "idle" BY DEF Crash, Abandon, Idle
  <2>5. QED BY <2>3, <2>4 DEF SentWasGranted, Crash
<1>3. InsertsAreFresh' BY DEF Crash, Asleep, InsertsAreFresh
<1>4. QED BY <1>1, <1>2, <1>3

LEMMA GrantNext == GrantInv /\ [Next]_vars => GrantInv'
<1> SUFFICES ASSUME GrantInv, [Next]_vars PROVE GrantInv'
  OBVIOUS
<1>1. TypeOK' BY NextTypes DEF GrantInv
<1>2. CASE PMStep /\ UNCHANGED <<rows, approvalVars, pollVars>>
  BY <1>1, <1>2, GrantPM DEF GrantInv
<1>3. CASE (\E t \in Threads : Click(t) \/ HandlerStep(t)) /\ UNCHANGED pollVars
  BY <1>1, <1>3, GrantClick, GrantHandlerStep DEF GrantInv
<1>4. CASE (PollStep \/ HourTick) /\ UNCHANGED approvalVars
  BY <1>1, <1>4, GrantPoll DEF GrantInv
<1>5. CASE Crash
  BY <1>1, <1>5, GrantCrash DEF GrantInv
<1>6. CASE UNCHANGED vars
  BY <1>6 DEF vars, GrantInv, TypeOK, PMTypeOK, CopiesAgree, Agrees, SignalKey,
              SentWasGranted, InsertsAreFresh
<1>7. QED BY <1>2, <1>3, <1>4, <1>5, <1>6 DEF Next

\* The copy of a row that a handler carries across its waits always names that
\* row's asset, transition and signal, and no open is ever in flight under a
\* key that no click granted (approval.py:69-225).
THEOREM GrantsHold == Spec => []GrantInv
BY GrantInit, GrantNext, PTL DEF Spec

-----------------------------------------------------------------------------
(* The refinement: every step is a Propose, a Grant, an Open or a stutter  *)

Proposed == {SignalKey(i) : i \in DOMAIN rows}
Opened == [i \in DOMAIN arbs |-> arbs[i].key]

LEMMA KeepsProposed == ASSUME RowsKeep PROVE Proposed' = Proposed
BY DEF RowsKeep, RowsGrow, Proposed, SignalKey

LEMMA AppendProposes ==
    ASSUME rows \in Seq(Row), NEW row \in Row, rows' = Append(rows, row),
           row.key.retry = 0
    PROVE  Proposed' = Proposed \cup {row.key}
<1>1. /\ DOMAIN rows' = DOMAIN rows \cup {Len(rows) + 1}
      /\ rows'[Len(rows) + 1] = row
      /\ \A i \in DOMAIN rows : rows'[i] = rows[i]
  BY AppendGrows
<1>2. row.key \in Key BY DEF Row
<1>3. Stripped(row.key) = row.key BY <1>2 DEF Stripped, Key
<1>4. Proposed' = {Stripped(rows'[i].key) : i \in DOMAIN rows'}
  BY DEF Proposed, SignalKey
<1>5. Proposed = {Stripped(rows[i].key) : i \in DOMAIN rows}
  BY DEF Proposed, SignalKey
<1>6. QED BY <1>1, <1>3, <1>4, <1>5

LEMMA AppendOpens ==
    ASSUME arbs \in Seq(Arb), NEW arb \in Arb, arbs' = Append(arbs, arb)
    PROVE  Opened' = Append(Opened, arb.key)
<1>1. /\ DOMAIN arbs = 1 .. Len(arbs) /\ Len(arbs) \in Nat
      /\ DOMAIN arbs' = 1 .. Len(arbs) + 1
      /\ \A i \in 1 .. Len(arbs) : arbs'[i] = arbs[i]
      /\ arbs'[Len(arbs) + 1] = arb
  OBVIOUS
<1>2. \A i \in DOMAIN arbs : arbs[i].key \in Key
  <2>1. \A i \in DOMAIN arbs : arbs[i] \in Arb  OBVIOUS
  <2>2. QED BY <2>1 DEF Arb
<1>3. Opened \in Seq(Key) /\ Len(Opened) = Len(arbs)
  BY <1>1, <1>2 DEF Opened
<1>4. arb.key \in Key BY DEF Arb
<1>5. /\ Append(Opened, arb.key) \in Seq(Key)
      /\ DOMAIN Append(Opened, arb.key) = 1 .. Len(arbs) + 1
      /\ \A i \in 1 .. Len(arbs) : Append(Opened, arb.key)[i] = Opened[i]
      /\ Append(Opened, arb.key)[Len(arbs) + 1] = arb.key
  BY <1>1, <1>3, <1>4
<1>6. \A i \in 1 .. Len(arbs) + 1 : Opened'[i] = Append(Opened, arb.key)[i]
  BY <1>1, <1>5 DEF Opened
<1>7. /\ Opened' = [i \in 1 .. Len(arbs) + 1 |-> Opened'[i]]
      /\ Append(Opened, arb.key)
           = [i \in 1 .. Len(arbs) + 1 |-> Append(Opened, arb.key)[i]]
  BY <1>1, <1>5 DEF Opened
<1>8. QED BY <1>6, <1>7

\* A PM step opens one granted, unused key, or opens nothing.
LEMMA PMOpens ==
    ASSUME GrantInv, PMStep
    PROVE  \/ Opened' = Opened
           \/ \E key \in granted :
                 /\ \A i \in DOMAIN Opened : Opened[i] # key
                 /\ Opened' = Append(Opened, key)
<1>a. arbs \in Seq(Arb) /\ SentWasGranted
  BY DEF GrantInv, TypeOK, PMTypeOK
<1>b. ASSUME NEW i \in DOMAIN arbs, NEW status,
             arbs' = [arbs EXCEPT ![i].status = status]
      PROVE  Opened' = Opened
  <2>1. \A j \in DOMAIN arbs : arbs[j] \in Arb BY <1>a
  <2>2. \A j \in DOMAIN arbs :
           arbs'[j] = IF j = i THEN [arbs[j] EXCEPT !.status = status]
                      ELSE arbs[j]
    BY <1>b
  <2>3. \A j \in DOMAIN arbs : arbs'[j].key = arbs[j].key
    BY <2>1, <2>2 DEF Arb
  <2>4. DOMAIN arbs' = DOMAIN arbs BY <1>b
  <2>5. QED BY <2>3, <2>4 DEF Opened
<1>1. ASSUME NEW r \in requests, AcceptOpen(r)
      PROVE  \E key \in granted :
                /\ \A i \in DOMAIN Opened : Opened[i] # key
                /\ Opened' = Append(Opened, key)
  <2> DEFINE arb == [asset |-> r.asset, key |-> r.key, status |-> "opening"]
  <2>1. r \in OpenRequest
    BY <1>1 DEF AcceptOpen, GrantInv, TypeOK, PMTypeOK, OpenRequest,
                CloseRequest
  <2>2. arb \in Arb BY <2>1 DEF OpenRequest, Arb, ArbStatuses
  <2>3. arbs' = Append(arbs, arb) BY <1>1 DEF AcceptOpen
  <2>4. Opened' = Append(Opened, r.key)
    BY <1>a, <2>2, <2>3, AppendOpens
  <2>5. r.key \in granted BY <1>1, <1>a DEF AcceptOpen, SentWasGranted
  <2>6. \A i \in DOMAIN Opened : Opened[i] # r.key
    BY <1>1 DEF AcceptOpen, Opened
  <2>7. QED BY <2>4, <2>5, <2>6
<1>2. ASSUME NEW r \in requests, AcceptClose(r)
      PROVE  Opened' = Opened
  BY <1>2, <1>b DEF AcceptClose
<1>3. ASSUME NEW r \in requests,
             DuplicateOpen(r) \/ ConflictOpen(r) \/ RepeatClose(r) \/ Refuse(r)
      PROVE  Opened' = Opened
  BY <1>3 DEF DuplicateOpen, ConflictOpen, RepeatClose, Refuse, Opened
<1>4. ASSUME NEW t \in Threads, GiveUp(t)
      PROVE  Opened' = Opened
  BY <1>4 DEF GiveUp, Opened
<1>5. ASSUME NEW i \in DOMAIN arbs, Settle(i)
      PROVE  Opened' = Opened
  BY <1>5, <1>b DEF Settle
<1>6. QED BY <1>1, <1>2, <1>3, <1>4, <1>5 DEF PMStep

LEMMA PromiseInit == Init => Promise!Init
<1> SUFFICES ASSUME Init PROVE Promise!Init
  OBVIOUS
<1>1. rows = << >> /\ arbs = << >> /\ granted = {}
  BY DEF Init, PMInit, ApprovalInit
<1>2. {SignalKey(i) : i \in DOMAIN rows} = {} BY <1>1
<1>3. [i \in DOMAIN arbs |-> arbs[i].key] = << >> BY <1>1
<1>4. QED BY <1>1, <1>2, <1>3 DEF Promise!Init

LEMMA PromiseNext ==
    ASSUME GrantInv, [Next]_vars
    PROVE  [Promise!Next]_(Promise!vars)
<1> USE DEF Promise!Next, Promise!vars, Promise!Propose, Promise!Grant,
            Promise!Open
<1>1. CASE PMStep /\ UNCHANGED <<rows, approvalVars, pollVars>>
  <2>1. Proposed' = Proposed /\ granted' = granted
    BY <1>1, SameKeeps, KeepsProposed DEF approvalVars
  <2>2. CASE Opened' = Opened
    BY <2>1, <2>2 DEF Proposed, Opened
  <2>3. ASSUME NEW key \in granted,
               \A i \in DOMAIN Opened : Opened[i] # key,
               Opened' = Append(Opened, key)
        PROVE  Promise!Next
    <3>1. Promise!Open(key) BY <2>1, <2>3 DEF Proposed, Opened
    <3>2. QED BY <3>1
  <2>4. QED BY <1>1, <2>2, <2>3, PMOpens
<1>2. CASE (\E t \in Threads : Click(t) \/ HandlerStep(t)) /\ UNCHANGED pollVars
  <2>1. PICK t \in Threads : Click(t) \/ HandlerStep(t) BY <1>2
  <2>2. /\ Proposed' = Proposed /\ Opened' = Opened
        /\ \/ granted' = granted
           \/ \E key : /\ [key EXCEPT !.retry = 0] \in Proposed
                       /\ granted' = granted \cup {key}
    <3>1. CASE Click(t)
      <4>1. PICK id \in DOMAIN rows :
               ApproveLoad(t, id) \/ RejectLoad(t, id) \/ RetryLoad(t, id)
        BY <3>1 DEF Click
      <4>2. rows' = rows /\ arbs' = arbs
        BY <4>1 DEF ApproveLoad, RejectLoad, RetryLoad, pmVars
      <4>3. Proposed' = Proposed /\ Opened' = Opened
        BY <4>2, SameKeeps, KeepsProposed DEF Opened
      <4>4. granted' = granted \/ granted' = granted \cup {rows[id].key}
        BY <4>1 DEF ApproveLoad, RejectLoad, RetryLoad
      <4>5. [rows[id].key EXCEPT !.retry = 0] \in Proposed
        BY DEF Proposed, SignalKey, Stripped
      <4>6. QED BY <4>3, <4>4, <4>5
    <3>2. CASE HandlerStep(t)
      <4>1. HandlerEffect(t) BY <3>2, HandlerEffects
      <4>2. arbs' = arbs
        BY <3>2 DEF HandlerStep, ApproveOpen, ApproveClose, ApproveFired,
                    ApproveFailed, RejectCommit, RetryCheck, RetryCleared,
                    RetryReopen, RetryFired, RetryFailed, AnswerUnreadable,
                    PositionsUnreadable, pmVars
      <4>3. Proposed' = Proposed BY <4>1, KeepsProposed DEF HandlerEffect
      <4>4. \A i \in DOMAIN rows : SignalKey(i) \in Proposed BY DEF Proposed
      <4>5. QED BY <4>1, <4>2, <4>3, <4>4 DEF HandlerEffect, Opened
    <3>3. QED BY <2>1, <3>1, <3>2
  <2>3. CASE granted' = granted
    BY <2>2, <2>3 DEF Proposed, Opened
  <2>4. ASSUME NEW key, [key EXCEPT !.retry = 0] \in Proposed,
               granted' = granted \cup {key}
        PROVE  Promise!Next
    <3>1. Promise!Grant(key) BY <2>2, <2>4 DEF Proposed, Opened
    <3>2. key \in granted' BY <2>4
    <3>3. QED BY <3>1, <3>2
  <2>5. QED BY <2>2, <2>3, <2>4
<1>3. CASE (PollStep \/ HourTick) /\ UNCHANGED approvalVars
  <2>1. Opened' = Opened /\ granted' = granted
    BY <1>3, PollEffects DEF Opened, approvalVars
  <2>2. CASE RowsKeep
    <3>1. Proposed' = Proposed BY <2>2, KeepsProposed
    <3>2. QED BY <2>1, <3>1 DEF Proposed, Opened
  <2>3. CASE /\ poll.new \in Row /\ poll.new.key.retry = 0
             /\ rows' = Append(rows, poll.new)
    <3>1. Proposed' = Proposed \cup {poll.new.key}
      BY <2>3, AppendProposes DEF GrantInv, TypeOK
    <3>2. Promise!Propose(poll.new.key)
      BY <2>1, <2>3, <3>1 DEF Proposed, Opened
    <3>3. poll.new.key \in Proposed' BY <3>1
    <3>4. QED BY <3>2, <3>3 DEF Proposed
  <2>4. QED BY <1>3, <2>2, <2>3, PollEffects
<1>4. CASE Crash
  <2>1. Proposed' = Proposed
    BY <1>4, SameKeeps, KeepsProposed DEF Crash
  <2>2. QED BY <1>4, <2>1 DEF Crash, Proposed
<1>5. CASE UNCHANGED vars
  <2>1. Proposed' = Proposed
    BY <1>5, SameKeeps, KeepsProposed DEF vars
  <2>2. QED BY <1>5, <2>1 DEF vars, Proposed
<1>6. QED BY <1>1, <1>2, <1>3, <1>4, <1>5 DEF Next

\* The service keeps its promise (poller.py:16-18, approval.py:3-13): no order
\* without a grant, no grant without a recorded signal, one order per grant,
\* whatever is clicked, timed out, answered late or crashed.
THEOREM ImplementsApproveToFire == Spec => ApproveToFire
<1>1. GrantInv /\ [Next]_vars => [Promise!Next]_(Promise!vars)
  BY PromiseNext
<1>2. QED BY <1>1, PromiseInit, GrantsHold, PTL
          DEF Spec, ApproveToFire, Promise!Spec
=============================================================================
