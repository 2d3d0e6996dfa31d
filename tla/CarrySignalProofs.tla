------------------------- MODULE CarrySignalProofs -------------------------
(***************************************************************************)
(* Theorems about CarrySignal for every set of assets and threads, every   *)
(* choice of faults and every value of the bounds.                         *)
(***************************************************************************)
EXTENDS CarrySignal, TLAPS

-----------------------------------------------------------------------------
(* Types: the values that the operators of the model return                *)

LEMMA KeyTypes ==
    /\ \A h \in Nat, a \in Assets, k \in Kinds : IdempotencyKey(h, a, k) \in Key
    /\ \A key \in Key : Stripped(key) \in Key
    /\ \A key \in Key, n \in Nat : RetryKey(key, n) \in Key
BY DEF Key, Kinds, IdempotencyKey, Stripped, RetryKey

LEMMA SeenArbType ==
    ASSUME PMTypeOK, NEW asset \in Assets, NEW up \in BOOLEAN
    PROVE  SeenArb(asset, up) \in Nat
<1>1. LiveArbs(asset) \subseteq DOMAIN arbs BY DEF LiveArbs
<1>2. DOMAIN arbs \subseteq Nat BY DEF PMTypeOK
<1>3. QED BY <1>1, <1>2 DEF SeenArb, NoArb

LEMMA ArbIdForCloseType ==
    ASSUME rows \in Seq(Row), NEW seen \in Nat, NEW asset \in Assets
    PROVE  ArbIdForClose(seen, asset) \in Nat
<1>1. \A i \in DOMAIN rows : rows[i].arb \in Nat
  <2>1. \A i \in DOMAIN rows : rows[i] \in Row  OBVIOUS
  <2>2. QED BY <2>1 DEF Row
<1>2. OpensWithArb(asset) \subseteq DOMAIN rows
  BY DEF OpensWithArb
<1>3. LastOpenArb(asset) \subseteq Nat
  BY <1>1, <1>2, Zenon DEF LastOpenArb
<1>4. QED BY <1>3 DEF ArbIdForClose, NoArb

LEMMA FaultType == ASSUME faults \in Nat, NEW kind, Fault(kind) PROVE faults' \in Nat
BY DEF Fault

LEMMA ReadType ==
    ASSUME faults \in Nat, NEW up \in BOOLEAN, ReadPositions(up)
    PROVE  faults' \in Nat
BY FaultType DEF ReadPositions

\* Every answer of the PM removes one request and fills one mailbox.
LEMMA AnswerType ==
    ASSUME PMTypeOK, NEW r \in requests, NEW code \in Codes, NEW arb \in Nat,
           Answer(r, code, arb)
    PROVE  /\ requests' \subseteq OpenRequest \cup CloseRequest
           /\ replies' \in [Threads -> Reply]
BY DEF PMTypeOK, Answer, Reply

LEMMA SucceedType ==
    ASSUME PMTypeOK, NEW r \in requests, NEW arb \in Nat, Succeed(r, arb)
    PROVE  /\ requests' \subseteq OpenRequest \cup CloseRequest
           /\ replies' \in [Threads -> Reply]
           /\ faults' \in Nat
<1>1. CASE Answer(r, "ok", arb) /\ UNCHANGED faults
  BY <1>1, AnswerType DEF Codes, PMTypeOK
<1>2. CASE Fault("garble") /\ Answer(r, "garbled", NoArb)
  BY <1>2, AnswerType, FaultType DEF Codes, PMTypeOK, NoArb
<1>3. QED BY <1>1, <1>2 DEF Succeed

LEMMA JobType ==
    ASSUME TypeOK, NEW t \in Threads, threads[t].pc # "idle"
    PROVE  /\ threads[t] \in Job
           /\ threads[t].id \in Nat
           /\ threads[t].sig \in Row
<1>1. threads[t] \in Job BY DEF TypeOK, Idle
<1>2. QED BY <1>1 DEF Job

LEMMA SeqWrite ==
    ASSUME NEW S, NEW s \in Seq(S), NEW i \in DOMAIN s, NEW e \in S
    PROVE  [s EXCEPT ![i] = e] \in Seq(S)
OBVIOUS

\* Writing the fields of one row keeps the table a table; an id that is not in
\* the table changes nothing.
LEMMA RowWrite ==
    ASSUME rows \in Seq(Row), NEW id, NEW status \in Statuses,
           NEW key \in Key, NEW arb \in Nat
    PROVE  /\ [rows EXCEPT ![id].status = status] \in Seq(Row)
           /\ [rows EXCEPT ![id].status = status, ![id].arb = arb] \in Seq(Row)
           /\ [rows EXCEPT ![id].status = status, ![id].key = key,
                           ![id].arb = arb] \in Seq(Row)
<1> DEFINE r1 == [rows[id] EXCEPT !.status = status]
           r2 == [rows[id] EXCEPT !.status = status, !.arb = arb]
           r3 == [rows[id] EXCEPT !.status = status, !.key = key, !.arb = arb]
<1>1. CASE id \in DOMAIN rows
  <2>1. rows[id] \in Row BY <1>1
  <2>2. r1 \in Row /\ r2 \in Row /\ r3 \in Row
    BY <2>1 DEF Row
  <2>3. /\ [rows EXCEPT ![id] = r1] \in Seq(Row)
        /\ [rows EXCEPT ![id] = r2] \in Seq(Row)
        /\ [rows EXCEPT ![id] = r3] \in Seq(Row)
    <3> HIDE DEF r1, r2, r3
    <3> QED BY <1>1, <2>2, SeqWrite
  <2>4. /\ [rows EXCEPT ![id].status = status] = [rows EXCEPT ![id] = r1]
        /\ [rows EXCEPT ![id].status = status, ![id].arb = arb]
             = [rows EXCEPT ![id] = r2]
        /\ [rows EXCEPT ![id].status = status, ![id].key = key, ![id].arb = arb]
             = [rows EXCEPT ![id] = r3]
    BY <1>1
  <2>5. QED BY <2>3, <2>4
<1>2. CASE id \notin DOMAIN rows
  <2>1. /\ [rows EXCEPT ![id].status = status] = rows
        /\ [rows EXCEPT ![id].status = status, ![id].arb = arb] = rows
        /\ [rows EXCEPT ![id].status = status, ![id].key = key,
                        ![id].arb = arb] = rows
    BY <1>2
  <2>2. QED BY <2>1
<1>3. QED BY <1>1, <1>2

LEMMA StatusWrite ==
    ASSUME rows \in Seq(Row), NEW id, NEW status \in Statuses
    PROVE  [rows EXCEPT ![id].status = status] \in Seq(Row)
<1>1. CASE id \in DOMAIN rows
  <2>1. rows[id] \in Row BY <1>1
  <2>2. rows[id].key \in Key /\ rows[id].arb \in Nat BY <2>1 DEF Row
  <2>3. QED BY <2>2, RowWrite
<1>2. CASE id \notin DOMAIN rows
  <2>1. [rows EXCEPT ![id].status = status] = rows BY <1>2
  <2>2. QED BY <2>1
<1>3. QED BY <1>1, <1>2

-----------------------------------------------------------------------------
(* Types: one lemma for the steps of each component                        *)

LEMMA PMStepTypes ==
    ASSUME TypeOK, PMStep
    PROVE  PMTypeOK'
<1> USE DEF PMTypeOK, Codes
<1>a. PMTypeOK BY DEF TypeOK
<1>b. ASSUME NEW r \in requests, r.op = "open"
      PROVE  r \in OpenRequest /\ r.asset \in Assets /\ r.key \in Key
  BY <1>a, <1>b DEF OpenRequest, CloseRequest
<1>c. ASSUME NEW r \in requests, r.op = "close"
      PROVE  r \in CloseRequest /\ r.arb \in Nat
  BY <1>a, <1>c DEF OpenRequest, CloseRequest
<1>1. ASSUME NEW r \in requests, AcceptOpen(r)
      PROVE  PMTypeOK'
  <2>1. arbs' \in Seq(Arb)
    <3>1. [asset |-> r.asset, key |-> r.key, status |-> "opening"] \in Arb
      BY <1>1, <1>b DEF AcceptOpen, Arb, ArbStatuses
    <3>2. QED BY <3>1, <1>1, <1>a DEF AcceptOpen
  <2>2. Len(arbs) + 1 \in Nat BY <1>a
  <2>3. QED BY <1>1, <1>a, <2>1, <2>2, SucceedType DEF AcceptOpen
<1>2. ASSUME NEW r \in requests, DuplicateOpen(r)
      PROVE  PMTypeOK'
  <2>1. DOMAIN arbs \subseteq Nat BY <1>a
  <2>2. QED BY <1>2, <1>a, <2>1, SucceedType DEF DuplicateOpen
<1>3. ASSUME NEW r \in requests, ConflictOpen(r)
      PROVE  PMTypeOK'
  BY <1>3, <1>a, AnswerType DEF ConflictOpen, NoArb
<1>4. ASSUME NEW r \in requests, AcceptClose(r)
      PROVE  PMTypeOK'
  <2>1. arbs' \in Seq(Arb)
    <3>1. arbs[r.arb] \in Arb /\ r.arb \in DOMAIN arbs
      BY <1>4, <1>a DEF AcceptClose
    <3>2. [arbs[r.arb] EXCEPT !.status = "closing"] \in Arb
      BY <3>1 DEF Arb, ArbStatuses
    <3>3. QED BY <1>4, <1>a, <3>1, <3>2, SeqWrite DEF AcceptClose
  <2>2. QED BY <1>4, <1>a, <1>c, <2>1, SucceedType DEF AcceptClose
<1>5. ASSUME NEW r \in requests, RepeatClose(r)
      PROVE  PMTypeOK'
  BY <1>5, <1>a, <1>c, SucceedType, AnswerType DEF RepeatClose, NoArb
<1>6. ASSUME NEW r \in requests, Refuse(r)
      PROVE  PMTypeOK'
  BY <1>6, <1>a, AnswerType, FaultType DEF Refuse, Unreadable, NoArb
<1>7. ASSUME NEW t \in Threads, GiveUp(t)
      PROVE  PMTypeOK'
  <2>1. PICK r \in requests :
           \/ requests' = requests \ {r}
           \/ requests' = (requests \ {r}) \cup {[r EXCEPT !.to = Nobody]}
    BY <1>7 DEF GiveUp
  <2>2. [r EXCEPT !.to = Nobody] \in OpenRequest \cup CloseRequest
    BY <1>a DEF OpenRequest, CloseRequest, Callers
  <2>3. requests' \subseteq OpenRequest \cup CloseRequest
    BY <1>a, <2>1, <2>2
  <2>4. QED BY <1>7, <1>a, <2>3, FaultType DEF GiveUp, Reply, NoArb
<1>8. ASSUME NEW i \in DOMAIN arbs, Settle(i)
      PROVE  PMTypeOK'
  <2>1. PICK outcome \in {"open", "closed", "error"} :
           arbs' = [arbs EXCEPT ![i].status = outcome]
    BY <1>8 DEF Settle
  <2>2. arbs[i] \in Arb BY <1>a
  <2>3. [arbs[i] EXCEPT !.status = outcome] \in Arb
    BY <2>2 DEF Arb, ArbStatuses
  <2>4. arbs' \in Seq(Arb) BY <1>a, <2>1, <2>3
  <2>5. QED BY <1>8, <1>a, <2>4 DEF Settle
<1>9. QED BY <1>1, <1>2, <1>3, <1>4, <1>5, <1>6, <1>7, <1>8 DEF PMStep

LEMMA SendType ==
    ASSUME PMTypeOK, NEW t \in Threads
    PROVE  /\ \A asset \in Assets, key \in Key : SendOpen(t, asset, key) =>
                 requests' \subseteq OpenRequest \cup CloseRequest
           /\ \A arb \in Nat : SendClose(t, arb) =>
                 requests' \subseteq OpenRequest \cup CloseRequest
BY DEF PMTypeOK, SendOpen, SendClose, OpenRequest, CloseRequest, Callers

LEMMA TakeReplyType ==
    ASSUME PMTypeOK, NEW t \in Threads, TakeReply(t)
    PROVE  replies' \in [Threads -> Reply]
BY DEF PMTypeOK, TakeReply, NoReply, NoArb, Reply, Codes

\* How a handler moves: it loads a row, goes on, or ends.
LEMMA ThreadMoves ==
    ASSUME TypeOK, NEW t \in Threads
    PROVE  /\ \A pc \in Pcs, id \in DOMAIN rows : Load(t, pc, id) =>
                 threads' \in [Threads -> Job \cup {Idle}]
           /\ \A pc \in Pcs : threads[t].pc # "idle" /\ Goto(t, pc) =>
                 threads' \in [Threads -> Job \cup {Idle}]
           /\ Finish(t) => threads' \in [Threads -> Job \cup {Idle}]
<1>0. threads \in [Threads -> Job \cup {Idle}] BY DEF TypeOK
<1>1. ASSUME NEW pc \in Pcs, NEW id \in DOMAIN rows, Load(t, pc, id)
      PROVE  threads' \in [Threads -> Job \cup {Idle}]
  <2>1. rows[id] \in Row /\ id \in Nat BY DEF TypeOK
  <2>2. [pc |-> pc, id |-> id, sig |-> rows[id]] \in Job BY <2>1 DEF Job
  <2>3. QED BY <1>0, <1>1, <2>2 DEF Load
<1>2. ASSUME NEW pc \in Pcs, threads[t].pc # "idle", Goto(t, pc)
      PROVE  threads' \in [Threads -> Job \cup {Idle}]
  <2>1. threads[t] \in Job BY <1>2, JobType
  <2>2. [threads[t] EXCEPT !.pc = pc] \in Job BY <2>1 DEF Job
  <2>3. QED BY <1>0, <1>2, <2>2 DEF Goto
<1>3. ASSUME Finish(t)
      PROVE  threads' \in [Threads -> Job \cup {Idle}]
  BY <1>0, <1>3 DEF Finish
<1>4. QED BY <1>1, <1>2, <1>3

\* A handler that remembers a close target, or a fresh key.
LEMMA JobWrite ==
    ASSUME TypeOK, NEW t \in Threads, threads[t].pc # "idle", NEW pc \in Pcs,
           NEW arb \in Nat, NEW key \in Key
    PROVE  /\ [threads EXCEPT ![t].pc = pc, ![t].sig.arb = arb]
                 \in [Threads -> Job \cup {Idle}]
           /\ [threads EXCEPT ![t].pc = pc, ![t].sig.key = key]
                 \in [Threads -> Job \cup {Idle}]
<1>1. threads[t] \in Job /\ threads \in [Threads -> Job \cup {Idle}]
  BY JobType DEF TypeOK
<1>2. /\ [threads[t] EXCEPT !.pc = pc, !.sig.arb = arb] \in Job
      /\ [threads[t] EXCEPT !.pc = pc, !.sig.key = key] \in Job
  BY <1>1 DEF Job, Row
<1>3. QED BY <1>1, <1>2

LEMMA AbandonType ==
    ASSUME TypeOK, NEW T \in SUBSET Threads, Abandon(T)
    PROVE  /\ threads' \in [Threads -> Job \cup {Idle}]
           /\ unrecorded' \subseteq [id: Nat, pc: Pcs]
<1>1. threads' \in [Threads -> Job \cup {Idle}] BY DEF Abandon, TypeOK
<1>2. ASSUME NEW t \in T, threads[t].pc \in {"approve", "fire", "reject"}
      PROVE  [id |-> threads[t].id, pc |-> threads[t].pc] \in [id: Nat, pc: Pcs]
  BY <1>2, JobType DEF Pcs
<1>3. QED BY <1>1, <1>2 DEF Abandon, TypeOK

LEMMA ClickTypes ==
    ASSUME TypeOK, NEW t \in Threads, Click(t), UNCHANGED pollVars
    PROVE  TypeOK'
<1> USE DEF pollVars, pmVars
<1>1. PICK id \in DOMAIN rows :
         ApproveLoad(t, id) \/ RejectLoad(t, id) \/ RetryLoad(t, id)
  BY DEF Click
<1>2. rows[id].key \in Key
  <2>1. rows[id] \in Row BY DEF TypeOK
  <2>2. QED BY <2>1 DEF Row
<1>3. threads' \in [Threads -> Job \cup {Idle}]
  BY <1>1, ThreadMoves DEF ApproveLoad, RejectLoad, RetryLoad, Pcs
<1>4. granted' \subseteq Key /\ stamp' \in Nat /\ UNCHANGED unrecorded
  BY <1>1, <1>2 DEF ApproveLoad, RejectLoad, RetryLoad, TypeOK
<1>5. UNCHANGED <<rows, pmVars>>
  BY <1>1 DEF ApproveLoad, RejectLoad, RetryLoad
<1>6. QED BY <1>3, <1>4, <1>5 DEF TypeOK, PMTypeOK

LEMMA HandlerTypes ==
    ASSUME TypeOK, NEW t \in Threads, HandlerStep(t), UNCHANGED pollVars
    PROVE  TypeOK'
<1> USE DEF pollVars
<1>a. PMTypeOK /\ rows \in Seq(Row) BY DEF TypeOK
<1>b. ASSUME threads[t].pc # "idle"
      PROVE  /\ threads[t].sig \in Row
             /\ threads[t].sig.asset \in Assets
             /\ threads[t].sig.key \in Key
             /\ threads[t].sig.arb \in Nat
  BY <1>b, JobType DEF Row
<1>c. ASSUME NEW id, MarkError(id)
      PROVE  rows' \in Seq(Row)
  <2>1. "error" \in Statuses BY DEF Statuses
  <2>2. QED BY <1>a, <1>c, <2>1, StatusWrite DEF MarkError
<1>d. replies[t].arb \in Nat BY <1>a DEF PMTypeOK, Reply
<1>1. ASSUME ApproveOpen(t)
      PROVE  TypeOK'
  <2>1. requests' \subseteq OpenRequest \cup CloseRequest
    BY <1>1, <1>a, <1>b, SendType DEF ApproveOpen
  <2>2. threads' \in [Threads -> Job \cup {Idle}]
    BY <1>1, ThreadMoves DEF ApproveOpen, Pcs
  <2>3. QED BY <1>1, <2>1, <2>2 DEF ApproveOpen, TypeOK, PMTypeOK
<1>2. ASSUME NEW up \in BOOLEAN, ApproveClose(t, up)
      PROVE  TypeOK'
  <2> DEFINE target == CloseTarget(threads[t].sig, up)
  <2>1. threads[t].pc = "approve" BY <1>2 DEF ApproveClose
  <2>2. target \in Nat
    BY <1>a, <1>b, <2>1, SeenArbType DEF CloseTarget
  <2>3. faults' \in Nat
    BY <1>2, <1>a, ReadType DEF ApproveClose, PMTypeOK
  <2>4. CASE target = NoArb
    <3>1. rows' \in Seq(Row) BY <1>2, <1>c, <2>4 DEF ApproveClose
    <3>2. threads' \in [Threads -> Job \cup {Idle}]
      BY <1>2, <2>4, ThreadMoves DEF ApproveClose
    <3>3. QED BY <1>2, <2>3, <2>4, <3>1, <3>2
              DEF ApproveClose, TypeOK, PMTypeOK
  <2>5. CASE target # NoArb
    <3>1. requests' \subseteq OpenRequest \cup CloseRequest
      BY <1>2, <1>a, <2>2, <2>5, SendType DEF ApproveClose
    <3>2. threads' = [threads EXCEPT ![t].pc = "fire", ![t].sig.arb = target]
      BY <1>2, <2>5 DEF ApproveClose
    <3>3. threads' \in [Threads -> Job \cup {Idle}]
      <4> HIDE DEF target
      <4>1. "fire" \in Pcs BY DEF Pcs
      <4>2. QED BY <1>b, <2>1, <2>2, <3>2, <4>1, JobWrite
    <3>4. QED BY <1>2, <2>3, <2>5, <3>1, <3>3
              DEF ApproveClose, TypeOK, PMTypeOK
  <2>6. QED BY <2>4, <2>5
<1>3. ASSUME ApproveFired(t)
      PROVE  TypeOK'
  <2> DEFINE arb == IF threads[t].sig.kind = "OPEN" THEN replies[t].arb
                    ELSE threads[t].sig.arb
  <2>1. arb \in Nat BY <1>3, <1>b, <1>d DEF ApproveFired
  <2>2. rows' = [rows EXCEPT ![threads[t].id].status = "fired",
                             ![threads[t].id].arb = arb]
    BY <1>3 DEF ApproveFired
  <2>3. rows' \in Seq(Row)
    <3> HIDE DEF arb
    <3>1. "fired" \in Statuses BY DEF Statuses
    <3>2. threads[t].sig.key \in Key BY <1>3, <1>b DEF ApproveFired
    <3>3. QED BY <1>a, <2>1, <2>2, <3>1, <3>2, RowWrite
  <2>4. threads' \in [Threads -> Job \cup {Idle}]
    BY <1>3, ThreadMoves DEF ApproveFired
  <2>5. replies' \in [Threads -> Reply]
    BY <1>3, <1>a, TakeReplyType DEF ApproveFired
  <2>6. QED BY <1>3, <2>3, <2>4, <2>5 DEF ApproveFired, TypeOK, PMTypeOK
<1>4. ASSUME ApproveFailed(t)
      PROVE  TypeOK'
  <2>1. rows' \in Seq(Row) BY <1>4, <1>c DEF ApproveFailed
  <2>2. replies' \in [Threads -> Reply]
    BY <1>4, <1>a, TakeReplyType DEF ApproveFailed
  <2>3. threads' \in [Threads -> Job \cup {Idle}]
    BY <1>4, ThreadMoves DEF ApproveFailed
  <2>4. QED BY <1>4, <2>1, <2>2, <2>3 DEF ApproveFailed, TypeOK, PMTypeOK
<1>5. ASSUME AnswerUnreadable(t)
      PROVE  TypeOK'
  <2>1. replies' \in [Threads -> Reply]
    BY <1>5, <1>a, TakeReplyType DEF AnswerUnreadable
  <2>2. Abandon({t}) BY <1>5 DEF AnswerUnreadable
  <2>3. QED BY <1>5, <2>1, <2>2, AbandonType
            DEF AnswerUnreadable, TypeOK, PMTypeOK
<1>6. ASSUME RejectCommit(t)
      PROVE  TypeOK'
  <2>1. rows' = [rows EXCEPT ![threads[t].id].status = "rejected"]
    BY <1>6 DEF RejectCommit
  <2>2. rows' \in Seq(Row)
    <3>1. "rejected" \in Statuses BY DEF Statuses
    <3>2. threads[t].sig.key \in Key /\ threads[t].sig.arb \in Nat
      BY <1>6, <1>b DEF RejectCommit
    <3>3. QED BY <1>a, <2>1, <3>1, <3>2, RowWrite
  <2>3. threads' \in [Threads -> Job \cup {Idle}]
    BY <1>6, ThreadMoves DEF RejectCommit
  <2>4. QED BY <1>6, <2>2, <2>3 DEF RejectCommit, TypeOK, PMTypeOK, pmVars
<1>7. ASSUME NEW up \in BOOLEAN, RetryCheck(t, up)
      PROVE  TypeOK'
  <2> DEFINE cur == SeenArb(threads[t].sig.asset, up)
             target == IF cur # NoArb THEN cur ELSE threads[t].sig.arb
  <2>1. threads[t].pc = "retry" BY <1>7 DEF RetryCheck
  <2>2. target \in Nat BY <1>a, <1>b, <2>1, SeenArbType
  <2>3. faults' \in Nat
    BY <1>7, <1>a, ReadType DEF RetryCheck, PMTypeOK
  <2>4. /\ requests' \subseteq OpenRequest \cup CloseRequest
        /\ threads' \in [Threads -> Job \cup {Idle}]
    <3>1. CASE cur # NoArb /\ arbs[cur].status \in Healthy
      BY <1>7, <1>a, <3>1, ThreadMoves DEF RetryCheck, PMTypeOK
    <3>2. CASE /\ ~(cur # NoArb /\ arbs[cur].status \in Healthy)
               /\ target = NoArb
      <4>1. Goto(t, "wait") /\ UNCHANGED requests
        BY <1>7, <3>2 DEF RetryCheck
      <4>2. QED BY <4>1, <1>a, <2>1, ThreadMoves DEF PMTypeOK, Pcs
    <3>3. CASE /\ ~(cur # NoArb /\ arbs[cur].status \in Healthy)
               /\ target # NoArb
      <4>1. /\ SendClose(t, target)
            /\ threads' = [threads EXCEPT ![t].pc = "clear",
                                          ![t].sig.arb = target]
        BY <1>7, <3>3 DEF RetryCheck
      <4>2. requests' \subseteq OpenRequest \cup CloseRequest
        BY <4>1, <1>a, <2>2, SendType
      <4>3. threads' \in [Threads -> Job \cup {Idle}]
        <5> HIDE DEF target
        <5>1. "clear" \in Pcs BY DEF Pcs
        <5>2. QED BY <1>b, <2>1, <2>2, <4>1, <5>1, JobWrite
      <4>4. QED BY <4>2, <4>3
    <3>4. QED BY <3>1, <3>2, <3>3
  <2>5. QED BY <1>7, <2>3, <2>4 DEF RetryCheck, TypeOK, PMTypeOK
<1>8. ASSUME RetryCleared(t)
      PROVE  TypeOK'
  <2>1. replies' \in [Threads -> Reply]
    BY <1>8, <1>a, TakeReplyType DEF RetryCleared
  <2>2. threads' \in [Threads -> Job \cup {Idle}]
    BY <1>8, ThreadMoves DEF RetryCleared, Pcs
  <2>3. QED BY <1>8, <2>1, <2>2 DEF RetryCleared, TypeOK, PMTypeOK
<1>9. ASSUME RetryReopen(t)
      PROVE  TypeOK'
  <2> DEFINE key == RetryKey(threads[t].sig.key, stamp + 1)
  <2>1. stamp + 1 \in Nat BY DEF TypeOK
  <2>2. threads[t].pc = "wait" BY <1>9 DEF RetryReopen
  <2>3. key \in Key BY <1>b, <2>1, <2>2, KeyTypes
  <2>4. requests' \subseteq OpenRequest \cup CloseRequest
    BY <1>9, <1>a, <1>b, <2>3, SendType DEF RetryReopen
  <2>5. threads' = [threads EXCEPT ![t].pc = "reopen", ![t].sig.key = key]
    BY <1>9 DEF RetryReopen
  <2>6. threads' \in [Threads -> Job \cup {Idle}]
    <3> HIDE DEF key
    <3>1. "reopen" \in Pcs BY DEF Pcs
    <3>2. threads[t].sig.arb \in Nat BY <1>b, <2>2
    <3>3. QED BY <2>2, <2>3, <2>5, <3>1, <3>2, JobWrite
  <2>7. stamp' \in Nat /\ granted' \subseteq Key
    BY <1>9, <2>1, <2>3 DEF RetryReopen, TypeOK
  <2>8. QED BY <1>9, <2>4, <2>6, <2>7 DEF RetryReopen, TypeOK, PMTypeOK
<1>10. ASSUME RetryFired(t)
       PROVE  TypeOK'
  <2>1. threads[t].sig.key \in Key BY <1>10, <1>b DEF RetryFired
  <2>2. rows' \in Seq(Row)
    <3>1. "fired" \in Statuses BY DEF Statuses
    <3>2. QED BY <1>10, <1>a, <1>d, <2>1, <3>1, RowWrite DEF RetryFired
  <2>3. replies' \in [Threads -> Reply]
    BY <1>10, <1>a, TakeReplyType DEF RetryFired
  <2>4. threads' \in [Threads -> Job \cup {Idle}]
    BY <1>10, ThreadMoves DEF RetryFired
  <2>5. QED BY <1>10, <2>2, <2>3, <2>4 DEF RetryFired, TypeOK, PMTypeOK
<1>11. ASSUME RetryFailed(t)
       PROVE  TypeOK'
  <2>1. rows' \in Seq(Row) BY <1>11, <1>a, <1>c DEF RetryFailed
  <2>2. replies' \in [Threads -> Reply]
    BY <1>11, <1>a, TakeReplyType DEF RetryFailed
  <2>3. threads' \in [Threads -> Job \cup {Idle}]
    BY <1>11, ThreadMoves DEF RetryFailed
  <2>4. QED BY <1>11, <2>1, <2>2, <2>3 DEF RetryFailed, TypeOK, PMTypeOK
<1>12. ASSUME PositionsUnreadable(t)
       PROVE  TypeOK'
  <2>1. Abandon({t}) BY <1>12 DEF PositionsUnreadable
  <2>2. faults' \in Nat
    BY <1>12, <1>a, FaultType DEF PositionsUnreadable, PMTypeOK
  <2>3. QED BY <1>12, <2>1, <2>2, AbandonType
            DEF PositionsUnreadable, TypeOK, PMTypeOK
<1>13. QED BY <1>1, <1>2, <1>3, <1>4, <1>5, <1>6, <1>7, <1>8, <1>9, <1>10,
              <1>11, <1>12 DEF HandlerStep

LEMMA PollTypes ==
    ASSUME TypeOK, PollStep \/ HourTick, UNCHANGED approvalVars
    PROVE  TypeOK'
<1> USE DEF approvalVars, pmVars
<1>a. PMTypeOK /\ rows \in Seq(Row) /\ hour \in Nat BY DEF TypeOK
<1>1. ASSUME NEW up \in BOOLEAN, PollStart(up)
      PROVE  TypeOK'
  <2>1. [a \in Assets |-> SeenArb(a, up)] \in SeenArbs
    BY <1>a, SeenArbType DEF SeenArbs
  <2>2. poll' \in Scan BY <1>1, <1>a, <2>1 DEF PollStart, Scan
  <2>3. faults' \in Nat
    BY <1>1, <1>a, ReadType DEF PollStart, PMTypeOK
  <2>4. QED BY <1>1, <2>2, <2>3 DEF PollStart, TypeOK, PMTypeOK
<1>b. ASSUME NEW asset, poll.pc \in {"scan", "insert"}
      PROVE  Rest(asset) \in Scan \cup {Asleep}
  <2>1. poll \in Scan \cup Insert BY <1>b DEF TypeOK, Asleep
  <2>2. poll.now \in Nat /\ poll.seen \in SeenArbs /\ poll.todo \subseteq Assets
    BY <2>1 DEF Scan, Insert
  <2>3. QED BY <2>2 DEF Rest, Scan
<1>2. ASSUME NEW asset \in Assets, NEW avg \in Averages, NEW spot \in BOOLEAN,
             PollDecide(asset, avg, spot)
      PROVE  TypeOK'
  <2> DEFINE kind == Decide(DeriveState(poll.seen[asset], asset), avg, spot)
             arb == IF kind = "CLOSE"
                    THEN ArbIdForClose(poll.seen[asset], asset) ELSE NoArb
  <2>1. poll.pc = "scan" BY <1>2 DEF PollDecide
  <2>2. poll \in Scan BY <2>1 DEF TypeOK, Insert, Asleep
  <2>3. /\ poll.now \in Nat /\ poll.seen \in SeenArbs
        /\ poll.todo \subseteq Assets /\ poll.seen[asset] \in Nat
    BY <2>2 DEF Scan, SeenArbs
  <2>4. kind \in Kinds \cup {"HOLD"} BY DEF Decide, Kinds
  <2>5. arb \in Nat BY <1>a, <2>3, ArbIdForCloseType DEF NoArb
  <2>6. CASE poll' = Rest(asset)
    <3>1. poll' \in Scan \cup {Asleep} BY <1>b, <2>1, <2>6
    <3>2. QED BY <1>2, <3>1 DEF PollDecide, TypeOK, PMTypeOK
  <2>7. CASE poll' # Rest(asset)
    <3>1. /\ kind # "HOLD"
          /\ poll' = [pc |-> "insert", now |-> poll.now,
                      seen |-> poll.seen, todo |-> poll.todo,
                      new |-> PendingRow(poll.now, asset, kind, arb)]
      BY <1>2, <2>7 DEF PollDecide
    <3>2. PendingRow(poll.now, asset, kind, arb) \in Row
      <4> HIDE DEF kind, arb
      <4>1. IdempotencyKey(poll.now, asset, kind) \in Key
        BY <2>3, <2>4, <3>1, KeyTypes
      <4>2. QED BY <2>4, <2>5, <3>1, <4>1 DEF PendingRow, Row, Statuses
    <3>3. poll' \in Insert
      <4> HIDE DEF kind, arb
      <4>1. QED BY <2>3, <3>1, <3>2 DEF Insert
    <3>4. QED BY <1>2, <3>3 DEF PollDecide, TypeOK, PMTypeOK
  <2>8. QED BY <2>6, <2>7
<1>3. ASSUME PollInsert
      PROVE  TypeOK'
  <2>1. poll.pc = "insert" BY <1>3 DEF PollInsert
  <2>2. poll.new \in Row BY <2>1 DEF TypeOK, Scan, Asleep, Insert
  <2>3. rows' \in Seq(Row) BY <1>3, <1>a, <2>2 DEF PollInsert
  <2>4. poll' \in Scan \cup {Asleep} BY <1>3, <1>b, <2>1 DEF PollInsert
  <2>5. QED BY <1>3, <2>3, <2>4 DEF PollInsert, TypeOK, PMTypeOK
<1>4. ASSUME HourTick
      PROVE  TypeOK'
  BY <1>4, <1>a DEF HourTick, TypeOK, PMTypeOK
<1>5. QED BY <1>1, <1>2, <1>3, <1>4 DEF PollStep, ScanStep

LEMMA CrashTypes == ASSUME TypeOK, Crash PROVE TypeOK'
<1>1. requests' \subseteq OpenRequest \cup CloseRequest
  <2>1. PICK survivors \in SUBSET requests :
           requests' = {[r EXCEPT !.to = Nobody] : r \in survivors}
    BY DEF Crash
  <2>2. \A r \in survivors :
           [r EXCEPT !.to = Nobody] \in OpenRequest \cup CloseRequest
    BY <2>1 DEF TypeOK, PMTypeOK, OpenRequest, CloseRequest, Callers
  <2>3. QED BY <2>1, <2>2
<1>2. replies' \in [Threads -> Reply]
  BY DEF Crash, NoReply, Reply, Codes, NoArb
<1>3. faults' \in Nat BY FaultType DEF Crash, TypeOK, PMTypeOK
<1>4. /\ threads' \in [Threads -> Job \cup {Idle}]
      /\ unrecorded' \subseteq [id: Nat, pc: Pcs]
  BY AbandonType DEF Crash
<1>5. QED BY <1>1, <1>2, <1>3, <1>4 DEF Crash, TypeOK, PMTypeOK

LEMMA InitTypes == Init => TypeOK
<1>1. ASSUME Init PROVE TypeOK
  <2>1. /\ \A S : << >> \in Seq(S)
    OBVIOUS
  <2>2. replies \in [Threads -> Reply]
    BY <1>1 DEF Init, PMInit, NoReply, Reply, Codes, NoArb
  <2>3. threads \in [Threads -> Job \cup {Idle}]
    BY <1>1 DEF Init, ApprovalInit
  <2>4. QED BY <1>1, <2>1, <2>2, <2>3
            DEF Init, PMInit, ApprovalInit, PollInit, TypeOK, PMTypeOK
<1>2. QED BY <1>1

LEMMA NextTypes == TypeOK /\ [Next]_vars => TypeOK'
<1> SUFFICES ASSUME TypeOK, [Next]_vars PROVE TypeOK'
  OBVIOUS
<1>1. CASE PMStep /\ UNCHANGED <<rows, approvalVars, pollVars>>
  BY <1>1, PMStepTypes DEF TypeOK, approvalVars, pollVars
<1>2. CASE (\E t \in Threads : Click(t) \/ HandlerStep(t)) /\ UNCHANGED pollVars
  BY <1>2, ClickTypes, HandlerTypes
<1>3. CASE (PollStep \/ HourTick) /\ UNCHANGED approvalVars
  BY <1>3, PollTypes
<1>4. CASE Crash
  BY <1>4, CrashTypes
<1>5. CASE UNCHANGED vars
  BY <1>5 DEF vars, TypeOK, PMTypeOK
<1>6. QED BY <1>1, <1>2, <1>3, <1>4, <1>5 DEF Next

\* Every variable keeps its type: the rows stay well-formed records and the
\* ids, keys and arbs that handlers and the poller carry across their waits
\* stay values of the table (approval.py and poller.py, all of their writes).
THEOREM TypeCorrect == Spec => []TypeOK
BY InitTypes, NextTypes, PTL DEF Spec
=============================================================================
