---------------------------- MODULE OrderProofs ----------------------------
(***************************************************************************)
(* Every arb_id the service stores or acts on is the right one: proofs of  *)
(* Lineage, FiredCloseReached and NoChurn from the invariant OrderInv,     *)
(* which ties each request and each reply to the step its handler waits in.*)
(***************************************************************************)
EXTENDS ApproveToFireProofs

-----------------------------------------------------------------------------
(* Arbs are never removed or relabelled, and never become healthy again    *)

ArbsGrow ==
    /\ DOMAIN arbs \subseteq DOMAIN arbs'
    /\ \A i \in DOMAIN arbs :
          /\ arbs'[i].asset = arbs[i].asset
          /\ arbs'[i].key = arbs[i].key
          /\ arbs[i].status \notin Healthy => arbs'[i].status \notin Healthy

LEMMA ArbsStay == ASSUME arbs' = arbs PROVE ArbsGrow
BY DEF ArbsGrow

\* Writing the status of an arb that was healthy, or a status that is not.
LEMMA ArbStatusGrows ==
    ASSUME arbs \in Seq(Arb), NEW i \in DOMAIN arbs, NEW status,
           arbs' = [arbs EXCEPT ![i].status = status],
           arbs[i].status \in Healthy \/ status \notin Healthy
    PROVE  ArbsGrow
<1>1. \A j \in DOMAIN arbs : arbs[j] \in Arb
  OBVIOUS
<1>2. DOMAIN arbs' = DOMAIN arbs
  OBVIOUS
<1>3. \A j \in DOMAIN arbs :
         arbs'[j] = IF j = i THEN [arbs[j] EXCEPT !.status = status]
                    ELSE arbs[j]
  OBVIOUS
<1>4. \A j \in DOMAIN arbs :
         /\ arbs'[j].asset = arbs[j].asset
         /\ arbs'[j].key = arbs[j].key
         /\ arbs'[j].status = IF j = i THEN status ELSE arbs[j].status
  BY <1>1, <1>3 DEF Arb
<1>. QED
  BY <1>2, <1>4 DEF ArbsGrow

LEMMA PMArbsGrow == ASSUME TypeOK, PMStep PROVE ArbsGrow
<1>a. arbs \in Seq(Arb)
  BY DEF TypeOK, PMTypeOK
<1>1. ASSUME NEW r \in requests, AcceptOpen(r)
      PROVE  ArbsGrow
  BY <1>1, <1>a DEF AcceptOpen, ArbsGrow
<1>2. ASSUME NEW r \in requests, AcceptClose(r)
      PROVE  ArbsGrow
  <2>1. r.arb \in DOMAIN arbs /\ arbs' = [arbs EXCEPT ![r.arb].status = "closing"]
    BY <1>2 DEF AcceptClose
  <2>2. "closing" \notin Healthy
    BY DEF Healthy
  <2>. QED
    BY <1>a, <2>1, <2>2, ArbStatusGrows
<1>3. ASSUME NEW i \in DOMAIN arbs, Settle(i)
      PROVE  ArbsGrow
  <2>1. PICK outcome \in {"open", "closed", "error"} :
           /\ \/ arbs[i].status = "opening" /\ outcome # "closed"
              \/ arbs[i].status = "closing" /\ outcome # "open"
           /\ arbs' = [arbs EXCEPT ![i].status = outcome]
    BY <1>3 DEF Settle
  <2>2. arbs[i].status \in Healthy \/ outcome \notin Healthy
    BY <2>1 DEF Healthy
  <2>. QED
    BY <1>a, <2>1, <2>2, ArbStatusGrows
<1>4. ASSUME NEW r \in requests,
             DuplicateOpen(r) \/ ConflictOpen(r) \/ RepeatClose(r) \/ Refuse(r)
      PROVE  ArbsGrow
  BY <1>4, ArbsStay DEF DuplicateOpen, ConflictOpen, RepeatClose, Refuse
<1>5. ASSUME NEW t \in Threads, GiveUp(t)
      PROVE  ArbsGrow
  BY <1>5, ArbsStay DEF GiveUp
<1>. QED
  BY <1>1, <1>2, <1>3, <1>4, <1>5 DEF PMStep

\* What is known of an arb stays true while the arbs grow.
LEMMA ArbOfStable ==
    ASSUME ArbsGrow, NEW asset, NEW arb, ArbOf(asset, arb)
    PROVE  ArbOf(asset, arb)'
BY DEF ArbsGrow, ArbOf

LEMMA ExecutedStable ==
    ASSUME ArbsGrow, NEW arb, Executed(arb)
    PROVE  Executed(arb)'
BY DEF ArbsGrow, Executed

LEMMA ReplyFitsStable ==
    ASSUME ArbsGrow, NEW job, NEW arb, ReplyFits(job, arb)
    PROVE  ReplyFits(job, arb)'
BY DEF ArbsGrow, ReplyFits, Executed

-----------------------------------------------------------------------------
(* A handler waits for its own reply                                       *)

Waiting(t) == Opens(threads[t]) \/ Closes(threads[t])

\* The part of WaitsForOwnReply that is about one handler.
WaitsRight(t) ==
    /\ Answered(t) => Waiting(t)
    /\ \A r \in requests : r.to = t =>
          Waiting(t) /\ ~Answered(t) /\ r = RequestOf(t, threads[t])
    /\ replies[t].code = "ok" => ReplyFits(threads[t], replies[t].arb)
    /\ replies[t].code = "empty" /\ Closes(threads[t]) =>
          "redirect" \in Faults \/ Executed(threads[t].sig.arb)

LEMMA WaitsByThread == WaitsForOwnReply <=> \A t \in Threads : WaitsRight(t)
BY DEF WaitsForOwnReply, WaitsRight, Waiting

\* A handler that nothing is sent to or by keeps waiting right.
LEMMA WaitsUndisturbed ==
    ASSUME WaitsForOwnReply, ArbsGrow, NEW t \in Threads,
           threads'[t] = threads[t], replies'[t] = replies[t],
           \A r \in requests' : r.to = t => r \in requests
    PROVE  WaitsRight(t)'
<1>. DEFINE job == threads[t]
<1>1. WaitsRight(t)
  BY WaitsByThread
<1>2. ReplyFits(job, replies[t].arb) => ReplyFits(job, replies[t].arb)'
  BY DEF ArbsGrow, ReplyFits, Executed
<1>3. replies'[t].code = "ok" => ReplyFits(threads[t], replies[t].arb)'
  <2>1. ASSUME replies[t].code = "ok"
        PROVE  ReplyFits(threads[t], replies[t].arb)'
    <3>1. ReplyFits(threads[t], replies[t].arb)
      BY <1>1, <2>1 DEF WaitsRight
    <3>. QED
      BY <3>1 DEF ArbsGrow, ReplyFits, Executed, Opens, Closes
  <2>. QED
    BY <2>1
<1>4. replies'[t].code = "empty" /\ Closes(threads[t]) =>
         "redirect" \in Faults \/ Executed(threads[t].sig.arb)'
  BY <1>1 DEF WaitsRight, ArbsGrow, Executed, Closes
<1>. QED
  BY <1>1, <1>3, <1>4
     DEF WaitsRight, Waiting, Answered, RequestOf, Opens, Closes, Executed

\* The PM answers a request: its sender, if it still waits, gets the answer.
LEMMA WaitsAnswered ==
    ASSUME TypeOK, WaitsForOwnReply, ArbsGrow, threads' = threads,
           NEW r \in requests, NEW code, NEW arb, Answer(r, code, arb),
           code = "empty" => "redirect" \in Faults,
           \A t \in Threads : code = "ok" /\ r = RequestOf(t, threads[t]) =>
              ReplyFits(threads[t], arb)'
    PROVE  WaitsForOwnReply'
<1>. SUFFICES ASSUME NEW t \in Threads PROVE WaitsRight(t)'
  BY DEF WaitsForOwnReply, WaitsRight, Waiting
<1>1. requests' = requests \ {r}
  BY DEF Answer
<1>2. CASE r.to = t
  <2>1. replies'[t] = [code |-> code, arb |-> arb]
    BY <1>2 DEF Answer, TypeOK, PMTypeOK
  <2>2. Waiting(t) /\ r = RequestOf(t, threads[t])
    BY <1>2 DEF WaitsForOwnReply, Waiting
  <2>3. \A q \in requests' : q.to # t
    BY <1>1, <2>2 DEF WaitsForOwnReply
  <2>4. Waiting(t)'
    BY <2>2 DEF Waiting, Opens, Closes
  <2>5. replies'[t].code = code /\ replies'[t].arb = arb
    BY <2>1
  <2>6. code = "ok" => ReplyFits(threads[t], arb)'
    BY <2>2
  <2>7. replies'[t].code = "ok" => ReplyFits(threads[t], replies[t].arb)'
    BY <2>5, <2>6 DEF ReplyFits, Executed
  <2>. QED
    BY <2>3, <2>4, <2>5, <2>7 DEF WaitsRight
<1>3. CASE r.to # t
  <2>1. replies'[t] = replies[t]
    BY <1>3 DEF Answer, TypeOK, PMTypeOK
  <2>. QED
    BY <1>1, <2>1, WaitsUndisturbed
<1>. QED
  BY <1>2, <1>3

\* The handler's timeout: what it sent is lost, or addressed to nobody.
LEMMA WaitsGivenUp ==
    ASSUME TypeOK, WaitsForOwnReply, threads' = threads,
           NEW u \in Threads, GiveUp(u)
    PROVE  WaitsForOwnReply'
<1>. SUFFICES ASSUME NEW t \in Threads PROVE WaitsRight(t)'
  BY DEF WaitsForOwnReply, WaitsRight, Waiting
<1>1. ArbsGrow
  BY ArbsStay DEF GiveUp
<1>2. PICK q \in requests :
         /\ q.to = u
         /\ \/ requests' = requests \ {q}
            \/ requests' = (requests \ {q}) \cup {[q EXCEPT !.to = Nobody]}
  BY DEF GiveUp
<1>3. q \in OpenRequest \cup CloseRequest
  BY DEF TypeOK, PMTypeOK
<1>4. [q EXCEPT !.to = Nobody].to = Nobody /\ Nobody \notin Threads
  BY <1>3, NobodyAssumption DEF OpenRequest, CloseRequest
<1>5. \A r \in requests' : r.to \in Threads => r \in requests /\ r # q
  BY <1>2, <1>4
<1>6. CASE t = u
  <2>1. replies'[t] = [code |-> "failed", arb |-> NoArb]
    BY <1>6 DEF GiveUp, TypeOK, PMTypeOK
  <2>2. Waiting(t) /\ q = RequestOf(t, threads[t])
    BY <1>2, <1>6 DEF WaitsForOwnReply, Waiting
  <2>3. \A r \in requests' : r.to # t
    BY <1>5, <2>2 DEF WaitsForOwnReply
  <2>4. Waiting(t)'
    BY <2>2 DEF Waiting, Opens, Closes
  <2>. QED
    BY <2>1, <2>3, <2>4 DEF WaitsRight
<1>7. CASE t # u
  <2>1. replies'[t] = replies[t]
    BY <1>7 DEF GiveUp, TypeOK, PMTypeOK
  <2>. QED
    BY <1>1, <1>5, <2>1, WaitsUndisturbed
<1>. QED
  BY <1>6, <1>7

\* An arb that answers an open has the key of the request.
LEMMA OpenFits ==
    ASSUME NEW t \in Threads, NEW r, r.op = "open",
           r = RequestOf(t, threads[t]), threads' = threads,
           NEW i, i \in DOMAIN arbs', arbs'[i].key = r.key
    PROVE  ReplyFits(threads[t], i)'
<1>1. Opens(threads[t])
  BY DEF RequestOf
<1>2. r.key = threads[t].sig.key
  BY <1>1 DEF RequestOf
<1>3. ~Closes(threads[t])
  BY <1>1 DEF Opens, Closes
<1>. QED
  BY <1>2, <1>3 DEF ReplyFits, Opens, Closes

\* A close that is answered with success has reached its arb.
LEMMA CloseFits ==
    ASSUME NEW t \in Threads, NEW r, r.op = "close",
           r = RequestOf(t, threads[t]), threads' = threads,
           Executed(r.arb)'
    PROVE  \A arb : ReplyFits(threads[t], arb)'
<1>1. ~Opens(threads[t])
  BY DEF RequestOf
<1>2. r.arb = threads[t].sig.arb
  BY <1>1 DEF RequestOf
<1>. QED
  BY <1>1, <1>2 DEF ReplyFits, Opens, Closes, Executed

LEMMA WaitsPM ==
    ASSUME TypeOK, WaitsForOwnReply, PMStep, threads' = threads
    PROVE  WaitsForOwnReply'
<1>a. ArbsGrow /\ arbs \in Seq(Arb)
  BY PMArbsGrow DEF TypeOK, PMTypeOK
\* An answer nobody can read fits every handler.
<1>b. ASSUME NEW r \in requests, NEW arb, Succeed(r, arb),
             \A t \in Threads : r = RequestOf(t, threads[t]) =>
                ReplyFits(threads[t], arb)'
      PROVE  WaitsForOwnReply'
  <2>1. CASE Answer(r, "ok", arb)
    BY <1>a, <1>b, <2>1, WaitsAnswered
  <2>2. CASE Answer(r, "garbled", NoArb)
    BY <1>a, <1>b, <2>2, WaitsAnswered
  <2>. QED
    BY <1>b, <2>1, <2>2 DEF Succeed
<1>1. ASSUME NEW r \in requests, AcceptOpen(r)
      PROVE  WaitsForOwnReply'
  <2>1. PICK n \in Nat : n = Len(arbs) + 1
    BY <1>a
  <2>2. r.op = "open" /\ Succeed(r, n)
    BY <1>1, <2>1 DEF AcceptOpen
  <2>3. n \in DOMAIN arbs' /\ arbs'[n].key = r.key
    BY <1>a, <1>1, <2>1 DEF AcceptOpen
  <2>4. \A t \in Threads : r = RequestOf(t, threads[t]) =>
           ReplyFits(threads[t], n)'
    BY <2>2, <2>3, OpenFits
  <2>. QED
    BY <1>b, <2>2, <2>4
<1>2. ASSUME NEW r \in requests, DuplicateOpen(r)
      PROVE  WaitsForOwnReply'
  <2>1. PICK i \in DOMAIN arbs : arbs[i].key = r.key /\ Succeed(r, i)
    BY <1>2 DEF DuplicateOpen
  <2>2. r.op = "open" /\ i \in DOMAIN arbs' /\ arbs'[i].key = r.key
    BY <1>2, <2>1 DEF DuplicateOpen
  <2>3. \A t \in Threads : r = RequestOf(t, threads[t]) =>
           ReplyFits(threads[t], i)'
    BY <2>2, OpenFits
  <2>. QED
    BY <1>b, <2>1, <2>3
<1>3. ASSUME NEW r \in requests, ConflictOpen(r)
      PROVE  WaitsForOwnReply'
  BY <1>3, <1>a, WaitsAnswered DEF ConflictOpen
<1>4. ASSUME NEW r \in requests, AcceptClose(r)
      PROVE  WaitsForOwnReply'
  <2>1. r.op = "close" /\ Succeed(r, r.arb)
    BY <1>4 DEF AcceptClose
  <2>2. Executed(r.arb)'
    <3>1. r.arb \in DOMAIN arbs /\ arbs[r.arb] \in Arb
      BY <1>4, <1>a DEF AcceptClose
    <3>2. arbs'[r.arb] = [arbs[r.arb] EXCEPT !.status = "closing"]
          /\ DOMAIN arbs' = DOMAIN arbs
      BY <1>4, <3>1 DEF AcceptClose
    <3>3. arbs'[r.arb].status = "closing"
      BY <3>1, <3>2 DEF Arb
    <3>. QED
      BY <3>1, <3>2, <3>3 DEF Executed, Healthy
  <2>3. \A t \in Threads : r = RequestOf(t, threads[t]) =>
           ReplyFits(threads[t], r.arb)'
    BY <2>1, <2>2, CloseFits
  <2>. QED
    BY <1>b, <2>1, <2>3
<1>5. ASSUME NEW r \in requests, RepeatClose(r)
      PROVE  WaitsForOwnReply'
  <2>1. Succeed(r, r.arb) \/ Answer(r, "conflict", NoArb)
    BY <1>5 DEF RepeatClose
  <2>2. r.op = "close"
    BY <1>5 DEF RepeatClose
  <2>3. Executed(r.arb)'
    BY <1>5 DEF RepeatClose, Executed, Healthy
  <2>4. \A t \in Threads : r = RequestOf(t, threads[t]) =>
           ReplyFits(threads[t], r.arb)'
    BY <2>2, <2>3, CloseFits
  <2>. QED
    BY <1>a, <1>b, <2>1, <2>4, WaitsAnswered
<1>6. ASSUME NEW r \in requests, Refuse(r)
      PROVE  WaitsForOwnReply'
  <2>1. PICK code : /\ Answer(r, code, NoArb)
                    /\ code = "failed" \/ code \in Unreadable
                    /\ code = "empty" => "redirect" \in Faults
    BY <1>6 DEF Refuse, Fault
  <2>2. code # "ok"
    BY <2>1 DEF Unreadable
  <2>. QED
    BY <1>a, <2>1, <2>2, WaitsAnswered
<1>7. ASSUME NEW t \in Threads, GiveUp(t)
      PROVE  WaitsForOwnReply'
  BY <1>7, WaitsGivenUp
<1>8. ASSUME NEW i \in DOMAIN arbs, Settle(i)
      PROVE  WaitsForOwnReply'
  <2>1. requests' = requests /\ replies' = replies
    BY <1>8 DEF Settle
  <2>2. \A t \in Threads : WaitsRight(t)'
    BY <1>a, <2>1, WaitsUndisturbed
  <2>. QED
    BY <2>2 DEF WaitsForOwnReply, WaitsRight, Waiting
<1>. QED
  BY <1>1, <1>2, <1>3, <1>4, <1>5, <1>6, <1>7, <1>8 DEF PMStep

\* A handler moves on, having read its reply or waited for none, and sends at
\* most the request of its new step.
HandlerSends(t, job) ==
    /\ threads' = [threads EXCEPT ![t] = job]
    /\ replies' \in [Threads -> Reply]
    /\ \A u \in Threads \ {t} : replies'[u] = replies[u]
    /\ ~Answered(t)'
    /\ Answered(t) \/ ~Waiting(t)
    /\ \/ requests' = requests
       \/ /\ requests' = requests \cup {RequestOf(t, job)}
          /\ Opens(job) \/ Closes(job)

LEMMA WaitsHandler ==
    ASSUME TypeOK, WaitsForOwnReply, arbs' = arbs, NEW t \in Threads, NEW job,
           HandlerSends(t, job)
    PROVE  WaitsForOwnReply'
<1>. SUFFICES ASSUME NEW u \in Threads PROVE WaitsRight(u)'
  BY DEF WaitsForOwnReply, WaitsRight, Waiting
<1>1. \A r \in requests : r.to # t
  BY DEF WaitsForOwnReply, HandlerSends, Waiting
<1>2. RequestOf(t, job).to = t
  BY DEF RequestOf
<1>3. CASE u = t
  <2>1. threads'[t] = job
    BY DEF HandlerSends, TypeOK
  <2>2. \A r \in requests' : r.to = t =>
           r = RequestOf(t, job) /\ (Opens(job) \/ Closes(job))
    BY <1>1 DEF HandlerSends
  <2>3. replies'[t].code = "none"
    BY DEF HandlerSends, Answered
  <2>. QED
    BY <1>3, <2>1, <2>2, <2>3
       DEF WaitsRight, Waiting, Answered, RequestOf, Opens, Closes
<1>4. CASE u # t
  <2>1. threads'[u] = threads[u] /\ replies'[u] = replies[u]
    BY <1>4 DEF HandlerSends, TypeOK
  <2>2. \A r \in requests' : r.to = u => r \in requests
    BY <1>2, <1>4 DEF HandlerSends
  <2>. QED
    BY <2>1, <2>2, ArbsStay, WaitsUndisturbed
<1>. QED
  BY <1>3, <1>4

-----------------------------------------------------------------------------
(* What a handler remembers, and what it sends                             *)

LEMMA KeyAsset ==
    ASSUME NEW k \in Key, NEW l \in Key, Stripped(k) = Stripped(l)
    PROVE  k.asset = l.asset
<1>1. Stripped(k).asset = k.asset /\ Stripped(l).asset = l.asset
  BY DEF Key, Stripped
<1>. QED
  BY <1>1

\* A handler's copy of a row, and the asset of its key.
LEMMA CopyFacts ==
    ASSUME OrderInv, NEW t \in Threads, threads[t].pc # "idle"
    PROVE  /\ threads[t] \in Job /\ threads[t].sig \in Row
           /\ threads[t].sig.key \in Key
           /\ threads[t].id \in DOMAIN rows
           /\ Agrees(threads[t])
           /\ threads[t].sig.key.asset = threads[t].sig.asset
           /\ threads[t].sig.arb # NoArb =>
                 ArbOf(threads[t].sig.asset, threads[t].sig.arb)
<1>1. threads[t] \in Job /\ threads[t].sig \in Row
  BY JobType DEF OrderInv, GrantInv, TypeOK
<1>2. threads[t].sig.key \in Key
  BY <1>1 DEF Row
<1>3. Agrees(threads[t])
  BY DEF OrderInv, GrantInv, CopiesAgree
<1>4. threads[t].id \in DOMAIN rows
  BY <1>3 DEF Agrees
<1>5. rows[threads[t].id].key \in Key
  <2>1. rows \in Seq(Row)
    BY DEF OrderInv, GrantInv, TypeOK
  <2>2. rows[threads[t].id] \in Row
    BY <1>4, <2>1
  <2>. QED
    BY <2>2 DEF Row
<1>6. threads[t].sig.key.asset = rows[threads[t].id].key.asset
  BY <1>2, <1>3, <1>5, KeyAsset DEF Agrees, SignalKey
<1>7. threads[t].sig.key.asset = threads[t].sig.asset
  BY <1>3, <1>4, <1>6 DEF Agrees, OrderInv, KeysNameAssets
<1>. QED
  BY <1>1, <1>2, <1>3, <1>4, <1>7 DEF OrderInv, ArbsAreKnown

\* A positions read that finds an arb finds one of the asset that is not
\* closed, and one that works misses none.
LEMMA SeenArbKnown ==
    ASSUME TypeOK, NEW asset, NEW up
    PROVE  /\ SeenArb(asset, up) # NoArb =>
                 ArbOf(asset, SeenArb(asset, up))
           /\ up /\ SeenArb(asset, up) = NoArb => LiveArbs(asset) = {}
<1>1. arbs \in Seq(Arb)
  BY DEF TypeOK, PMTypeOK
<1>2. NoArb \notin LiveArbs(asset)
  BY <1>1 DEF NoArb, LiveArbs
<1>3. CASE up /\ LiveArbs(asset) # {}
  <2>1. SeenArb(asset, up) \in LiveArbs(asset)
    BY <1>3 DEF SeenArb
  <2>. QED
    BY <1>2, <2>1 DEF LiveArbs, ArbOf
<1>4. CASE ~(up /\ LiveArbs(asset) # {})
  <2>1. SeenArb(asset, up) = NoArb
    BY <1>4 DEF SeenArb
  <2>. QED
    BY <1>4, <2>1
<1>. QED
  BY <1>3, <1>4

LEMMA FailedReadIsOutage ==
    ASSUME NEW up \in BOOLEAN, ReadPositions(up), "outage" \notin Faults
    PROVE  up
BY DEF ReadPositions, Fault

HandlerMove(t, job) ==
    /\ HandlerSends(t, job)
    /\ arbs' = arbs
    /\ job.pc # "idle" /\ job.sig.arb # NoArb =>
          ArbOf(job.sig.asset, job.sig.arb)
    /\ Closes(job) => job.sig.arb # NoArb
    /\ Opens(job) => job.sig.key.asset = job.sig.asset
    /\ job.pc = "clear" /\ "outage" \notin Faults =>
          arbs[job.sig.arb].status \notin Healthy

\* A handler that waits for nothing moves on.
LEMMA MovesUnasked ==
    ASSUME OrderInv, NEW t \in Threads, NEW job, ~Waiting(t),
           threads' = [threads EXCEPT ![t] = job], replies' = replies,
           \/ requests' = requests
           \/ /\ requests' = requests \cup {RequestOf(t, job)}
              /\ Opens(job) \/ Closes(job)
    PROVE  HandlerSends(t, job)
<1>1. ~Answered(t)
  BY DEF OrderInv, WaitsForOwnReply, Waiting
<1>2. replies \in [Threads -> Reply]
  BY DEF OrderInv, GrantInv, TypeOK, PMTypeOK
<1>. QED
  BY <1>1, <1>2 DEF HandlerSends, Answered

\* A handler reads its reply and moves on.
LEMMA MovesAnswered ==
    ASSUME OrderInv, NEW t \in Threads, NEW job, Answered(t), TakeReply(t),
           threads' = [threads EXCEPT ![t] = job], requests' = requests
    PROVE  HandlerSends(t, job)
<1>1. replies \in [Threads -> Reply]
  BY DEF OrderInv, GrantInv, TypeOK, PMTypeOK
<1>2. replies' \in [Threads -> Reply]
  BY TakeReplyType DEF OrderInv, GrantInv, TypeOK
<1>3. replies'[t].code = "none" /\ \A u \in Threads \ {t} : replies'[u] = replies[u]
  BY <1>1 DEF TakeReply, NoReply
<1>. QED
  BY <1>2, <1>3 DEF HandlerSends, Answered

\* What a step of a handler does to its row, when it does anything but write
\* a status: the row is right, whatever it was before.
RowRight(i) ==
    /\ rows[i].key.asset = rows[i].asset
    /\ rows[i].arb # NoArb =>
          /\ ArbOf(rows[i].asset, rows[i].arb)
          /\ rows[i].kind = "OPEN" =>
                Stripped(arbs[rows[i].arb].key) = SignalKey(i)
    /\ "redirect" \notin Faults
       /\ rows[i].kind = "CLOSE" /\ rows[i].status = "fired" =>
          Executed(rows[i].arb)

HandlerWrites ==
    /\ RowsKeep
    /\ \A i \in DOMAIN rows :
          \/ /\ rows'[i].key = rows[i].key /\ rows'[i].arb = rows[i].arb
             /\ rows'[i].status = "fired" => rows[i].status = "fired"
          \/ RowRight(i)'

LEMMA RowsAreRight ==
    (KeysNameAssets /\ Lineage /\ ("redirect" \notin Faults => FiredCloseReached))
       => \A i \in DOMAIN rows : RowRight(i)
BY DEF KeysNameAssets, Lineage, FiredCloseReached, RowRight, ArbOf, Executed

LEMMA WritesStatus ==
    ASSUME rows \in Seq(Row), NEW id, NEW status, status # "fired",
           rows' = [rows EXCEPT ![id].status = status]
    PROVE  HandlerWrites
<1>1. RowsKeep
  BY StatusKeeps
<1>2. \A i \in DOMAIN rows : rows[i] \in Row
  OBVIOUS
<1>3. \A i \in DOMAIN rows :
         rows'[i] = IF i = id THEN [rows[i] EXCEPT !.status = status]
                    ELSE rows[i]
  OBVIOUS
<1>4. \A i \in DOMAIN rows :
         /\ rows'[i].key = rows[i].key /\ rows'[i].arb = rows[i].arb
         /\ rows'[i].status = "fired" => rows[i].status = "fired"
  BY <1>2, <1>3 DEF Row
<1>. QED
  BY <1>1, <1>4 DEF HandlerWrites

LEMMA WritesNothing == ASSUME rows' = rows PROVE HandlerWrites
BY SameKeeps DEF HandlerWrites

\* An approved signal is fired with the order it opened, or the arb it closed.
LEMMA ApproveFiredWrites ==
    ASSUME OrderInv, NEW t \in Threads, ApproveFired(t)
    PROVE  HandlerWrites
<1>. DEFINE sig == threads[t].sig
            arb == IF sig.kind = "OPEN" THEN replies[t].arb ELSE sig.arb
<1>a. threads[t].pc = "fire"
  BY DEF ApproveFired
<1>e. PICK id \in DOMAIN rows : id = threads[t].id
  BY <1>a, CopyFacts
<1>b. /\ sig \in Row /\ sig.key \in Key
      /\ Agrees(threads[t]) /\ sig.key.asset = sig.asset
      /\ sig.arb # NoArb => ArbOf(sig.asset, sig.arb)
  BY <1>a, CopyFacts
<1>c. rows \in Seq(Row) /\ rows[id] \in Row
  BY <1>b DEF OrderInv, GrantInv, TypeOK
<1>d. arbs' = arbs
  BY DEF ApproveFired
<1>1. \A i \in DOMAIN rows :
         rows'[i] = IF i = id
                    THEN [rows[i] EXCEPT !.status = "fired", !.arb = arb]
                    ELSE rows[i]
  <2>1. rows' = [rows EXCEPT ![id].status = "fired", ![id].arb = arb]
    BY <1>e DEF ApproveFired
  <2>. QED
    BY <1>b, <1>c, <2>1
<1>2. DOMAIN rows' = DOMAIN rows
  BY DEF ApproveFired
<1>3. /\ rows'[id].asset = rows[id].asset /\ rows'[id].kind = rows[id].kind
      /\ rows'[id].key = rows[id].key /\ rows'[id].arb = arb
  BY <1>b, <1>c, <1>1 DEF Row
<1>4. RowsKeep
  <2>1. \A i \in DOMAIN rows :
           /\ rows'[i].asset = rows[i].asset /\ rows'[i].kind = rows[i].kind
           /\ rows'[i].key = rows[i].key
    BY <1>1, <1>3
  <2>. QED
    BY <1>2, <2>1 DEF RowsKeep, RowsGrow
<1>5. sig.asset = rows[id].asset /\ sig.kind = rows[id].kind
      /\ Stripped(sig.key) = Stripped(rows[id].key)
  BY <1>b, <1>e DEF Agrees, SignalKey
<1>6. rows[id].key.asset = rows[id].asset
  BY <1>b DEF OrderInv, KeysNameAssets
<1>7. CASE sig.kind = "OPEN"
  <2>1. replies[t].code = "ok" /\ Opens(threads[t])
    BY <1>a, <1>7 DEF ApproveFired, Opens
  <2>2. arb \in DOMAIN arbs /\ arbs[arb].key = sig.key
    BY <1>7, <2>1 DEF OrderInv, WaitsForOwnReply, ReplyFits
  <2>3. arbs[arb].asset = sig.asset
    BY <1>b, <2>2 DEF OrderInv, KeysNameAssets
  <2>4. RowRight(id)'
    <3> HIDE DEF sig, arb
    <3>1. rows[id].kind = "OPEN"
      BY <1>5, <1>7
    <3>2. /\ rows'[id].key.asset = rows'[id].asset
          /\ rows'[id].kind = "OPEN"
          /\ rows'[id].arb \in DOMAIN arbs'
          /\ arbs'[rows'[id].arb].asset = rows'[id].asset
          /\ Stripped(arbs'[rows'[id].arb].key) = Stripped(rows'[id].key)
      BY <1>3, <1>5, <1>6, <1>d, <2>2, <2>3, <3>1
    <3>. QED
      BY <3>2 DEF RowRight, ArbOf, SignalKey
  <2>. QED
    BY <1>1, <1>4, <2>4 DEF HandlerWrites
<1>8. CASE sig.kind # "OPEN"
  <2>1. sig.kind = "CLOSE"
    BY <1>b, <1>8 DEF Row, Kinds
  <2>2. Closes(threads[t]) /\ arb = sig.arb
    BY <1>a, <2>1 DEF Closes
  <2>3. sig.arb # NoArb /\ ArbOf(sig.asset, sig.arb)
    BY <1>b, <2>2 DEF OrderInv, ArbsAreKnown
  <2>4. "redirect" \notin Faults => Executed(sig.arb)
    <3>1. replies[t].code = "ok" \/ replies[t].code = "empty"
      BY DEF ApproveFired
    <3>. QED
      BY <2>2, <3>1 DEF OrderInv, WaitsForOwnReply, ReplyFits
  <2>5. RowRight(id)'
    <3> HIDE DEF sig, arb
    <3>1. rows[id].kind = "CLOSE"
      BY <1>5, <2>1
    <3>2. /\ rows'[id].key.asset = rows'[id].asset
          /\ rows'[id].kind = "CLOSE" /\ rows'[id].arb = sig.arb
          /\ rows'[id].asset = sig.asset
      BY <1>3, <1>5, <1>6, <2>2, <3>1
    <3>. QED
      BY <3>2, <2>3, <2>4, <1>d DEF RowRight, ArbOf, Executed
  <2>. QED
    BY <1>1, <1>4, <2>5 DEF HandlerWrites
<1>. QED
  BY <1>7, <1>8

\* A retried signal is fired with the order that its fresh key opened.
LEMMA RetryFiredWrites ==
    ASSUME OrderInv, NEW t \in Threads, RetryFired(t)
    PROVE  HandlerWrites
<1>. DEFINE sig == threads[t].sig
            arb == replies[t].arb
<1>a. threads[t].pc = "reopen" /\ replies[t].code = "ok"
  BY DEF RetryFired
<1>e. PICK id \in DOMAIN rows : id = threads[t].id
  BY <1>a, CopyFacts
<1>b. /\ sig \in Row /\ sig.key \in Key
      /\ Agrees(threads[t]) /\ sig.key.asset = sig.asset
  BY <1>a, CopyFacts
<1>c. rows \in Seq(Row) /\ rows[id] \in Row
  BY <1>b DEF OrderInv, GrantInv, TypeOK
<1>d. arbs' = arbs
  BY DEF RetryFired
<1>1. \A i \in DOMAIN rows :
         rows'[i] = IF i = id
                    THEN [rows[i] EXCEPT !.status = "fired", !.key = sig.key,
                                         !.arb = arb]
                    ELSE rows[i]
  <2>1. rows' = [rows EXCEPT ![id].status = "fired", ![id].key = sig.key,
                             ![id].arb = arb]
    BY <1>e DEF RetryFired
  <2>. QED
    BY <1>b, <1>c, <2>1
<1>2. DOMAIN rows' = DOMAIN rows
  BY DEF RetryFired
<1>3. /\ rows'[id].asset = rows[id].asset /\ rows'[id].kind = rows[id].kind
      /\ rows'[id].key = sig.key /\ rows'[id].arb = arb
  BY <1>b, <1>c, <1>1 DEF Row
<1>5. /\ sig.asset = rows[id].asset /\ sig.kind = rows[id].kind
      /\ Stripped(sig.key) = Stripped(rows[id].key)
      /\ rows[id].kind = "OPEN"
  BY <1>a, <1>b, <1>e DEF Agrees, SignalKey
<1>4. RowsKeep
  <2>1. \A i \in DOMAIN rows :
           /\ rows'[i].asset = rows[i].asset /\ rows'[i].kind = rows[i].kind
           /\ Stripped(rows'[i].key) = Stripped(rows[i].key)
    BY <1>1, <1>3, <1>5
  <2>. QED
    BY <1>2, <2>1 DEF RowsKeep, RowsGrow
<1>6. arb \in DOMAIN arbs /\ arbs[arb].key = sig.key
  BY <1>a DEF Opens, OrderInv, WaitsForOwnReply, ReplyFits
<1>7. arbs[arb].asset = sig.asset
  BY <1>b, <1>6 DEF OrderInv, KeysNameAssets
<1>8. RowRight(id)'
  <2> HIDE DEF sig, arb
  <2>1. /\ rows'[id].key.asset = rows'[id].asset
        /\ rows'[id].kind = "OPEN"
        /\ rows'[id].arb \in DOMAIN arbs'
        /\ arbs'[rows'[id].arb].asset = rows'[id].asset
        /\ Stripped(arbs'[rows'[id].arb].key) = Stripped(rows'[id].key)
    BY <1>3, <1>5, <1>6, <1>7, <1>b, <1>d
  <2>. QED
    BY <2>1 DEF RowRight, ArbOf, SignalKey
<1>. QED
  BY <1>1, <1>4, <1>8 DEF HandlerWrites

LEMMA HandlerStepWrites ==
    ASSUME OrderInv, NEW t \in Threads, HandlerStep(t)
    PROVE  HandlerWrites
<1>a. rows \in Seq(Row)
  BY DEF OrderInv, GrantInv, TypeOK
<1>b. ASSUME MarkError(threads[t].id)
      PROVE  HandlerWrites
  BY <1>a, <1>b, WritesStatus DEF MarkError
<1>1. ASSUME NEW up \in BOOLEAN, ApproveClose(t, up)
      PROVE  HandlerWrites
  BY <1>1, <1>b, WritesNothing DEF ApproveClose
<1>2. ASSUME ApproveFailed(t) \/ RetryFailed(t)
      PROVE  HandlerWrites
  BY <1>2, <1>b, WritesNothing DEF ApproveFailed, RetryFailed
<1>3. CASE RejectCommit(t)
  BY <1>3, <1>a, WritesStatus DEF RejectCommit
<1>4. ASSUME NEW up \in BOOLEAN,
             \/ ApproveOpen(t) \/ RetryCheck(t, up)
             \/ RetryCleared(t) \/ RetryReopen(t)
             \/ AnswerUnreadable(t) \/ PositionsUnreadable(t)
      PROVE  HandlerWrites
  BY <1>4, WritesNothing
     DEF ApproveOpen, RetryCheck, RetryCleared, RetryReopen, AnswerUnreadable,
         PositionsUnreadable
<1>. QED
  BY <1>1, <1>2, <1>3, <1>4, ApproveFiredWrites, RetryFiredWrites
     DEF HandlerStep

-----------------------------------------------------------------------------
(* Every step of a handler is a HandlerMove                                *)

\* A handler that ends sends nothing.
LEMMA MoveEnds ==
    ASSUME NEW t \in Threads, HandlerSends(t, Idle), arbs' = arbs
    PROVE  \E job : HandlerMove(t, job)
BY DEF HandlerMove, Idle, Opens, Closes

LEMMA ClickMoves ==
    ASSUME OrderInv, NEW t \in Threads, Click(t)
    PROVE  \E job : HandlerMove(t, job)
<1>1. PICK id \in DOMAIN rows :
         ApproveLoad(t, id) \/ RejectLoad(t, id) \/ RetryLoad(t, id)
  BY DEF Click
<1>2. PICK pc \in {"approve", "reject", "retry"} :
         threads' = [threads EXCEPT ![t] =
                       [pc |-> pc, id |-> id, sig |-> rows[id]]]
  BY <1>1 DEF ApproveLoad, RejectLoad, RetryLoad, Load
<1>. DEFINE job == [pc |-> pc, id |-> id, sig |-> rows[id]]
<1>3. /\ threads[t].pc = "idle" /\ arbs' = arbs
      /\ requests' = requests /\ replies' = replies
  BY <1>1 DEF ApproveLoad, RejectLoad, RetryLoad, pmVars
<1>4. HandlerSends(t, job)
  BY <1>2, <1>3, MovesUnasked DEF Waiting, Opens, Closes
<1>5. rows[id].arb # NoArb => ArbOf(rows[id].asset, rows[id].arb)
  BY DEF OrderInv, Lineage, ArbOf
<1>. QED
  BY <1>3, <1>4, <1>5 DEF HandlerMove, Opens, Closes

LEMMA ApproveMoves ==
    ASSUME OrderInv, NEW t \in Threads,
           NEW up \in BOOLEAN, ApproveOpen(t) \/ ApproveClose(t, up)
    PROVE  \E job : HandlerMove(t, job)
<1>a. threads[t].pc = "approve" /\ arbs' = arbs /\ replies' = replies
  BY DEF ApproveOpen, ApproveClose
<1>b. ~Waiting(t)
  BY <1>a DEF Waiting, Opens, Closes
<1>c. /\ threads[t] \in Job /\ threads[t].sig \in Row
      /\ threads[t].sig.key.asset = threads[t].sig.asset
      /\ threads[t].sig.arb # NoArb =>
            ArbOf(threads[t].sig.asset, threads[t].sig.arb)
  BY <1>a, CopyFacts
<1>d. threads \in [Threads -> Job \cup {Idle}]
  BY DEF OrderInv, GrantInv, TypeOK
<1>1. CASE ApproveOpen(t)
  <2>. DEFINE job == [threads[t] EXCEPT !.pc = "fire"]
  <2>1. threads' = [threads EXCEPT ![t] = job]
    BY <1>1 DEF ApproveOpen, Goto
  <2>2. job.pc = "fire" /\ job.sig = threads[t].sig
    BY <1>c DEF Job
  <2>3. Opens(job) /\ ~Closes(job)
    BY <1>1, <2>2 DEF ApproveOpen, Opens, Closes
  <2>4. requests' = requests \cup {RequestOf(t, job)}
    BY <1>1, <2>2, <2>3 DEF ApproveOpen, SendOpen, RequestOf
  <2>5. HandlerSends(t, job)
    BY <1>a, <1>b, <2>1, <2>3, <2>4, MovesUnasked
  <2>. QED
    BY <1>a, <1>c, <2>2, <2>3, <2>5 DEF HandlerMove
<1>2. CASE ApproveClose(t, up)
  <2>. DEFINE target == CloseTarget(threads[t].sig, up)
  <2>1. CASE target = NoArb
    <3>1. threads' = [threads EXCEPT ![t] = Idle] /\ requests' = requests
      BY <1>2, <2>1 DEF ApproveClose, Finish
    <3>2. HandlerSends(t, Idle)
      BY <1>a, <1>b, <3>1, MovesUnasked
    <3>. QED
      BY <1>a, <3>2, MoveEnds
  <2>2. CASE target # NoArb
    <3>. DEFINE job == [threads[t] EXCEPT !.pc = "fire", !.sig.arb = target]
    <3>1. threads' = [threads EXCEPT ![t] = job] /\ SendClose(t, target)
      BY <1>2, <1>d, <2>2 DEF ApproveClose
    <3>2. target # NoArb => ArbOf(threads[t].sig.asset, target)
      BY <1>c, SeenArbKnown DEF CloseTarget, OrderInv, GrantInv
    <3>. HIDE DEF target
    <3>3. /\ job.pc = "fire" /\ job.sig.kind = "CLOSE" /\ job.sig.arb = target
          /\ job.sig.asset = threads[t].sig.asset
      BY <1>2, <1>c DEF ApproveClose, Job, Row
    <3>. HIDE DEF job
    <3>4. Closes(job) /\ ~Opens(job)
      BY <3>3 DEF Opens, Closes
    <3>5. requests' = requests \cup {RequestOf(t, job)}
      BY <3>1, <3>3, <3>4 DEF SendClose, RequestOf
    <3>6. HandlerSends(t, job)
      BY <1>a, <1>b, <3>1, <3>4, <3>5, MovesUnasked
    <3>. QED
      BY <1>a, <2>2, <3>2, <3>3, <3>4, <3>6 DEF HandlerMove
  <2>. QED
    BY <2>1, <2>2
<1>. QED
  BY <1>1, <1>2

\* A close that a retry sends hits no healthy arb, unless the read of the
\* positions failed.
LEMMA RetryCheckMoves ==
    ASSUME OrderInv, NEW t \in Threads, NEW up \in BOOLEAN, RetryCheck(t, up)
    PROVE  \E job : HandlerMove(t, job)
<1>. DEFINE sig == threads[t].sig
            cur == SeenArb(sig.asset, up)
            target == IF cur # NoArb THEN cur ELSE sig.arb
<1>a. /\ threads[t].pc = "retry" /\ arbs' = arbs /\ replies' = replies
      /\ ReadPositions(up)
  BY DEF RetryCheck
<1>b. ~Waiting(t)
  BY <1>a DEF Waiting, Opens, Closes
<1>c. /\ threads[t] \in Job /\ sig \in Row
      /\ sig.key.asset = sig.asset
      /\ sig.arb # NoArb => ArbOf(sig.asset, sig.arb)
  BY <1>a, CopyFacts
<1>d. threads \in [Threads -> Job \cup {Idle}] /\ TypeOK
  BY DEF OrderInv, GrantInv, TypeOK
<1>e. /\ cur # NoArb => ArbOf(sig.asset, cur)
      /\ up /\ cur = NoArb => LiveArbs(sig.asset) = {}
  BY <1>d, SeenArbKnown
<1>1. CASE Finish(t) /\ UNCHANGED requests
  <2>1. HandlerSends(t, Idle)
    BY <1>1, <1>a, <1>b, MovesUnasked DEF Finish
  <2>. QED
    BY <1>a, <2>1, MoveEnds
<1>2. CASE Goto(t, "wait") /\ UNCHANGED requests
  <2>. DEFINE job == [threads[t] EXCEPT !.pc = "wait"]
  <2>1. threads' = [threads EXCEPT ![t] = job]
    BY <1>2 DEF Goto
  <2>2. job.pc = "wait" /\ job.sig = threads[t].sig
    BY <1>c DEF Job
  <2>3. HandlerSends(t, job)
    BY <1>2, <1>a, <1>b, <2>1, MovesUnasked
  <2>. QED
    BY <1>a, <1>c, <2>2, <2>3 DEF HandlerMove, Opens, Closes
<1>3. CASE /\ ~(cur # NoArb /\ arbs[cur].status \in Healthy)
           /\ target # NoArb
           /\ SendClose(t, target)
           /\ threads' = [threads EXCEPT ![t].pc = "clear",
                                         ![t].sig.arb = target]
  <2>. DEFINE job == [threads[t] EXCEPT !.pc = "clear", !.sig.arb = target]
  <2>1. threads' = [threads EXCEPT ![t] = job]
    BY <1>3, <1>d
  <2>2. ArbOf(sig.asset, target)
    BY <1>3, <1>c, <1>e
  <2>3. ASSUME "outage" \notin Faults
        PROVE  arbs[target].status \notin Healthy
    <3>1. up
      BY <1>a, <2>3, FailedReadIsOutage
    <3>2. CASE cur # NoArb
      BY <1>3, <3>2
    <3>3. CASE cur = NoArb
      <4>1. target = sig.arb /\ target \notin LiveArbs(sig.asset)
        BY <1>e, <3>1, <3>3
      <4>2. arbs[target].status = "closed"
        BY <2>2, <4>1 DEF LiveArbs, ArbOf
      <4>. QED
        BY <4>2 DEF Healthy
    <3>. QED
      BY <3>2, <3>3
  <2>4. target # NoArb /\ SendClose(t, target)
    BY <1>3
  <2>. HIDE DEF target
  <2>5. job.pc = "clear" /\ job.sig.arb = target /\ job.sig.asset = sig.asset
    BY <1>c DEF Job, Row
  <2>. HIDE DEF job
  <2>6. Closes(job) /\ ~Opens(job)
    BY <2>5 DEF Opens, Closes
  <2>7. requests' = requests \cup {RequestOf(t, job)}
    BY <2>4, <2>5, <2>6 DEF SendClose, RequestOf
  <2>8. HandlerSends(t, job)
    BY <1>a, <1>b, <2>1, <2>6, <2>7, MovesUnasked
  <2>. QED
    BY <1>a, <2>2, <2>3, <2>4, <2>5, <2>6, <2>8 DEF HandlerMove
<1>. QED
  BY <1>1, <1>2, <1>3 DEF RetryCheck

LEMMA RetryReopenMoves ==
    ASSUME OrderInv, NEW t \in Threads, RetryReopen(t)
    PROVE  \E job : HandlerMove(t, job)
<1>. DEFINE key == RetryKey(threads[t].sig.key, stamp + 1)
            job == [threads[t] EXCEPT !.pc = "reopen", !.sig.key = key]
<1>a. threads[t].pc = "wait" /\ arbs' = arbs /\ replies' = replies
  BY DEF RetryReopen
<1>b. ~Waiting(t)
  BY <1>a DEF Waiting, Opens, Closes
<1>c. /\ threads[t] \in Job /\ threads[t].sig \in Row
      /\ threads[t].sig.key \in Key
      /\ threads[t].sig.key.asset = threads[t].sig.asset
      /\ threads[t].sig.arb # NoArb =>
            ArbOf(threads[t].sig.asset, threads[t].sig.arb)
  BY <1>a, CopyFacts
<1>1. threads' = [threads EXCEPT ![t] = job]
      /\ SendOpen(t, threads[t].sig.asset, key)
  BY DEF RetryReopen, OrderInv, GrantInv, TypeOK
<1>2. key.asset = threads[t].sig.asset
  BY <1>c DEF RetryKey, Stripped, Key
<1>. HIDE DEF key
<1>3. /\ job.pc = "reopen" /\ job.sig.key = key
      /\ job.sig.asset = threads[t].sig.asset
      /\ job.sig.arb = threads[t].sig.arb
  BY <1>c DEF Job, Row
<1>. HIDE DEF job
<1>4. Opens(job) /\ ~Closes(job)
  BY <1>3 DEF Opens, Closes
<1>5. requests' = requests \cup {RequestOf(t, job)}
  BY <1>1, <1>3, <1>4 DEF SendOpen, RequestOf
<1>6. HandlerSends(t, job)
  BY <1>a, <1>b, <1>1, <1>4, <1>5, MovesUnasked
<1>. QED
  BY <1>a, <1>c, <1>2, <1>3, <1>4, <1>6 DEF HandlerMove

LEMMA HandlerMoves ==
    ASSUME OrderInv, NEW t \in Threads, HandlerStep(t)
    PROVE  \E job : HandlerMove(t, job)
<1>1. ASSUME NEW up \in BOOLEAN, ApproveClose(t, up) \/ RetryCheck(t, up)
      PROVE  \E job : HandlerMove(t, job)
  BY <1>1, ApproveMoves, RetryCheckMoves
<1>2. CASE ApproveOpen(t) \/ RetryReopen(t)
  BY <1>2, ApproveMoves, RetryReopenMoves
<1>a. Abandon({t}) => Finish(t)
  BY AbandonFinishes DEF OrderInv, GrantInv, TypeOK
<1>3. CASE \/ ApproveFired(t) \/ ApproveFailed(t) \/ AnswerUnreadable(t)
           \/ RetryFired(t) \/ RetryFailed(t)
  <2>1. Answered(t) /\ TakeReply(t) /\ Finish(t)
    BY <1>3, <1>a
       DEF ApproveFired, ApproveFailed, AnswerUnreadable, RetryFired,
           RetryFailed, Answered, RaisesPMError, Unreadable
  <2>2. requests' = requests /\ arbs' = arbs
    BY <1>3 DEF ApproveFired, ApproveFailed, AnswerUnreadable, RetryFired,
                RetryFailed
  <2>3. HandlerSends(t, Idle)
    BY <2>1, <2>2, MovesAnswered DEF Finish
  <2>. QED
    BY <2>2, <2>3, MoveEnds
<1>4. CASE RejectCommit(t) \/ PositionsUnreadable(t)
  <2>1. /\ Finish(t) /\ ~Waiting(t) /\ arbs' = arbs
        /\ requests' = requests /\ replies' = replies
    BY <1>4, <1>a
       DEF RejectCommit, PositionsUnreadable, pmVars, Waiting, Opens, Closes
  <2>2. HandlerSends(t, Idle)
    BY <2>1, MovesUnasked DEF Finish
  <2>. QED
    BY <2>1, <2>2, MoveEnds
<1>5. CASE RetryCleared(t)
  <2>. DEFINE job == [threads[t] EXCEPT !.pc = "wait"]
  <2>1. /\ Answered(t) /\ TakeReply(t) /\ threads[t].pc # "idle"
        /\ requests' = requests /\ arbs' = arbs
        /\ threads' = [threads EXCEPT ![t] = job]
    BY <1>5 DEF RetryCleared, Goto
  <2>2. threads[t].sig.arb # NoArb =>
           ArbOf(threads[t].sig.asset, threads[t].sig.arb)
    BY <2>1, CopyFacts
  <2>3. job.pc = "wait" /\ job.sig = threads[t].sig
    BY <2>1, CopyFacts DEF Job
  <2>4. HandlerSends(t, job)
    BY <2>1, MovesAnswered
  <2>. QED
    BY <2>1, <2>2, <2>3, <2>4 DEF HandlerMove, Opens, Closes
<1>. QED
  BY <1>1, <1>2, <1>3, <1>4, <1>5 DEF HandlerStep

-----------------------------------------------------------------------------
(* OrderInv is inductive                                                   *)

\* The parts of OrderInv that are about the table.
TableRight == \A i \in DOMAIN rows : RowRight(i)

\* The parts that are about the memory of the handlers and of the scan.
ThreadRight(t) ==
    /\ threads[t].pc # "idle" /\ threads[t].sig.arb # NoArb =>
          ArbOf(threads[t].sig.asset, threads[t].sig.arb)
    /\ Closes(threads[t]) => threads[t].sig.arb # NoArb
    /\ threads[t].pc = "clear" /\ "outage" \notin Faults =>
          arbs[threads[t].sig.arb].status \notin Healthy

PollRight ==
    /\ poll.pc # "asleep" => \A a \in Assets :
          poll.seen[a] # NoArb => ArbOf(a, poll.seen[a])
    /\ poll.pc = "insert" =>
          /\ poll.new.key.asset = poll.new.asset
          /\ poll.new.status = "pending"
          /\ poll.new.arb # NoArb =>
                ArbOf(poll.new.asset, poll.new.arb) /\ poll.new.kind = "CLOSE"

CallsRight ==
    /\ \A i \in DOMAIN arbs : arbs[i].key.asset = arbs[i].asset
    /\ \A r \in requests : r.op = "open" => r.key.asset = r.asset

LEMMA OrderParts ==
    OrderInv <=> /\ GrantInv /\ WaitsForOwnReply /\ TableRight
                 /\ (\A t \in Threads : ThreadRight(t))
                 /\ PollRight /\ CallsRight
<1>1. ASSUME OrderInv
      PROVE  /\ GrantInv /\ WaitsForOwnReply /\ TableRight
             /\ (\A t \in Threads : ThreadRight(t))
             /\ PollRight /\ CallsRight
  <2>1. TableRight
    BY <1>1, RowsAreRight DEF OrderInv, TableRight
  <2>2. \A t \in Threads : ThreadRight(t)
    BY <1>1 DEF OrderInv, ArbsAreKnown, NoChurn, ThreadRight
  <2>3. PollRight /\ CallsRight
    BY <1>1 DEF OrderInv, ArbsAreKnown, KeysNameAssets, PollRight, CallsRight
  <2>. QED
    BY <1>1, <2>1, <2>2, <2>3 DEF OrderInv
<1>2. ASSUME GrantInv, WaitsForOwnReply, TableRight,
             \A t \in Threads : ThreadRight(t), PollRight, CallsRight
      PROVE  OrderInv
  <2>1. Lineage /\ ("redirect" \notin Faults => FiredCloseReached)
    BY <1>2 DEF TableRight, RowRight, Lineage, FiredCloseReached, ArbOf,
                Executed
  <2>2. "outage" \notin Faults => NoChurn
    BY <1>2 DEF ThreadRight, NoChurn
  <2>3. KeysNameAssets /\ ArbsAreKnown
    BY <1>2 DEF TableRight, RowRight, ThreadRight, PollRight, CallsRight,
                KeysNameAssets, ArbsAreKnown
  <2>. QED
    BY <1>2, <2>1, <2>2, <2>3 DEF OrderInv
<1>. QED
  BY <1>1, <1>2

LEMMA OrderAfter ==
    ASSUME GrantInv', WaitsForOwnReply', TableRight',
           \A t \in Threads : ThreadRight(t)', PollRight', CallsRight'
    PROVE  OrderInv'
BY DEF OrderInv, TableRight, RowRight, ThreadRight, PollRight, CallsRight,
       Lineage, FiredCloseReached, NoChurn, KeysNameAssets, ArbsAreKnown,
       ArbOf, Executed

\* A row that keeps its key and its arb, and is not newly fired, stays right.
LEMMA RowStays ==
    ASSUME ArbsGrow, RowsGrow, NEW i \in DOMAIN rows, RowRight(i),
           rows'[i].key = rows[i].key, rows'[i].arb = rows[i].arb,
           rows'[i].status = "fired" => rows[i].status = "fired"
    PROVE  RowRight(i)'
BY DEF ArbsGrow, RowsGrow, RowRight, ArbOf, Executed, SignalKey

LEMMA ThreadStays ==
    ASSUME TypeOK, ArbsGrow, NEW t \in Threads, ThreadRight(t),
           threads'[t] = threads[t]
    PROVE  ThreadRight(t)'
<1>1. threads'[t].pc # "idle" /\ threads'[t].sig.arb # NoArb =>
         ArbOf(threads[t].sig.asset, threads[t].sig.arb)'
  BY DEF ThreadRight, ArbsGrow, ArbOf
<1>2. Closes(threads'[t]) => threads'[t].sig.arb # NoArb
  BY DEF ThreadRight
<1>3. ASSUME threads'[t].pc = "clear", "outage" \notin Faults
      PROVE  arbs'[threads'[t].sig.arb].status \notin Healthy
  <2>1. threads[t].sig.arb # NoArb
    BY <1>3 DEF ThreadRight, Closes
  <2>2. threads[t].sig.arb \in DOMAIN arbs
    BY <1>3, <2>1 DEF ThreadRight, ArbOf
  <2>. QED
    BY <1>3, <2>2 DEF ThreadRight, ArbsGrow
<1>. QED
  BY <1>1, <1>2, <1>3 DEF ThreadRight, ArbOf, Closes

LEMMA PollStays ==
    ASSUME ArbsGrow, PollRight, poll' = poll
    PROVE  PollRight'
BY DEF ArbsGrow, PollRight, ArbOf

LEMMA OrderHandler ==
    ASSUME OrderInv, GrantInv', NEW t \in Threads, NEW job,
           HandlerMove(t, job), HandlerWrites, poll' = poll
    PROVE  OrderInv'
<1>a. /\ TypeOK /\ WaitsForOwnReply /\ TableRight /\ PollRight /\ CallsRight
      /\ \A u \in Threads : ThreadRight(u)
  BY OrderParts DEF GrantInv
<1>b. HandlerSends(t, job) /\ arbs' = arbs /\ ArbsGrow
  BY ArbsStay DEF HandlerMove
<1>1. WaitsForOwnReply'
  BY <1>a, <1>b, WaitsHandler
<1>2. TableRight'
  <2>1. ASSUME NEW i \in DOMAIN rows
        PROVE  RowRight(i)'
    BY <1>a, <1>b, RowStays DEF HandlerWrites, RowsKeep, TableRight
  <2>. QED
    BY <2>1 DEF TableRight, HandlerWrites, RowsKeep
<1>3. ASSUME NEW u \in Threads
      PROVE  ThreadRight(u)'
  <2>1. threads'[u] = IF u = t THEN job ELSE threads[u]
    BY <1>a, <1>b DEF HandlerSends, TypeOK
  <2>2. CASE u = t
    BY <2>1, <2>2 DEF HandlerMove, ThreadRight, ArbOf, Closes
  <2>3. CASE u # t
    BY <1>a, <1>b, <2>1, <2>3, ThreadStays
  <2>. QED
    BY <2>2, <2>3
<1>4. PollRight'
  BY <1>a, <1>b, PollStays
<1>5. CallsRight'
  BY <1>a, <1>b DEF CallsRight, HandlerMove, HandlerSends, RequestOf
<1>. QED
  BY <1>1, <1>2, <1>3, <1>4, <1>5, OrderAfter

LEMMA OrderPM ==
    ASSUME OrderInv, GrantInv', PMStep,
           UNCHANGED <<rows, approvalVars, pollVars>>
    PROVE  OrderInv'
<1>a. /\ TypeOK /\ WaitsForOwnReply /\ TableRight /\ PollRight /\ CallsRight
      /\ \A t \in Threads : ThreadRight(t)
  BY OrderParts DEF GrantInv
<1>b. /\ rows' = rows /\ threads' = threads /\ poll' = poll
      /\ ArbsGrow
  BY <1>a, PMArbsGrow DEF approvalVars, pollVars
<1>1. WaitsForOwnReply'
  BY <1>a, <1>b, WaitsPM
<1>2. TableRight'
  <2>1. RowsGrow
    BY <1>b, SameKeeps DEF RowsKeep
  <2>2. \A i \in DOMAIN rows : RowRight(i)'
    BY <1>a, <1>b, <2>1, RowStays DEF TableRight
  <2>. QED
    BY <1>b, <2>2 DEF TableRight
<1>3. \A t \in Threads : ThreadRight(t)'
  BY <1>a, <1>b, ThreadStays
<1>4. PollRight'
  BY <1>a, <1>b, PollStays
<1>5. CallsRight'
  <2>1. \A r \in requests' : r.op = "open" => r.key.asset = r.asset
    BY <1>a, PMStepRequests DEF CallsRight
  <2>2. \A i \in DOMAIN arbs' : arbs'[i].key.asset = arbs'[i].asset
    <3>1. CASE DOMAIN arbs' = DOMAIN arbs
      BY <1>a, <1>b, <3>1 DEF ArbsGrow, CallsRight
    <3>2. ASSUME NEW r \in requests, AcceptOpen(r)
          PROVE  \A i \in DOMAIN arbs' : arbs'[i].key.asset = arbs'[i].asset
      <4>1. arbs \in Seq(Arb)
        BY <1>a DEF TypeOK, PMTypeOK
      <4>2. r.key.asset = r.asset
        BY <1>a, <3>2 DEF AcceptOpen, CallsRight
      <4>. QED
        BY <1>a, <3>2, <4>1, <4>2 DEF AcceptOpen, CallsRight
    <3>3. (\E r \in requests : AcceptOpen(r)) \/ DOMAIN arbs' = DOMAIN arbs
      BY DEF PMStep, DuplicateOpen, ConflictOpen, AcceptClose, RepeatClose,
             Refuse, GiveUp, Settle
    <3>. QED
      BY <3>1, <3>2, <3>3
  <2>. QED
    BY <2>1, <2>2 DEF CallsRight
<1>. QED
  BY <1>1, <1>2, <1>3, <1>4, <1>5, OrderAfter

\* The arb a CLOSE is told to close is an arb of its asset.
LEMMA CloseArbKnown ==
    ASSUME TableRight, NEW asset, NEW seen,
           seen # NoArb => ArbOf(asset, seen),
           ArbIdForClose(seen, asset) # NoArb
    PROVE  ArbOf(asset, ArbIdForClose(seen, asset))
<1>1. CASE seen # NoArb
  BY <1>1 DEF ArbIdForClose
<1>2. CASE seen = NoArb
  <2>1. ArbIdForClose(seen, asset) \in LastOpenArb(asset)
    BY <1>2 DEF ArbIdForClose
  <2>2. PICK i \in OpensWithArb(asset) : ArbIdForClose(seen, asset) = rows[i].arb
    BY <2>1 DEF LastOpenArb
  <2>. QED
    BY <2>2 DEF OpensWithArb, TableRight, RowRight
<1>. QED
  BY <1>1, <1>2

LEMMA PollStepRight ==
    ASSUME OrderInv, PollStep \/ HourTick
    PROVE  PollRight'
<1>a. TypeOK /\ TableRight /\ PollRight
  BY OrderParts DEF GrantInv
<1>b. arbs' = arbs
  BY DEF PollStep, ScanStep, PollStart, PollDecide, PollInsert, HourTick, pmVars
<1>c. ASSUME NEW asset, poll' = Rest(asset), poll.pc # "asleep"
      PROVE  PollRight'
  BY <1>a, <1>b, <1>c DEF PollRight, Rest, Asleep, ArbOf
<1>1. ASSUME NEW up \in BOOLEAN, PollStart(up)
      PROVE  PollRight'
  <2>1. \A a \in Assets : SeenArb(a, up) # NoArb => ArbOf(a, SeenArb(a, up))
    BY <1>a, SeenArbKnown
  <2>2. poll'.pc = "scan" /\ \A a \in Assets : poll'.seen[a] = SeenArb(a, up)
    BY <1>1 DEF PollStart
  <2>. QED
    BY <1>b, <2>1, <2>2 DEF PollRight, ArbOf
<1>2. ASSUME NEW asset \in Assets, NEW avg \in Averages, NEW spot \in BOOLEAN,
             PollDecide(asset, avg, spot)
      PROVE  PollRight'
  <2>. DEFINE seen == poll.seen[asset]
              kind == Decide(DeriveState(seen, asset), avg, spot)
              arb == IF kind = "CLOSE" THEN ArbIdForClose(seen, asset)
                     ELSE NoArb
              new == PendingRow(poll.now, asset, kind, arb)
  <2>1. poll.pc = "scan"
    BY <1>2 DEF PollDecide
  <2>2. \/ poll' = Rest(asset)
        \/ poll' = [pc |-> "insert", now |-> poll.now, seen |-> poll.seen,
                    todo |-> poll.todo, new |-> new]
    BY <1>2 DEF PollDecide
  <2>3. seen # NoArb => ArbOf(asset, seen)
    BY <1>a, <2>1 DEF PollRight
  <2>4. arb # NoArb => ArbOf(asset, arb) /\ kind = "CLOSE"
    BY <1>a, <2>3, CloseArbKnown
  <2>. HIDE DEF kind, arb
  <2>5. /\ new.asset = asset /\ new.key.asset = asset /\ new.kind = kind
        /\ new.status = "pending" /\ new.arb = arb
    BY DEF PendingRow, IdempotencyKey
  <2>. HIDE DEF new
  <2>. QED
    BY <1>a, <1>b, <1>c, <2>1, <2>2, <2>4, <2>5 DEF PollRight, ArbOf
<1>3. CASE PollInsert
  BY <1>3, <1>c DEF PollInsert
<1>4. CASE HourTick
  BY <1>4, <1>a, <1>b, PollStays, ArbsStay DEF HourTick
<1>. QED
  BY <1>1, <1>2, <1>3, <1>4 DEF PollStep, ScanStep

LEMMA OrderPoll ==
    ASSUME OrderInv, GrantInv', PollStep \/ HourTick, UNCHANGED approvalVars
    PROVE  OrderInv'
<1>a. /\ TypeOK /\ WaitsForOwnReply /\ TableRight /\ PollRight /\ CallsRight
      /\ \A t \in Threads : ThreadRight(t)
  BY OrderParts DEF GrantInv
<1>b. /\ threads' = threads /\ arbs' = arbs /\ requests' = requests
      /\ replies' = replies /\ ArbsGrow
  BY ArbsStay DEF approvalVars, PollStep, ScanStep, PollStart, PollDecide,
                  PollInsert, HourTick, pmVars
<1>1. WaitsForOwnReply'
  <2>1. \A t \in Threads : WaitsRight(t)'
    BY <1>a, <1>b, WaitsUndisturbed
  <2>. QED
    BY <2>1 DEF WaitsForOwnReply, WaitsRight, Waiting
<1>2. TableRight'
  <2>1. CASE rows' = rows
    <3>1. RowsGrow
      BY <2>1, SameKeeps DEF RowsKeep
    <3>2. \A i \in DOMAIN rows : RowRight(i)'
      BY <1>a, <1>b, <2>1, <3>1, RowStays DEF TableRight
    <3>. QED
      BY <2>1, <3>2 DEF TableRight
  <2>2. CASE poll.pc = "insert" /\ rows' = Append(rows, poll.new)
    <3>1. rows \in Seq(Row) /\ poll.new \in Row
      BY <1>a, <2>2 DEF TypeOK, Scan, Asleep, Insert
    <3>2. PICK n : n = Len(rows) + 1
      OBVIOUS
    <3>3. /\ RowsGrow
          /\ DOMAIN rows' = DOMAIN rows \cup {n}
          /\ rows'[n] = poll.new
          /\ \A i \in DOMAIN rows : rows'[i] = rows[i]
      BY <2>2, <3>1, <3>2, AppendGrows
    <3>4. \A i \in DOMAIN rows : RowRight(i)'
      BY <1>a, <1>b, <3>3, RowStays DEF TableRight
    <3>5. RowRight(n)'
      BY <1>a, <1>b, <2>2, <3>3 DEF PollRight, RowRight, ArbOf
    <3>. QED
      BY <3>3, <3>4, <3>5 DEF TableRight
  <2>. QED
    BY <2>1, <2>2 DEF PollStep, ScanStep, PollStart, PollDecide, PollInsert,
                      HourTick
<1>3. \A t \in Threads : ThreadRight(t)'
  BY <1>a, <1>b, ThreadStays
<1>4. PollRight'
  BY PollStepRight
<1>5. CallsRight'
  BY <1>a, <1>b DEF CallsRight
<1>. QED
  BY <1>1, <1>2, <1>3, <1>4, <1>5, OrderAfter

\* After a crash nobody waits, and what is in flight is addressed to nobody.
LEMMA OrderCrash ==
    ASSUME OrderInv, GrantInv', Crash
    PROVE  OrderInv'
<1>a. TypeOK /\ TableRight /\ CallsRight
  BY OrderParts DEF GrantInv
<1>b. rows' = rows /\ arbs' = arbs /\ ArbsGrow /\ RowsGrow
  BY ArbsStay, SameKeeps DEF Crash, RowsKeep
<1>1. PICK survivors \in SUBSET requests :
         requests' = {[r EXCEPT !.to = Nobody] : r \in survivors}
  BY DEF Crash
<1>2. \A r \in survivors : LET m == [r EXCEPT !.to = Nobody]
                           IN  /\ m.to = Nobody
                               /\ m.op = "open" => /\ r.op = "open"
                                                   /\ m.key = r.key
                                                   /\ m.asset = r.asset
  BY <1>a, <1>1 DEF TypeOK, PMTypeOK, OpenRequest, CloseRequest
<1>3. WaitsForOwnReply'
  <2>1. \A r \in requests' : r.to \notin Threads
    BY <1>1, <1>2, NobodyAssumption
  <2>2. \A t \in Threads : replies'[t].code = "none"
    BY DEF Crash, NoReply
  <2>. QED
    BY <2>1, <2>2 DEF WaitsForOwnReply, Answered
<1>4. TableRight'
  BY <1>a, <1>b, RowStays DEF TableRight
<1>5. \A t \in Threads : ThreadRight(t)'
  BY DEF Crash, Abandon, Idle, ThreadRight, Closes
<1>6. PollRight'
  BY DEF Crash, Asleep, PollRight
<1>7. CallsRight'
  <2>1. \A r \in survivors : r.op = "open" => r.key.asset = r.asset
    BY <1>a, <1>1 DEF CallsRight
  <2>2. ASSUME NEW m \in requests', m.op = "open"
        PROVE  m.key.asset = m.asset
    <3>1. PICK r \in survivors : m = [r EXCEPT !.to = Nobody]
      BY <1>1
    <3>2. r.op = "open" /\ m.key = r.key /\ m.asset = r.asset
      BY <1>2, <2>2, <3>1
    <3>. QED
      BY <2>1, <3>2
  <2>. QED
    BY <1>a, <1>b, <2>2 DEF CallsRight
<1>. QED
  BY <1>3, <1>4, <1>5, <1>6, <1>7, OrderAfter

LEMMA OrderInit == Init => OrderInv
<1>. SUFFICES ASSUME Init PROVE OrderInv
  OBVIOUS
<1>1. rows = << >> /\ arbs = << >> /\ requests = {}
  BY DEF Init, PMInit
<1>2. \A t \in Threads : threads[t].pc = "idle" /\ replies[t].code = "none"
  BY DEF Init, PMInit, ApprovalInit, Idle, NoReply
<1>3. poll.pc = "asleep"
  BY DEF Init, PollInit, Asleep
<1>4. WaitsForOwnReply
  BY <1>1, <1>2 DEF WaitsForOwnReply, Answered
<1>5. TableRight /\ CallsRight
  BY <1>1 DEF TableRight, CallsRight
<1>6. \A t \in Threads : ThreadRight(t)
  BY <1>2 DEF ThreadRight, Closes
<1>7. PollRight
  BY <1>3 DEF PollRight
<1>. QED
  BY <1>4, <1>5, <1>6, <1>7, GrantInit, OrderParts

LEMMA OrderNext == OrderInv /\ [Next]_vars => OrderInv'
<1>. SUFFICES ASSUME OrderInv, [Next]_vars PROVE OrderInv'
  OBVIOUS
<1>a. GrantInv'
  BY GrantNext DEF OrderInv
<1>1. CASE PMStep /\ UNCHANGED <<rows, approvalVars, pollVars>>
  BY <1>a, <1>1, OrderPM
<1>2. ASSUME NEW t \in Threads, Click(t), UNCHANGED pollVars
      PROVE  OrderInv'
  <2>1. HandlerWrites
    BY <1>2, WritesNothing DEF Click, ApproveLoad, RejectLoad, RetryLoad
  <2>. QED
    BY <1>a, <1>2, <2>1, ClickMoves, OrderHandler DEF pollVars
<1>3. ASSUME NEW t \in Threads, HandlerStep(t), UNCHANGED pollVars
      PROVE  OrderInv'
  BY <1>a, <1>3, HandlerStepWrites, HandlerMoves, OrderHandler DEF pollVars
<1>4. CASE (PollStep \/ HourTick) /\ UNCHANGED approvalVars
  BY <1>a, <1>4, OrderPoll
<1>5. CASE Crash
  BY <1>a, <1>5, OrderCrash
<1>6. CASE UNCHANGED vars
  BY <1>a, <1>6
     DEF vars, OrderInv, WaitsForOwnReply, KeysNameAssets, ArbsAreKnown,
         Lineage, FiredCloseReached, NoChurn, Answered, Opens, Closes,
         RequestOf, ReplyFits, Executed, ArbOf, SignalKey
<1>. QED
  BY <1>1, <1>2, <1>3, <1>4, <1>5, <1>6 DEF Next

\* A handler only ever reads the answer to the request it last sent, and every
\* arb_id it or the scan holds is an arb of the asset in hand: timeouts, late
\* answers, crashes and other threads' writes never mix two orders up
\* (approval.py:69-225, poller.py:115-174).
THEOREM OrderHolds == Spec => []OrderInv
BY OrderInit, OrderNext, PTL DEF Spec

\* The arb_id of a row (approval.py:115 and 216, poller.py:172) is always an
\* arb of the row's asset, and of an OPEN one that its own signal opened.
THEOREM LineageHolds == Spec => []Lineage
<1>1. OrderInv => Lineage
  BY DEF OrderInv
<1>. QED
  BY <1>1, OrderHolds, PTL

\* Without a redirect in front of the PM, a CLOSE marked fired
\* (approval.py:111-116) was executed and its arb never becomes healthy again.
THEOREM FiredClosesReached ==
    ASSUME "redirect" \notin Faults PROVE Spec => []FiredCloseReached
<1>1. OrderInv => FiredCloseReached
  BY DEF OrderInv
<1>. QED
  BY <1>1, OrderHolds, PTL

\* While the positions can be read, the close a retry sends never hits a
\* healthy arb (approval.py:150, 162-177): no churn, whatever the other
\* threads, the poller and the PM do between the look and the close.
THEOREM RetriesNeverChurn ==
    ASSUME "outage" \notin Faults PROVE Spec => []NoChurn
<1>1. OrderInv => NoChurn
  BY DEF OrderInv
<1>. QED
  BY <1>1, OrderHolds, PTL

-----------------------------------------------------------------------------
(* The safety halves of ClickDecides, RequestAnswered and ScanCompletes:   *)
(* what must have happened when a handler or a scan ends, and that it      *)
(* never turns back.                                                       *)

\* A click that has found its row pending ends with the row decided, or leaves
\* its handler among the unrecorded; and a decision is never taken back.
ClickIsDecided ==
    \A t \in Threads :
        /\ threads[t].pc \in {"approve", "fire", "reject"}
        /\ threads'[t].pc = "idle"
        => \/ rows'[threads[t].id].status # "pending"
           \/ [id |-> threads[t].id, pc |-> threads[t].pc] \in unrecorded'

DecisionsStand ==
    \A i \in DOMAIN rows :
        rows[i].status # "pending" => rows'[i].status # "pending"

\* A handler goes through its waits in order; it sends at most one close, and
\* after it at most one open.
RequestAdvances ==
    \A t \in Threads : threads[t].pc # "idle" =>
        \/ threads'[t] = threads[t]
        \/ threads'[t].pc = "idle"
        \/ threads[t].pc = "approve" /\ threads'[t].pc = "fire"
        \/ threads[t].pc = "retry" /\ threads'[t].pc \in {"clear", "wait"}
        \/ threads[t].pc = "clear" /\ threads'[t].pc = "wait"
        \/ threads[t].pc = "wait" /\ threads'[t].pc = "reopen"

\* A scan takes its clock and the positions once, and each asset once.
ScanAdvances ==
    poll.pc # "asleep" =>
        \/ poll' = poll
        \/ poll'.pc = "asleep"
        \/ /\ poll'.now = poll.now /\ poll'.seen = poll.seen
           /\ \/ /\ poll.pc = "scan" /\ poll'.pc = "insert"
                 /\ poll'.todo = poll.todo
              \/ /\ poll'.pc = "scan"
                 /\ poll'.todo \subseteq poll.todo /\ poll'.todo # poll.todo

\* A handler's step takes its thread to a later point of the handler.
LEMMA HandlerAdvances ==
    ASSUME TypeOK, NEW t \in Threads, HandlerStep(t)
    PROVE  /\ \A u \in Threads \ {t} : threads'[u] = threads[u]
           /\ \/ threads'[t].pc = "idle"
              \/ threads[t].pc = "approve" /\ threads'[t].pc = "fire"
              \/ threads[t].pc = "retry" /\ threads'[t].pc \in {"clear", "wait"}
              \/ threads[t].pc = "clear" /\ threads'[t].pc = "wait"
              \/ threads[t].pc = "wait" /\ threads'[t].pc = "reopen"
<1>a. threads \in [Threads -> Job \cup {Idle}]
  BY DEF TypeOK
<1>b. threads[t].pc # "idle" => threads[t] \in Job
  BY <1>a, JobType
<1>c. ASSUME Finish(t)
      PROVE  threads'[t].pc = "idle" /\ \A u \in Threads \ {t} : threads'[u] = threads[u]
  BY <1>a, <1>c DEF Finish, Idle
<1>d. ASSUME NEW pc, Goto(t, pc), threads[t].pc # "idle"
      PROVE  threads'[t].pc = pc /\ \A u \in Threads \ {t} : threads'[u] = threads[u]
  BY <1>a, <1>b, <1>d DEF Goto, Job
<1>1. CASE ApproveOpen(t)
  BY <1>1, <1>d DEF ApproveOpen
<1>2. ASSUME NEW up \in BOOLEAN, ApproveClose(t, up)
      PROVE  /\ threads[t].pc = "approve" /\ threads'[t].pc \in {"idle", "fire"}
             /\ \A u \in Threads \ {t} : threads'[u] = threads[u]
  BY <1>2, <1>a, <1>b, <1>c DEF ApproveClose, Job
<1>3. ASSUME NEW up \in BOOLEAN, RetryCheck(t, up)
      PROVE  /\ threads[t].pc = "retry"
             /\ threads'[t].pc \in {"idle", "clear", "wait"}
             /\ \A u \in Threads \ {t} : threads'[u] = threads[u]
  BY <1>3, <1>a, <1>b, <1>c, <1>d DEF RetryCheck, Job
<1>4. CASE RetryCleared(t)
  BY <1>4, <1>d DEF RetryCleared
<1>5. CASE RetryReopen(t)
  BY <1>5, <1>a, <1>b DEF RetryReopen, Job
<1>6. CASE \/ ApproveFired(t) \/ ApproveFailed(t) \/ RejectCommit(t)
           \/ RetryFired(t) \/ RetryFailed(t)
           \/ AnswerUnreadable(t) \/ PositionsUnreadable(t)
  BY <1>6, <1>a, <1>c, AbandonFinishes
     DEF ApproveFired, ApproveFailed, RejectCommit, RetryFired, RetryFailed,
         AnswerUnreadable, PositionsUnreadable
<1>. QED
  BY <1>1, <1>2, <1>3, <1>4, <1>5, <1>6 DEF HandlerStep

\* No request turns back (approval.py:69-225): with the fairness of FairSpec it
\* is over after its last wait.
THEOREM RequestsAdvance == Spec => [][RequestAdvances]_vars
<1>1. ASSUME TypeOK, Next
      PROVE  RequestAdvances
  <2>1. CASE threads' = threads
    BY <2>1 DEF RequestAdvances
  <2>2. ASSUME NEW t \in Threads, HandlerStep(t)
        PROVE  RequestAdvances
    BY <1>1, <2>2, HandlerAdvances DEF RequestAdvances
  <2>3. ASSUME NEW t \in Threads, Click(t)
        PROVE  RequestAdvances
    <3>1. threads[t].pc = "idle"
      BY <2>3 DEF Click, ApproveLoad, RejectLoad, RetryLoad
    <3>2. \A u \in Threads \ {t} : threads'[u] = threads[u]
      BY <1>1, <2>3 DEF Click, ApproveLoad, RejectLoad, RetryLoad, Load, TypeOK
    <3>. QED
      BY <3>1, <3>2 DEF RequestAdvances
  <2>4. CASE Crash
    BY <2>4 DEF Crash, Abandon, Idle, RequestAdvances
  <2>. QED
    BY <1>1, <2>1, <2>2, <2>3, <2>4 DEF Next, approvalVars
<1>. QED
  BY <1>1, TypeCorrect, PTL DEF Spec

\* A handler that writes a row leaves it decided; one that ends without writing
\* a pending row is among the unrecorded.
LEMMA HandlerDecides ==
    ASSUME OrderInv, NEW t \in Threads, HandlerStep(t)
    PROVE  ClickIsDecided /\ DecisionsStand
<1>a. /\ threads[t].pc # "idle" /\ TypeOK /\ rows \in Seq(Row)
      /\ threads[t].id \in DOMAIN rows
      /\ \A i \in DOMAIN rows : rows[i] \in Row
  <2>1. threads[t].pc # "idle"
    BY DEF HandlerStep, ApproveOpen, ApproveClose, ApproveFired, ApproveFailed,
           RejectCommit, RetryCheck, RetryCleared, RetryReopen, RetryFired,
           RetryFailed, AnswerUnreadable, PositionsUnreadable, Opens, Closes
  <2>2. TypeOK /\ rows \in Seq(Row)
    BY DEF OrderInv, GrantInv, TypeOK
  <2>. QED
    BY <2>1, <2>2, CopyFacts
<1>. DEFINE id == threads[t].id
<1>b. ASSUME \/ rows' = rows /\ (threads[t].pc \in {"approve", "fire", "reject"}
                                    => threads'[t].pc # "idle")
             \/ /\ \A i \in DOMAIN rows \ {id} : rows'[i] = rows[i]
                /\ rows'[id].status # "pending"
      PROVE  ClickIsDecided /\ DecisionsStand
  <2>1. \A u \in Threads \ {t} : threads'[u] = threads[u]
    BY <1>a, HandlerAdvances
  <2>2. ClickIsDecided
    BY <1>b, <2>1 DEF ClickIsDecided
  <2>. QED
    BY <1>b, <2>2 DEF DecisionsStand
<1>c. ASSUME NEW status, rows' = [rows EXCEPT ![id].status = status],
             status # "pending"
      PROVE  ClickIsDecided /\ DecisionsStand
  <2>1. /\ rows'[id].status = status
        /\ \A i \in DOMAIN rows \ {id} : rows'[i] = rows[i]
    BY <1>a, <1>c DEF Row
  <2>. QED
    BY <1>b, <1>c, <2>1
<1>1. CASE ApproveOpen(t)
  <2>1. threads'[t].pc = "fire"
    <3>1. threads \in [Threads -> Job \cup {Idle}] /\ threads[t] \in Job
      BY <1>a, JobType DEF TypeOK
    <3>. QED
      BY <1>1, <3>1 DEF ApproveOpen, Goto, Job
  <2>. QED
    BY <1>1, <1>b, <2>1 DEF ApproveOpen
<1>2. ASSUME NEW up \in BOOLEAN, ApproveClose(t, up)
      PROVE  ClickIsDecided /\ DecisionsStand
  <2>1. CASE MarkError(id)
    BY <1>c, <2>1 DEF MarkError
  <2>2. CASE rows' = rows /\ threads' = [threads EXCEPT ![t].pc = "fire",
                               ![t].sig.arb = CloseTarget(threads[t].sig, up)]
    <3>1. threads \in [Threads -> Job \cup {Idle}] /\ threads[t] \in Job
      BY <1>a, JobType DEF TypeOK
    <3>2. threads'[t].pc = "fire"
      BY <2>2, <3>1 DEF Job
    <3>. QED
      BY <1>b, <2>2, <3>2
  <2>. QED
    BY <1>2, <2>1, <2>2 DEF ApproveClose
<1>3. CASE ApproveFired(t) \/ RetryFired(t)
  <2>1. /\ rows'[id].status = "fired"
        /\ \A i \in DOMAIN rows \ {id} : rows'[i] = rows[i]
    BY <1>a, <1>3 DEF ApproveFired, RetryFired, Row
  <2>. QED
    BY <1>b, <2>1
<1>4. CASE ApproveFailed(t)
  BY <1>4, <1>c DEF ApproveFailed, MarkError
<1>5. CASE RejectCommit(t)
  BY <1>5, <1>c DEF RejectCommit
<1>6. CASE RetryFailed(t)
  BY <1>6, <1>b, <1>c DEF RetryFailed, MarkError
<1>7. CASE AnswerUnreadable(t) \/ PositionsUnreadable(t)
  <2>1. rows' = rows /\ Abandon({t})
    BY <1>7 DEF AnswerUnreadable, PositionsUnreadable
  <2>2. threads[t].pc \in {"approve", "fire", "reject"} =>
           [id |-> threads[t].id, pc |-> threads[t].pc] \in unrecorded'
    BY <2>1 DEF Abandon
  <2>3. \A u \in Threads \ {t} : threads'[u] = threads[u]
    BY <1>a, HandlerAdvances
  <2>. QED
    BY <2>1, <2>2, <2>3 DEF ClickIsDecided, DecisionsStand
<1>8. CASE RetryCleared(t) \/ RetryReopen(t) \/ \E up \in BOOLEAN : RetryCheck(t, up)
  BY <1>8, <1>b DEF RetryCleared, RetryReopen, RetryCheck
<1>. QED
  BY <1>1, <1>2, <1>3, <1>4, <1>5, <1>6, <1>7, <1>8 DEF HandlerStep

\* A click on a pending row ends with the row decided, and no row is ever
\* pending again (approval.py:69-143), whatever the PM answers or fails to
\* answer and whoever else writes the row; unless its handler dies with the
\* process, or gets an answer that it cannot read.
THEOREM ClicksDecide == Spec => [][ClickIsDecided /\ DecisionsStand]_vars
<1>1. ASSUME OrderInv, Next
      PROVE  ClickIsDecided /\ DecisionsStand
  <2>1. CASE rows' = rows /\ threads' = threads
    BY <2>1 DEF ClickIsDecided, DecisionsStand
  <2>2. ASSUME NEW t \in Threads, HandlerStep(t)
        PROVE  ClickIsDecided /\ DecisionsStand
    BY <1>1, <2>2, HandlerDecides
  <2>3. ASSUME NEW t \in Threads, Click(t)
        PROVE  ClickIsDecided /\ DecisionsStand
    <3>1. threads[t].pc = "idle" /\ rows' = rows
      BY <2>3 DEF Click, ApproveLoad, RejectLoad, RetryLoad
    <3>2. \A u \in Threads \ {t} : threads'[u] = threads[u]
      BY <1>1, <2>3 DEF Click, ApproveLoad, RejectLoad, RetryLoad, Load,
                        OrderInv, GrantInv, TypeOK
    <3>. QED
      BY <3>1, <3>2 DEF ClickIsDecided, DecisionsStand
  <2>4. CASE PollInsert /\ threads' = threads
    <3>1. \A i \in DOMAIN rows : rows'[i] = rows[i]
      BY <1>1, <2>4 DEF PollInsert, OrderInv, GrantInv, TypeOK
    <3>. QED
      BY <2>4, <3>1 DEF ClickIsDecided, DecisionsStand
  <2>5. CASE Crash
    BY <2>5 DEF Crash, Abandon, ClickIsDecided, DecisionsStand
  <2>. QED
    BY <1>1, <2>1, <2>2, <2>3, <2>4, <2>5
       DEF Next, PollStep, ScanStep, PollStart, PollDecide, HourTick, approvalVars
<1>. QED
  BY <1>1, OrderHolds, PTL DEF Spec

\* A scan polls each asset once, over one look at the clock and the positions
\* (poller.py:217-236): it is over after at most two steps for each asset.
THEOREM ScansAdvance == Spec => [][ScanAdvances]_vars
<1>. DEFINE InTodo == poll.pc = "insert" => poll.new.asset \in poll.todo
<1>1. Init => InTodo
  BY DEF Init, PollInit, Asleep
<1>2. ASSUME TypeOK, InTodo, Next
      PROVE  InTodo' /\ ScanAdvances
  <2>1. CASE poll' = poll
    BY <1>2, <2>1 DEF ScanAdvances
  <2>2. ASSUME NEW asset \in poll.todo, poll' = Rest(asset)
        PROVE  InTodo' /\ ScanAdvances
    <3>1. poll'.pc = "asleep"
          \/ /\ poll'.pc = "scan" /\ poll'.now = poll.now
             /\ poll'.seen = poll.seen /\ poll'.todo = poll.todo \ {asset}
      BY <2>2 DEF Rest, Asleep
    <3>. QED
      BY <2>2, <3>1 DEF ScanAdvances
  <2>3. ASSUME NEW asset \in Assets, NEW avg \in Averages, NEW spot \in BOOLEAN,
               PollDecide(asset, avg, spot)
        PROVE  InTodo' /\ ScanAdvances
    <3>1. CASE poll' = Rest(asset)
      BY <2>2, <2>3, <3>1 DEF PollDecide
    <3>2. CASE \E new : /\ new.asset = asset
                        /\ poll' = [pc |-> "insert", now |-> poll.now,
                                    seen |-> poll.seen, todo |-> poll.todo,
                                    new |-> new]
      BY <2>3, <3>2 DEF PollDecide, ScanAdvances
    <3>. QED
      BY <2>3, <3>1, <3>2 DEF PollDecide, PendingRow
  <2>4. CASE PollInsert
    BY <1>2, <2>2, <2>4 DEF PollInsert
  <2>5. ASSUME NEW up \in BOOLEAN, PollStart(up)
        PROVE  InTodo' /\ ScanAdvances
    BY <2>5 DEF PollStart, ScanAdvances
  <2>6. CASE Crash
    BY <2>6 DEF Crash, Asleep, ScanAdvances
  <2>. QED
    BY <1>2, <2>1, <2>3, <2>4, <2>5, <2>6
       DEF Next, PollStep, ScanStep, HourTick, pollVars
<1>3. InTodo /\ UNCHANGED vars => InTodo'
  BY DEF vars
<1>. QED
  BY <1>1, <1>2, <1>3, TypeCorrect, PTL DEF Spec
=============================================================================
