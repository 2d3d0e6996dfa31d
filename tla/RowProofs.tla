----------------------------- MODULE RowProofs -----------------------------
(***************************************************************************)
(* What a row says of its order, while no two requests are at work on one  *)
(* row: proofs of FiredOpenMatchesArb, OpensSeparatedByClose,              *)
(* RetryOpensAnew, RejectedMeansNoOrder, NoSilentOrder and                 *)
(* FailedOrderIsRetryable from the invariant RowInv.                       *)
(***************************************************************************)
EXTENDS OrderProofs, WellFoundedInduction

-----------------------------------------------------------------------------
(* Orders and rows, and what keeps them                                    *)

LEMMA RowsTyped ==
    ASSUME TypeOK
    PROVE  /\ rows \in Seq(Row) /\ arbs \in Seq(Arb) /\ stamp \in Nat
           /\ \A i \in DOMAIN rows :
                 rows[i] \in Row /\ rows[i].key \in Key /\ i \in Nat \ {0}
           /\ \A a \in DOMAIN arbs :
                 arbs[a] \in Arb /\ arbs[a].key \in Key /\ a \in Nat \ {0}
           /\ \A r \in requests : r.op = "open" => r.key \in Key
           /\ OrderKeys \subseteq Key
<1>1. rows \in Seq(Row) /\ arbs \in Seq(Arb) /\ stamp \in Nat
  BY DEF TypeOK, PMTypeOK
<1>2. \A i \in DOMAIN rows : rows[i] \in Row /\ i \in Nat \ {0}
  BY <1>1
<1>3. \A a \in DOMAIN arbs : arbs[a] \in Arb /\ a \in Nat \ {0}
  BY <1>1
<1>4. \A r \in requests : r.op = "open" => r.key \in Key
  BY DEF TypeOK, PMTypeOK, OpenRequest, CloseRequest
<1>5. /\ \A i \in DOMAIN rows : rows[i].key \in Key
      /\ \A a \in DOMAIN arbs : arbs[a].key \in Key
  BY <1>2, <1>3 DEF Row, Arb
<1>. QED
  BY <1>1, <1>2, <1>3, <1>4, <1>5 DEF OrderKeys

\* The PM adds an arb for a key that no arb has, or none.
LEMMA PMArbs ==
    ASSUME TypeOK, PMStep
    PROVE  \/ DOMAIN arbs' = DOMAIN arbs
           \/ \E r \in requests :
                 /\ r.op = "open"
                 /\ \A a \in DOMAIN arbs : arbs[a].key # r.key
                 /\ DOMAIN arbs' = DOMAIN arbs \cup {Len(arbs) + 1}
                 /\ Len(arbs) + 1 \notin DOMAIN arbs
                 /\ arbs'[Len(arbs) + 1].key = r.key
                 /\ requests' = requests \ {r}
                 /\ r.to \in Threads => Answered(r.to)'
<1>1. ASSUME NEW r \in requests, AcceptOpen(r)
      PROVE  /\ r.op = "open"
             /\ \A a \in DOMAIN arbs : arbs[a].key # r.key
             /\ DOMAIN arbs' = DOMAIN arbs \cup {Len(arbs) + 1}
             /\ Len(arbs) + 1 \notin DOMAIN arbs
             /\ arbs'[Len(arbs) + 1].key = r.key
             /\ requests' = requests \ {r}
             /\ r.to \in Threads => Answered(r.to)'
  <2>1. PICK arb : arbs' = Append(arbs, arb) /\ arb.key = r.key
    BY <1>1 DEF AcceptOpen
  <2>2. /\ DOMAIN arbs' = DOMAIN arbs \cup {Len(arbs) + 1}
        /\ Len(arbs) + 1 \notin DOMAIN arbs
        /\ arbs'[Len(arbs) + 1] = arb
    BY <2>1, RowsTyped
  <2>3. PICK code \in {"ok", "garbled"} : \E n : Answer(r, code, n)
    BY <1>1 DEF AcceptOpen, Succeed
  <2>4. r.to \in Threads => Answered(r.to)'
    BY <2>3 DEF Answer, Answered, TypeOK, PMTypeOK
  <2>. QED
    BY <1>1, <2>1, <2>2, <2>3, <2>4 DEF AcceptOpen, Answer
<1>2. (\E r \in requests : AcceptOpen(r)) \/ DOMAIN arbs' = DOMAIN arbs
  BY DEF PMStep, DuplicateOpen, ConflictOpen, AcceptClose, RepeatClose, Refuse,
         GiveUp, Settle
<1>. QED
  BY <1>1, <1>2

\* The PM moves an order from the wire to its book, and invents none.
LEMMA PMOrders == ASSUME TypeOK, PMStep PROVE OrderKeys' \subseteq OrderKeys
<1>1. \A r \in requests' : r.op = "open" => r.key \in OrderKeys
  BY PMStepRequests DEF OrderKeys
<1>2. \A a \in DOMAIN arbs' : arbs'[a].key \in OrderKeys
  BY PMArbs, PMArbsGrow DEF OrderKeys, ArbsGrow
<1>. QED
  BY <1>1, <1>2 DEF OrderKeys

LEMMA AliasedStays ==
    ASSUME RowsGrow, NEW i \in DOMAIN rows, ~Aliased(i)'
    PROVE  ~Aliased(i)
BY DEF RowsGrow, Aliased, SignalKey

LEMMA NoOrderStays ==
    ASSUME RowsGrow, OrderKeys' \subseteq OrderKeys, NEW i \in DOMAIN rows,
           NoOrderFor(i)
    PROVE  NoOrderFor(i)'
BY DEF RowsGrow, NoOrderFor, SignalKey

LEMMA RecordedStays ==
    ASSUME OrdersAreRecorded, RowsGrow, OrderKeys' \subseteq OrderKeys,
           stamp' = stamp, \A i \in DOMAIN rows' : rows'[i].key.retry <= stamp
    PROVE  OrdersAreRecorded'
BY DEF OrdersAreRecorded, RowsGrow, SignalKey

\* No row comes back from its rejection, so what separates the OPENs stays.
LEMMA SeparatedStays ==
    ASSUME rows \in Seq(Row), RowsKeep, \A i \in DOMAIN rows :
              rows[i].status = "rejected" => rows'[i].status = "rejected"
    PROVE  /\ OpensSeparatedByClose => OpensSeparatedByClose'
           /\ InsertIsSeparated /\ poll' = poll => InsertIsSeparated'
<1>a. \A i, j \in DOMAIN rows : \A k \in (i + 1) .. (j - 1) : k \in DOMAIN rows
  OBVIOUS
<1>1. OpensSeparatedByClose => OpensSeparatedByClose'
  BY <1>a DEF RowsKeep, RowsGrow, OpensSeparatedByClose
<1>2. InsertIsSeparated /\ poll' = poll => InsertIsSeparated'
  BY DEF RowsKeep, RowsGrow, InsertIsSeparated
<1>. QED
  BY <1>1, <1>2

\* A handler that fires a row goes on undisturbed, while nobody else orders
\* under the row's key.
LEMMA FiringStays ==
    ASSUME RowsGrow, NEW i \in DOMAIN rows, NEW t \in Threads, Firing(t, i),
           threads'[t] = threads[t], replies'[t] = replies[t],
           \/ Answered(t)
           \/ /\ \A a \in DOMAIN arbs' : Stripped(arbs'[a].key) = SignalKey(i)
                    => \E b \in DOMAIN arbs : arbs[b].key = arbs'[a].key
              /\ \A r \in requests' :
                    r.op = "open" /\ Stripped(r.key) = SignalKey(i)
                       => r \in requests
    PROVE  Firing(t, i)'
<1>1. SignalKey(i)' = SignalKey(i)
  BY DEF RowsGrow, SignalKey
<1>2. Answered(t)' = Answered(t)
  BY DEF Answered
<1>. QED
  BY <1>1, <1>2 DEF Firing

-----------------------------------------------------------------------------
(* A step of the PM                                                        *)

\* A step of the PM that answers nothing to a handler sends nothing for it.
QuietFor(t) ==
    /\ replies'[t] = replies[t]
    /\ \A r \in requests' : r.op = "open" =>
          \/ r \in requests
          \/ \E q \in requests : q.op = "open" /\ q.key = r.key /\ q.to # t

LEMMA PMReplies ==
    ASSUME TypeOK, PMStep, NEW t \in Threads
    PROVE  QuietFor(t) \/ Answered(t)'
<1>1. ASSUME NEW r \in requests, NEW code, code # "none", NEW arb,
             Answer(r, code, arb)
      PROVE  QuietFor(t) \/ Answered(t)'
  BY <1>1 DEF Answer, Answered, QuietFor, TypeOK, PMTypeOK
<1>2. ASSUME NEW r \in requests, NEW arb, Succeed(r, arb)
      PROVE  QuietFor(t) \/ Answered(t)'
  <2>1. PICK code \in {"ok", "garbled"} : \E n : Answer(r, code, n)
    BY <1>2 DEF Succeed
  <2>. QED
    BY <1>1, <2>1
<1>3. ASSUME NEW r \in requests,
             \/ AcceptOpen(r) \/ DuplicateOpen(r) \/ AcceptClose(r)
             \/ RepeatClose(r) \/ ConflictOpen(r)
      PROVE  QuietFor(t) \/ Answered(t)'
  BY <1>1, <1>2, <1>3
     DEF AcceptOpen, DuplicateOpen, AcceptClose, RepeatClose, ConflictOpen
<1>4. ASSUME NEW r \in requests, Refuse(r)
      PROVE  QuietFor(t) \/ Answered(t)'
  <2>1. PICK code \in {"failed", "empty", "garbled"} : Answer(r, code, NoArb)
    BY <1>4 DEF Refuse, Unreadable
  <2>. QED
    BY <1>1, <2>1
<1>5. ASSUME NEW u \in Threads, GiveUp(u)
      PROVE  QuietFor(t) \/ Answered(t)'
  <2>1. CASE u = t
    BY <1>5, <2>1 DEF GiveUp, Answered, TypeOK, PMTypeOK
  <2>2. CASE u # t
    <3>1. replies'[t] = replies[t]
      BY <1>5, <2>2 DEF GiveUp, TypeOK, PMTypeOK
    <3>2. PICK q \in requests :
             /\ q.to = u
             /\ \/ requests' = requests \ {q}
                \/ requests' = (requests \ {q}) \cup {[q EXCEPT !.to = Nobody]}
      BY <1>5 DEF GiveUp
    <3>3. LET m == [q EXCEPT !.to = Nobody]
          IN  m.op = q.op /\ (m.op = "open" => m.key = q.key)
      BY DEF TypeOK, PMTypeOK, OpenRequest, CloseRequest
    <3>. QED
      BY <2>2, <3>1, <3>2, <3>3 DEF QuietFor
  <2>. QED
    BY <2>1, <2>2
<1>6. ASSUME NEW i \in DOMAIN arbs, Settle(i)
      PROVE  QuietFor(t)
  BY <1>6 DEF Settle, QuietFor
<1>. QED
  BY <1>3, <1>4, <1>5, <1>6 DEF PMStep

\* Whatever the PM does to the order of a row, its handler gets an answer.
LEMMA UndecidedPM ==
    ASSUME OrderInv, PMStep, rows' = rows, threads' = threads,
           NEW i \in DOMAIN rows,
           NoOrderFor(i) \/ \E t \in Threads : Firing(t, i)
    PROVE  NoOrderFor(i)' \/ \E t \in Threads : Firing(t, i)'
<1>a. TypeOK /\ WaitsForOwnReply /\ RowsGrow
  BY SameKeeps DEF OrderInv, GrantInv, RowsKeep
<1>b. OrderKeys' \subseteq OrderKeys
  BY <1>a, PMOrders
<1>c. SignalKey(i)' = SignalKey(i)
  BY DEF SignalKey
<1>1. CASE NoOrderFor(i)
  BY <1>1, <1>a, <1>b, NoOrderStays
<1>2. ASSUME NEW t \in Threads, Firing(t, i)
      PROVE  Firing(t, i)'
  <2>1. CASE Answered(t)'
    BY <1>2, <2>1 DEF Firing
  <2>2. CASE ~Answered(t)'
    <3>a. QuietFor(t) /\ ~Answered(t)
      BY <1>a, <2>2, PMReplies DEF QuietFor, Answered
    <3>1. /\ \A a \in DOMAIN arbs : Stripped(arbs[a].key) # SignalKey(i)
          /\ \A r \in requests :
                r.op = "open" /\ Stripped(r.key) = SignalKey(i) => r.to = t
      BY <1>2, <3>a DEF Firing
    <3>2. ASSUME NEW a \in DOMAIN arbs', Stripped(arbs'[a].key) = SignalKey(i)
          PROVE  FALSE
      <4>1. a \notin DOMAIN arbs
        BY <1>a, <3>1, <3>2, PMArbsGrow DEF ArbsGrow
      <4>2. PICK r \in requests : /\ r.op = "open" /\ arbs'[a].key = r.key
                                  /\ r.to \in Threads => Answered(r.to)'
        BY <1>a, <3>2, <4>1, PMArbs
      <4>3. r.to = t
        BY <3>1, <3>2, <4>2
      <4>. QED
        BY <2>2, <4>2, <4>3 DEF Answered
    <3>3. \A r \in requests' :
             r.op = "open" /\ Stripped(r.key) = SignalKey(i) => r.to = t
      BY <3>a, <3>1 DEF QuietFor
    <3>. QED
      BY <1>2, <1>c, <3>2, <3>3 DEF Firing
  <2>. QED
    BY <2>1, <2>2
<1>. QED
  BY <1>1, <1>2

LEMMA RowPM ==
    ASSUME OrderInv, RowInv, PMStep, UNCHANGED <<rows, approvalVars, pollVars>>
    PROVE  RowInv'
<1>a. /\ TypeOK /\ RowsKeep /\ RowsGrow /\ ArbsGrow
      /\ rows' = rows /\ threads' = threads /\ stamp' = stamp /\ poll' = poll
      /\ OrderKeys' \subseteq OrderKeys
  BY SameKeeps, PMArbsGrow, PMOrders
     DEF OrderInv, GrantInv, RowsKeep, approvalVars, pollVars
<1>1. OrdersAreRecorded'
  BY <1>a, RecordedStays DEF RowInv, OrdersAreRecorded
<1>2. ArbKeysDiffer'
  BY <1>a, PMArbs DEF RowInv, ArbKeysDiffer, ArbsGrow
<1>3. KeysNameKinds'
  BY <1>a DEF RowInv, KeysNameKinds
<1>4. HandlersOwnRows'
  <2>1. \A a \in DOMAIN arbs' : \/ a \in DOMAIN arbs /\ arbs'[a].key = arbs[a].key
                               \/ a = Len(arbs) + 1
    BY <1>a, PMArbs DEF ArbsGrow
  <2>2. \A t \in Threads : threads[t].pc # "idle" => threads[t].id \in DOMAIN rows
    BY CopyFacts
  <2>3. ASSUME NEW t \in Threads, threads[t].pc # "idle"
        PROVE  OwnsRow(threads[t])'
    <3>. DEFINE job == threads[t]
    <3>1. OwnsRow(job) /\ job.id \in DOMAIN rows
      BY <2>2, <2>3 DEF RowInv, HandlersOwnRows
    <3>2. rows[job.id].arb = NoArb \/ rows[job.id].arb \in DOMAIN arbs
      BY <3>1 DEF OrderInv, Lineage
    <3>3. rows[job.id].arb < Len(arbs) + 1
      BY <1>a, <3>2, RowsTyped DEF NoArb
    <3>. QED
      BY <1>a, <2>1, <3>1, <3>3 DEF OwnsRow
  <2>. QED
    BY <1>a, <2>3 DEF HandlersOwnRows
<1>5. FiredOpenMatchesArb'
  BY <1>a DEF RowInv, FiredOpenMatchesArb, ArbsGrow
<1>6. OpensSeparatedByClose' /\ InsertIsSeparated'
  BY <1>a, RowsTyped, SeparatedStays DEF RowInv
<1>7. UndecidedHasNoOrder'
  <2>1. ASSUME NEW i \in DOMAIN rows,
               Unfired(i), ~OrderUnrecorded(i), ~Aliased(i)
        PROVE  NoOrderFor(i)' \/ \E t \in Threads : Firing(t, i)'
    <3>1. NoOrderFor(i) \/ \E t \in Threads : Firing(t, i)
      BY <2>1 DEF RowInv, UndecidedHasNoOrder
    <3>. QED
      BY <1>a, <3>1, UndecidedPM
  <2>2. \A i \in DOMAIN rows : /\ Aliased(i)' = Aliased(i)
                               /\ Unfired(i)' = Unfired(i)
                               /\ OrderUnrecorded(i)' = OrderUnrecorded(i)
    BY <1>a DEF Aliased, SignalKey, Unfired, OrderUnrecorded, approvalVars
  <2>. QED
    BY <1>a, <2>1, <2>2 DEF UndecidedHasNoOrder
<1>. QED
  BY <1>1, <1>2, <1>3, <1>4, <1>5, <1>6, <1>7 DEF RowInv

-----------------------------------------------------------------------------
(* A crash, and a step of the poller                                       *)

LEMMA RowCrash == ASSUME OrderInv, RowInv, Crash PROVE RowInv'
<1>a. /\ TypeOK /\ RowsKeep /\ RowsGrow
      /\ rows' = rows /\ arbs' = arbs /\ stamp' = stamp
      /\ \A t \in Threads : threads'[t].pc = "idle"
      /\ poll'.pc = "asleep"
  BY SameKeeps DEF OrderInv, GrantInv, Crash, Abandon, RowsKeep, Idle, Asleep
<1>1. OrderKeys' \subseteq OrderKeys
  <2>1. PICK survivors \in SUBSET requests :
           requests' = {[r EXCEPT !.to = Nobody] : r \in survivors}
    BY DEF Crash
  <2>2. \A r \in survivors : LET m == [r EXCEPT !.to = Nobody]
                             IN  m.op = r.op /\ (m.op = "open" => m.key = r.key)
    BY <1>a DEF TypeOK, PMTypeOK, OpenRequest, CloseRequest
  <2>3. ASSUME NEW m \in requests', m.op = "open"
        PROVE  m.key \in OrderKeys
    <3>1. PICK r \in survivors : m = [r EXCEPT !.to = Nobody]
      BY <2>1
    <3>2. r \in requests /\ r.op = "open" /\ m.key = r.key
      BY <2>2, <2>3, <3>1
    <3>. QED
      BY <3>2 DEF OrderKeys
  <2>. QED
    BY <1>a, <2>3 DEF OrderKeys
<1>2. OrdersAreRecorded'
  BY <1>a, <1>1, RecordedStays DEF RowInv, OrdersAreRecorded
<1>3. ArbKeysDiffer' /\ KeysNameKinds' /\ FiredOpenMatchesArb'
  BY <1>a DEF RowInv, ArbKeysDiffer, KeysNameKinds, FiredOpenMatchesArb
<1>4. HandlersOwnRows' /\ InsertIsSeparated'
  BY <1>a DEF HandlersOwnRows, InsertIsSeparated
<1>5. OpensSeparatedByClose'
  BY <1>a DEF RowInv, OpensSeparatedByClose
<1>6. UndecidedHasNoOrder'
  <2>1. SUFFICES ASSUME NEW i \in DOMAIN rows, Unfired(i),
                        ~OrderUnrecorded(i)', ~Aliased(i)'
                 PROVE  NoOrderFor(i)'
    BY <1>a DEF UndecidedHasNoOrder, Unfired
  <2>2. ~OrderUnrecorded(i) /\ \A t \in Threads : ~Firing(t, i)
    BY <2>1 DEF Crash, Abandon, OrderUnrecorded, Firing
  <2>3. NoOrderFor(i)
    BY <1>a, <2>1, <2>2, AliasedStays DEF RowInv, UndecidedHasNoOrder
  <2>. QED
    BY <1>a, <1>1, <2>3, NoOrderStays
<1>. QED
  BY <1>2, <1>3, <1>4, <1>5, <1>6 DEF RowInv

\* The latest of the rows that hold an asset's state.
LEMMA LatestRow ==
    ASSUME TypeOK, NEW asset, NEW i \in NonRejected(asset)
    PROVE  \E m \in NonRejected(asset) : \A j \in NonRejected(asset) : j <= m
<1>. DEFINE Bounds == {n \in Nat : \A j \in NonRejected(asset) : j <= n}
<1>a. /\ Len(rows) \in Nat
      /\ \A j \in NonRejected(asset) : j \in Nat /\ j <= Len(rows)
  BY RowsTyped DEF NonRejected
<1>1. PICK m \in Bounds : \A n \in Bounds : <<n, m>> \notin OpToRel(<, Nat)
  <2>1. Bounds \subseteq Nat /\ Len(rows) \in Bounds
    BY <1>a
  <2>. HIDE DEF Bounds
  <2>. QED
    BY <2>1, WFMin, NatLessThanWellFounded, Zenon
<1>2. \A n \in Bounds : ~(n < m)
  BY <1>1 DEF OpToRel
<1>3. m \in NonRejected(asset)
  <2>1. SUFFICES ASSUME m \notin NonRejected(asset) PROVE FALSE
    OBVIOUS
  <2>2. \A j \in NonRejected(asset) : j < m
    BY <1>a, <2>1
  <2>3. m # 0 /\ m - 1 \in Nat
    BY <1>a, <2>2
  <2>4. m - 1 \in Bounds
    BY <1>a, <2>2, <2>3
  <2>. QED
    BY <1>2, <2>4
<1>. QED
  BY <1>3

\* An OPEN is proposed only where the latest row that holds the state closes
\* what an earlier OPEN began (poller.py:86-112, 161-174).
LEMMA ProposalIsSeparated ==
    ASSUME TypeOK, NEW seen, NEW asset, DeriveState(seen, asset) = "FLAT",
           NEW i \in DOMAIN rows, rows[i].asset = asset,
           rows[i].kind = "OPEN", rows[i].status # "rejected"
    PROVE  \E k \in DOMAIN rows :
              k > i /\ rows[k].asset = asset /\ rows[k].kind = "CLOSE"
<1>1. i \in NonRejected(asset)
  BY DEF NonRejected
<1>2. PICK m \in NonRejected(asset) : \A j \in NonRejected(asset) : j <= m
  BY <1>1, LatestRow
<1>3. rows[m].kind # "OPEN"
  BY <1>2 DEF DeriveState
<1>4. m \in DOMAIN rows /\ rows[m].asset = asset /\ rows[m] \in Row
  BY RowsTyped DEF NonRejected
<1>5. rows[m].kind = "CLOSE"
  BY <1>3, <1>4 DEF Row, Kinds
<1>6. m > i
  BY <1>1, <1>2, <1>3, <1>4, RowsTyped
<1>. QED
  BY <1>4, <1>5, <1>6

\* What the poller proposes names its transition, and an OPEN is separated.
ProposalRight ==
    /\ poll.pc = "insert" => poll.new.key.kind = poll.new.kind
    /\ InsertIsSeparated

LEMMA ProposalStep ==
    ASSUME TypeOK, ProposalRight, rows' = rows, PollStep \/ HourTick
    PROVE  ProposalRight'
<1>1. CASE poll' = poll
  BY <1>1 DEF ProposalRight, InsertIsSeparated
<1>2. CASE poll'.pc # "insert"
  BY <1>2 DEF ProposalRight, InsertIsSeparated
<1>3. ASSUME NEW asset \in Assets, NEW avg \in Averages, NEW spot \in BOOLEAN,
             PollDecide(asset, avg, spot)
      PROVE  ProposalRight'
  <2>. DEFINE kind == Decide(DeriveState(poll.seen[asset], asset), avg, spot)
  <2>1. PICK arb : \/ poll' = Rest(asset)
                   \/ poll' = [pc |-> "insert", now |-> poll.now,
                               seen |-> poll.seen, todo |-> poll.todo,
                               new |-> PendingRow(poll.now, asset, kind, arb)]
    BY <1>3 DEF PollDecide
  <2>2. CASE poll' = Rest(asset)
    BY <1>2, <2>2 DEF Rest, Asleep
  <2>3. kind = "OPEN" => DeriveState(poll.seen[asset], asset) = "FLAT"
    BY DEF Decide
  <2>. HIDE DEF kind
  <2>4. CASE poll'.new = PendingRow(poll.now, asset, kind, arb)
    <3>1. /\ poll'.new.kind = kind /\ poll'.new.asset = asset
          /\ poll'.new.key.kind = kind
      BY <2>4 DEF PendingRow, IdempotencyKey
    <3>. QED
      BY <2>3, <3>1, ProposalIsSeparated DEF ProposalRight, InsertIsSeparated
  <2>. QED
    BY <2>1, <2>2, <2>4
<1>4. ASSUME NEW up \in BOOLEAN, PollStart(up)
      PROVE  poll'.pc # "insert"
  BY <1>4 DEF PollStart
<1>5. PollInsert => poll'.pc # "insert"
  BY DEF PollInsert, Rest, Asleep
<1>. QED
  BY <1>1, <1>2, <1>3, <1>4, <1>5 DEF PollStep, ScanStep, HourTick

LEMMA RowPollQuiet ==
    ASSUME OrderInv, RowInv, PollStep \/ HourTick, UNCHANGED approvalVars,
           rows' = rows
    PROVE  RowInv'
<1>a. /\ TypeOK /\ RowsKeep /\ RowsGrow
      /\ requests' = requests /\ arbs' = arbs /\ replies' = replies
      /\ threads' = threads /\ stamp' = stamp
  BY PollEffects, SameKeeps
     DEF OrderInv, GrantInv, RowsKeep, approvalVars, pmVars, PollStep, ScanStep,
         PollStart, PollDecide, PollInsert, HourTick
<1>1. OrderKeys' = OrderKeys
  BY <1>a DEF OrderKeys
<1>2. OrdersAreRecorded'
  BY <1>a, <1>1, RecordedStays DEF RowInv, OrdersAreRecorded
<1>3. ArbKeysDiffer' /\ HandlersOwnRows' /\ FiredOpenMatchesArb'
  BY <1>a DEF RowInv, ArbKeysDiffer, HandlersOwnRows, OwnsRow, FiredOpenMatchesArb
<1>4. OpensSeparatedByClose'
  BY <1>a DEF RowInv, OpensSeparatedByClose
<1>5. KeysNameKinds' /\ InsertIsSeparated'
  BY <1>a, ProposalStep DEF RowInv, KeysNameKinds, ProposalRight
<1>6. UndecidedHasNoOrder => UndecidedHasNoOrder'
  BY <1>a, <1>1
     DEF UndecidedHasNoOrder, NoOrderFor, Firing, Aliased, SignalKey, Answered,
         Unfired, OrderUnrecorded, approvalVars
<1>. QED
  BY <1>2, <1>3, <1>4, <1>5, <1>6 DEF RowInv

\* A new row has no order, because every order is for a signal recorded
\* before, and this one has its own.
LEMMA RowInsert ==
    ASSUME OrderInv, RowInv, PollInsert, UNCHANGED approvalVars,
           rows' = Append(rows, poll.new)
    PROVE  RowInv'
<1>. DEFINE n == Len(rows) + 1
<1>a. /\ TypeOK /\ poll.pc = "insert" /\ poll.new \in Row
      /\ poll.new.key.retry = 0
      /\ poll.new.key.kind = poll.new.kind /\ poll.new.status = "pending"
      /\ requests' = requests /\ arbs' = arbs /\ replies' = replies
      /\ threads' = threads /\ stamp' = stamp /\ poll'.pc # "insert"
  <2>1. TypeOK /\ poll.pc = "insert"
    BY DEF OrderInv, GrantInv, PollInsert
  <2>2. poll.new \in Row
    BY <2>1 DEF TypeOK, Scan, Asleep, Insert
  <2>. QED
    BY <2>1, <2>2 DEF OrderInv, GrantInv, InsertsAreFresh, ArbsAreKnown, RowInv,
       KeysNameKinds, PollInsert, approvalVars, pmVars, Rest, Asleep
<1>b. /\ RowsGrow
      /\ DOMAIN rows' = DOMAIN rows \cup {n}
      /\ rows'[n] = poll.new
      /\ \A i \in DOMAIN rows : rows'[i] = rows[i]
      /\ \A i \in DOMAIN rows : i < n
      /\ n \notin DOMAIN rows
      /\ DOMAIN rows = 1 .. (n - 1)
  BY <1>a, AppendGrows, RowsTyped
<1>. HIDE DEF n
<1>1. OrderKeys' = OrderKeys
  BY <1>a DEF OrderKeys
<1>2. OrdersAreRecorded'
  <2>1. \A i \in DOMAIN rows' : rows'[i].key.retry <= stamp
    BY <1>a, <1>b, RowsTyped DEF RowInv, OrdersAreRecorded
  <2>. QED
    BY <1>a, <1>b, <1>1, <2>1, RecordedStays DEF RowInv
<1>3. ArbKeysDiffer' /\ KeysNameKinds' /\ InsertIsSeparated'
  BY <1>a, <1>b DEF RowInv, ArbKeysDiffer, KeysNameKinds, InsertIsSeparated
<1>4. HandlersOwnRows'
  <2>1. \A t \in Threads : threads[t].pc # "idle" => threads[t].id \in DOMAIN rows
    BY CopyFacts
  <2>. QED
    BY <1>a, <1>b, <2>1 DEF RowInv, HandlersOwnRows, OwnsRow
<1>5. FiredOpenMatchesArb'
  BY <1>a, <1>b DEF RowInv, FiredOpenMatchesArb
<1>6. OpensSeparatedByClose'
  <2>1. ASSUME NEW i \in DOMAIN rows', NEW j \in DOMAIN rows', i < j,
               rows'[i].asset = rows'[j].asset,
               rows'[i].kind = "OPEN", rows'[j].kind = "OPEN",
               rows'[i].status # "rejected"
        PROVE  \E k \in (i + 1) .. (j - 1) :
                  rows'[k].asset = rows'[i].asset /\ rows'[k].kind = "CLOSE"
    <3>1. i \in DOMAIN rows /\ i \in Nat
      BY <1>b, <2>1, RowsTyped, <1>a
    <3>2. CASE j \in DOMAIN rows
      <4>1. PICK k \in (i + 1) .. (j - 1) :
               rows[k].asset = rows[i].asset /\ rows[k].kind = "CLOSE"
        BY <1>b, <2>1, <3>1, <3>2 DEF RowInv, OpensSeparatedByClose
      <4>2. k \in DOMAIN rows
        BY <1>a, <1>b, <3>1, <3>2, RowsTyped
      <4>. QED
        BY <1>b, <3>1, <4>1, <4>2
    <3>3. CASE j = n
      <4>1. PICK k \in DOMAIN rows :
               k > i /\ rows[k].asset = rows[i].asset /\ rows[k].kind = "CLOSE"
        BY <1>a, <1>b, <2>1, <3>1, <3>3 DEF RowInv, InsertIsSeparated
      <4>2. k \in (i + 1) .. (j - 1)
        BY <1>b, <3>1, <3>3, <4>1
      <4>. QED
        BY <1>b, <3>1, <4>1, <4>2
    <3>. QED
      BY <1>b, <3>2, <3>3
  <2>. QED
    BY <2>1 DEF OpensSeparatedByClose
<1>7. UndecidedHasNoOrder => UndecidedHasNoOrder'
  <2>1. SUFFICES ASSUME UndecidedHasNoOrder, NEW i \in DOMAIN rows',
                        Unfired(i)', ~OrderUnrecorded(i)', ~Aliased(i)'
                 PROVE  NoOrderFor(i)' \/ \E t \in Threads : Firing(t, i)'
    BY DEF UndecidedHasNoOrder
  <2>2. CASE i \in DOMAIN rows
    <3>1. NoOrderFor(i) \/ \E t \in Threads : Firing(t, i)
      BY <1>b, <2>1, <2>2, AliasedStays
         DEF UndecidedHasNoOrder, Unfired, OrderUnrecorded, approvalVars
    <3>2. NoOrderFor(i) => NoOrderFor(i)'
      BY <1>b, <1>1, <2>2, NoOrderStays
    <3>3. \A t \in Threads : Firing(t, i) => Firing(t, i)'
      BY <1>a, <1>b, <2>2, FiringStays
    <3>. QED
      BY <3>1, <3>2, <3>3
  <2>3. CASE i = n
    <3>1. ASSUME NEW key \in OrderKeys, Stripped(key) = SignalKey(i)'
          PROVE  FALSE
      <4>1. PICK j \in DOMAIN rows : SignalKey(j) = Stripped(key)
        BY <3>1 DEF RowInv, OrdersAreRecorded
      <4>2. SignalKey(j)' = SignalKey(j) /\ j # i /\ j \in DOMAIN rows'
        BY <1>b, <2>3, <4>1 DEF SignalKey
      <4>. QED
        BY <2>1, <3>1, <4>1, <4>2 DEF Aliased
    <3>. QED
      BY <1>1, <3>1 DEF NoOrderFor
  <2>. QED
    BY <1>b, <2>1, <2>2, <2>3
<1>. QED
  BY <1>2, <1>3, <1>4, <1>5, <1>6, <1>7 DEF RowInv

LEMMA RowPoll ==
    ASSUME OrderInv, RowInv, PollStep \/ HourTick, UNCHANGED approvalVars
    PROVE  RowInv'
<1>1. CASE rows' = rows
  BY <1>1, RowPollQuiet
<1>2. CASE rows' # rows
  BY <1>2, RowInsert
     DEF PollStep, ScanStep, PollStart, PollDecide, PollInsert, HourTick
<1>. QED
  BY <1>1, <1>2

-----------------------------------------------------------------------------
(* A click, and a step of a handler                                        *)

LEMMA RowClick ==
    ASSUME OrderInv, RowInv, NEW t \in Threads, Click(t), UNCHANGED pollVars
    PROVE  RowInv'
<1>1. PICK id \in DOMAIN rows :
         ApproveLoad(t, id) \/ RejectLoad(t, id) \/ RetryLoad(t, id)
  BY DEF Click
<1>a. /\ TypeOK /\ RowsGrow /\ rows' = rows /\ poll' = poll /\ stamp' = stamp
      /\ requests' = requests /\ arbs' = arbs /\ replies' = replies
      /\ threads[t].pc = "idle"
  BY <1>1, SameKeeps DEF OrderInv, GrantInv, RowsKeep, pollVars, ApproveLoad,
                         RejectLoad, RetryLoad, pmVars
<1>2. PICK pc \in {"approve", "reject", "retry"} :
         /\ threads' = [threads EXCEPT ![t] =
                          [pc |-> pc, id |-> id, sig |-> rows[id]]]
         /\ pc # "retry" => rows[id].status = "pending"
         /\ pc = "retry" => rows[id].status \in {"fired", "error"}
  BY <1>1 DEF ApproveLoad, RejectLoad, RetryLoad, Load
<1>3. \A u \in Threads : threads'[u] =
         IF u = t THEN [pc |-> pc, id |-> id, sig |-> rows[id]] ELSE threads[u]
  BY <1>a, <1>2 DEF TypeOK
<1>4. OrderKeys' = OrderKeys
  BY <1>a DEF OrderKeys
<1>5. OrdersAreRecorded'
  BY <1>a, <1>4, RecordedStays DEF RowInv, OrdersAreRecorded
<1>6. /\ ArbKeysDiffer' /\ KeysNameKinds' /\ FiredOpenMatchesArb'
      /\ OpensSeparatedByClose' /\ InsertIsSeparated'
  BY <1>a DEF RowInv, ArbKeysDiffer, KeysNameKinds, FiredOpenMatchesArb,
              OpensSeparatedByClose, InsertIsSeparated
<1>7. HandlersOwnRows'
  BY <1>a, <1>2, <1>3 DEF RowInv, HandlersOwnRows, OwnsRow
<1>8. UndecidedHasNoOrder => UndecidedHasNoOrder'
  <2>1. \A i \in DOMAIN rows, u \in Threads : Firing(u, i) => Firing(u, i)'
    BY <1>a, <1>3 DEF Firing, Answered, SignalKey
  <2>2. unrecorded' = unrecorded
    BY <1>1 DEF ApproveLoad, RejectLoad, RetryLoad
  <2>. QED
    BY <1>a, <1>4, <2>1, <2>2
       DEF UndecidedHasNoOrder, NoOrderFor, Aliased, SignalKey, Unfired,
           OrderUnrecorded
<1>. QED
  BY <1>5, <1>6, <1>7, <1>8 DEF RowInv

\* The step of a handler that ends its work, if it writes at all, writes the
\* row that is its own: the outcome of a decision, or that of a retry.
WritesOwnRow(t) ==
    LET id == threads[t].id
    IN  /\ DOMAIN rows' = DOMAIN rows /\ id \in DOMAIN rows
        /\ \A i \in DOMAIN rows \ {id} : rows'[i] = rows[i]
        /\ threads'[t].pc = "idle"
        /\ rows[id].status # "rejected"
        /\ \/ rows'[id].status \in {"error", "fired"}
           \/ rows'[id].status = "rejected" /\ threads[t].pc = "reject"
        /\ \/ rows'[id].key = rows[id].key
           \/ /\ rows'[id].arb > rows[id].arb
              /\ rows'[id].arb \in DOMAIN arbs
              /\ arbs[rows'[id].arb].key = rows'[id].key
        /\ rows'[id].status = "fired" /\ rows'[id].kind = "OPEN" =>
              /\ rows'[id].arb \in DOMAIN arbs
              /\ arbs[rows'[id].arb].key = rows'[id].key

LEMMA WritesOwnStatus ==
    ASSUME OrderInv, RowInv, NEW t \in Threads, threads[t].pc # "idle",
           threads'[t].pc = "idle",
           NEW status \in {"error", "rejected"},
           rows' = [rows EXCEPT ![threads[t].id].status = status],
           status = "rejected" => threads[t].pc = "reject"
    PROVE  WritesOwnRow(t)
<1>. DEFINE id == threads[t].id
<1>a. /\ id \in DOMAIN rows /\ rows \in Seq(Row) /\ rows[id] \in Row
      /\ rows' = [rows EXCEPT ![id].status = status]
  BY CopyFacts, RowsTyped DEF OrderInv, GrantInv
<1>b. rows[id].status # "rejected"
  BY JobType DEF RowInv, HandlersOwnRows, OwnsRow, OrderInv, GrantInv, Job, Pcs
<1>. HIDE DEF id
<1>1. rows'[id] = [rows[id] EXCEPT !.status = status]
      /\ \A i \in DOMAIN rows \ {id} : rows'[i] = rows[i]
  BY <1>a
<1>2. rows'[id].status = status /\ rows'[id].key = rows[id].key
  BY <1>a, <1>1 DEF Row
<1>. QED
  BY <1>a, <1>b, <1>1, <1>2 DEF WritesOwnRow, id

LEMMA ApproveFiredOwn ==
    ASSUME OrderInv, RowInv, NEW t \in Threads, ApproveFired(t)
    PROVE  WritesOwnRow(t)
<1>. DEFINE id == threads[t].id
            sig == threads[t].sig
            arb == IF sig.kind = "OPEN" THEN replies[t].arb ELSE sig.arb
<1>a. /\ threads[t].pc = "fire" /\ threads'[t].pc = "idle"
      /\ replies[t].code = "ok" \/ sig.kind = "CLOSE"
      /\ rows' = [rows EXCEPT ![id].status = "fired", ![id].arb = arb]
  BY DEF ApproveFired, Finish, Idle, OrderInv, GrantInv, TypeOK
<1>b. /\ id \in DOMAIN rows /\ rows \in Seq(Row) /\ rows[id] \in Row
      /\ sig.kind = rows[id].kind
  BY <1>a, CopyFacts, RowsTyped DEF OrderInv, GrantInv, Agrees
<1>c. rows[id].status = "pending" /\ rows[id].key = sig.key
  BY <1>a DEF RowInv, HandlersOwnRows, OwnsRow
<1>d. sig.kind = "OPEN" => arb \in DOMAIN arbs /\ arbs[arb].key = sig.key
  BY <1>a DEF OrderInv, WaitsForOwnReply, ReplyFits, Opens
<1>. HIDE DEF id, sig, arb
<1>1. /\ rows'[id] = [rows[id] EXCEPT !.status = "fired", !.arb = arb]
      /\ \A i \in DOMAIN rows \ {id} : rows'[i] = rows[i]
      /\ DOMAIN rows' = DOMAIN rows
  BY <1>a, <1>b
<1>2. /\ rows'[id].status = "fired" /\ rows'[id].key = rows[id].key
      /\ rows'[id].arb = arb /\ rows'[id].kind = rows[id].kind
  BY <1>b, <1>1 DEF Row
<1>. QED
  BY <1>a, <1>b, <1>c, <1>d, <1>1, <1>2 DEF WritesOwnRow, id

\* The fresh key of a retry is one that only a later arb has.
LEMMA RetryFiredOwn ==
    ASSUME OrderInv, RowInv, NEW t \in Threads, RetryFired(t)
    PROVE  WritesOwnRow(t)
<1>. DEFINE id == threads[t].id
            sig == threads[t].sig
            arb == replies[t].arb
<1>a. /\ threads[t].pc = "reopen" /\ threads'[t].pc = "idle"
      /\ replies[t].code = "ok"
      /\ rows' = [rows EXCEPT ![id].status = "fired", ![id].key = sig.key,
                              ![id].arb = arb]
  BY DEF RetryFired, Finish, Idle, OrderInv, GrantInv, TypeOK
<1>b. id \in DOMAIN rows /\ rows \in Seq(Row) /\ rows[id] \in Row
  BY <1>a, CopyFacts, RowsTyped DEF OrderInv, GrantInv
<1>d. arb \in DOMAIN arbs /\ arbs[arb].key = sig.key
  BY <1>a DEF OrderInv, WaitsForOwnReply, ReplyFits, Opens
<1>c. rows[id].status # "rejected" /\ arb > rows[id].arb
  BY <1>a, <1>d DEF RowInv, HandlersOwnRows, OwnsRow
<1>. HIDE DEF id, sig, arb
<1>1. /\ rows'[id] = [rows[id] EXCEPT !.status = "fired", !.key = sig.key,
                                      !.arb = arb]
      /\ \A i \in DOMAIN rows \ {id} : rows'[i] = rows[i]
      /\ DOMAIN rows' = DOMAIN rows
  BY <1>a, <1>b
<1>2. /\ rows'[id].status = "fired" /\ rows'[id].key = sig.key
      /\ rows'[id].arb = arb
  BY <1>b, <1>1 DEF Row
<1>. QED
  BY <1>a, <1>b, <1>c, <1>d, <1>1, <1>2 DEF WritesOwnRow, id

LEMMA HandlerIsBusy ==
    ASSUME NEW t \in Threads, HandlerStep(t)
    PROVE  threads[t].pc # "idle"
BY DEF HandlerStep, ApproveOpen, ApproveClose, ApproveFired, ApproveFailed,
       RejectCommit, RetryCheck, RetryCleared, RetryReopen, RetryFired,
       RetryFailed, AnswerUnreadable, PositionsUnreadable, Opens, Closes

LEMMA HandlerWritesOwnRow ==
    ASSUME OrderInv, RowInv, NEW t \in Threads, HandlerStep(t)
    PROVE  rows' = rows \/ WritesOwnRow(t)
<1>a. threads[t].pc # "idle"
  BY HandlerIsBusy
<1>b. ASSUME Finish(t) PROVE threads'[t].pc = "idle"
  BY <1>b DEF Finish, Idle, OrderInv, GrantInv, TypeOK
<1>c. ASSUME MarkError(threads[t].id), Finish(t)
      PROVE  WritesOwnRow(t)
  <2>1. rows' = [rows EXCEPT ![threads[t].id].status = "error"]
    BY <1>c DEF MarkError
  <2>2. threads'[t].pc = "idle"
    BY <1>b, <1>c
  <2>. QED
    BY <1>a, <2>1, <2>2, WritesOwnStatus
<1>1. ASSUME NEW up \in BOOLEAN, ApproveClose(t, up) \/ RetryCheck(t, up)
      PROVE  rows' = rows \/ WritesOwnRow(t)
  BY <1>1, <1>c DEF ApproveClose, RetryCheck
<1>2. CASE RejectCommit(t)
  BY <1>2, <1>a, <1>b, WritesOwnStatus DEF RejectCommit
<1>3. CASE \/ ApproveFailed(t) \/ RetryFailed(t) \/ ApproveOpen(t)
           \/ RetryCleared(t) \/ RetryReopen(t)
           \/ AnswerUnreadable(t) \/ PositionsUnreadable(t)
  BY <1>3, <1>c DEF ApproveFailed, RetryFailed, ApproveOpen, RetryCleared,
                    RetryReopen, AnswerUnreadable, PositionsUnreadable
<1>. QED
  BY <1>1, <1>2, <1>3, ApproveFiredOwn, RetryFiredOwn DEF HandlerStep

\* How a handler gets from one step to the next: it ends, goes on with its
\* copy of the row, or takes a fresh key for its retry.
GoesOn(t) ==
    LET old == threads[t]
        new == threads'[t]
    IN  \/ new.pc = "idle" /\ stamp' = stamp
        \/ /\ new.id = old.id /\ new.sig.key = old.sig.key /\ stamp' = stamp
           /\ \/ old.pc = "approve" /\ new.pc = "fire"
              \/ old.pc \in {"retry", "clear"} /\ new.pc \in {"clear", "wait"}
        \/ /\ new.id = old.id /\ stamp' = stamp + 1
           /\ new.sig.key = RetryKey(old.sig.key, stamp + 1)
           /\ old.pc = "wait" /\ new.pc = "reopen"

LEMMA HandlerGoesOn ==
    ASSUME OrderInv, NEW t \in Threads, HandlerStep(t)
    PROVE  GoesOn(t)
<1>a. /\ threads \in [Threads -> Job \cup {Idle}]
      /\ threads[t].pc # "idle" => threads[t] \in Job /\ threads[t].sig \in Row
  BY JobType DEF OrderInv, GrantInv, TypeOK
<1>b. ASSUME Finish(t), stamp' = stamp
      PROVE  GoesOn(t)
  BY <1>a, <1>b DEF Finish, Idle, GoesOn
<1>c. ASSUME NEW pc \in Pcs, Goto(t, pc), threads[t].pc # "idle"
      PROVE  /\ threads'[t].pc = pc /\ threads'[t].id = threads[t].id
             /\ threads'[t].sig = threads[t].sig
  BY <1>a, <1>c DEF Goto, Job
<1>d. ASSUME NEW pc \in Pcs, NEW arb, threads[t].pc # "idle",
             threads' = [threads EXCEPT ![t].pc = pc, ![t].sig.arb = arb]
      PROVE  /\ threads'[t].pc = pc /\ threads'[t].id = threads[t].id
             /\ threads'[t].sig.key = threads[t].sig.key
  BY <1>a, <1>d DEF Job, Row
<1>1. ASSUME NEW up \in BOOLEAN, ApproveClose(t, up)
      PROVE  GoesOn(t)
  <2>1. threads[t].pc = "approve" /\ stamp' = stamp
    BY <1>1 DEF ApproveClose
  <2>2. CASE Finish(t)
    BY <1>b, <2>1, <2>2
  <2>3. CASE \E arb : threads' = [threads EXCEPT ![t].pc = "fire",
                                                ![t].sig.arb = arb]
    BY <1>d, <2>1, <2>3 DEF GoesOn, Pcs
  <2>. QED
    BY <1>1, <2>2, <2>3 DEF ApproveClose
<1>2. ASSUME NEW up \in BOOLEAN, RetryCheck(t, up)
      PROVE  GoesOn(t)
  <2>1. threads[t].pc = "retry" /\ stamp' = stamp
    BY <1>2 DEF RetryCheck
  <2>2. CASE Finish(t)
    BY <1>b, <2>1, <2>2
  <2>3. CASE Goto(t, "wait")
    BY <1>c, <2>1, <2>3 DEF GoesOn, Pcs
  <2>4. CASE \E arb : threads' = [threads EXCEPT ![t].pc = "clear",
                                                ![t].sig.arb = arb]
    BY <1>d, <2>1, <2>4 DEF GoesOn, Pcs
  <2>. QED
    BY <1>2, <2>2, <2>3, <2>4 DEF RetryCheck
<1>3. CASE ApproveOpen(t)
  BY <1>3, <1>c DEF ApproveOpen, GoesOn, Pcs
<1>4. CASE RetryCleared(t)
  BY <1>4, <1>c DEF RetryCleared, GoesOn, Pcs
<1>5. CASE RetryReopen(t)
  <2>. DEFINE key == RetryKey(threads[t].sig.key, stamp + 1)
  <2>1. /\ threads[t].pc = "wait" /\ stamp' = stamp + 1
        /\ threads' = [threads EXCEPT ![t].pc = "reopen", ![t].sig.key = key]
    BY <1>5 DEF RetryReopen
  <2>. HIDE DEF key
  <2>2. /\ threads'[t].pc = "reopen" /\ threads'[t].id = threads[t].id
        /\ threads'[t].sig.key = key
    BY <1>a, <2>1 DEF Job, Row
  <2>. QED
    BY <2>1, <2>2 DEF GoesOn, key
<1>6. CASE \/ ApproveFired(t) \/ ApproveFailed(t) \/ RejectCommit(t)
           \/ RetryFired(t) \/ RetryFailed(t)
           \/ AnswerUnreadable(t) \/ PositionsUnreadable(t)
  BY <1>6, <1>a, <1>b, AbandonFinishes
     DEF ApproveFired, ApproveFailed, RejectCommit, RetryFired, RetryFailed,
         AnswerUnreadable, PositionsUnreadable
<1>. QED
  BY <1>1, <1>2, <1>3, <1>4, <1>5, <1>6 DEF HandlerStep

\* The order a handler sends: that of its row, under the key of its copy.
Orders(t) ==
    /\ Opens(threads'[t])
    /\ ~Answered(t) /\ ~Answered(t)'
    /\ threads[t].id \in DOMAIN rows /\ threads[t].sig.key \in Key
    /\ rows[threads[t].id].kind = "OPEN"
    /\ Stripped(threads'[t].sig.key) = SignalKey(threads[t].id)
    /\ OrderKeys' \subseteq OrderKeys \cup {threads'[t].sig.key}
    /\ \A r \in requests' : r.op = "open" =>
          r \in requests \/ (r.to = t /\ r.key = threads'[t].sig.key)

\* What a handler's step is to the calls under way, and to the other handlers.
LEMMA HandlerCalls ==
    ASSUME OrderInv, NEW t \in Threads, HandlerStep(t)
    PROVE  /\ arbs' = arbs
           /\ \A u \in Threads \ {t} :
                 threads'[u] = threads[u] /\ replies'[u] = replies[u]
           /\ \/ /\ OrderKeys' \subseteq OrderKeys
                 /\ \A r \in requests' : r.op = "open" => r \in requests
                 /\ threads'[t].pc # "reopen"
              \/ Orders(t)
<1>. DEFINE job == threads'[t]
<1>1. PICK j : HandlerMove(t, j)
  BY HandlerMoves
<1>a. threads \in [Threads -> Job \cup {Idle}]
  BY DEF OrderInv, GrantInv, TypeOK
<1>2. j = job
  BY <1>1, <1>a DEF HandlerMove, HandlerSends
<1>3. /\ arbs' = arbs /\ ~Answered(t)'
      /\ \A u \in Threads \ {t} :
            threads'[u] = threads[u] /\ replies'[u] = replies[u]
      /\ \/ requests' = requests
         \/ /\ requests' = requests \cup {RequestOf(t, job)}
            /\ Opens(job) \/ Closes(job)
  BY <1>1, <1>2, <1>a DEF HandlerMove, HandlerSends
<1>4. GoesOn(t)
  BY HandlerGoesOn
<1>. HIDE DEF job
<1>5. CASE ~Opens(job)
  <2>1. RequestOf(t, job).op = "close"
    BY <1>5 DEF RequestOf
  <2>2. \A r \in requests' : r.op = "open" => r \in requests
    BY <1>3, <2>1
  <2>. QED
    BY <1>3, <1>5, <2>2 DEF OrderKeys, Opens, job
<1>6. CASE Opens(job)
  <2>1. /\ threads[t].pc \in {"approve", "wait"} /\ job.id = threads[t].id
        /\ \/ job.sig.key = threads[t].sig.key
           \/ job.sig.key = RetryKey(threads[t].sig.key, stamp + 1)
    BY <1>4, <1>6 DEF GoesOn, Opens, job
  <2>2. threads[t].id \in DOMAIN rows /\ threads[t].sig.key \in Key
    BY <2>1, CopyFacts
  <2>3. Agrees(job)
    <3>1. PICK k : /\ threads' = [threads EXCEPT ![t] = k]
                   /\ k.pc = "idle" \/ Agrees(k)
      BY HandlerEffects DEF HandlerEffect, OrderInv
    <3>2. k = job
      BY <1>a, <3>1 DEF job
    <3>. QED
      BY <1>6, <3>1, <3>2 DEF Opens
  <2>4. /\ rows[threads[t].id].kind = "OPEN"
        /\ Stripped(job.sig.key) = SignalKey(threads[t].id)
    BY <1>6, <2>1, <2>3 DEF Agrees, Opens
  <2>5. ~Answered(t)
    BY <2>1 DEF OrderInv, WaitsForOwnReply, Opens, Closes
  <2>6. \A r \in requests' : r.op = "open" =>
           r \in requests \/ (r.to = t /\ r.key = job.sig.key)
    BY <1>3, <1>6 DEF RequestOf
  <2>7. OrderKeys' \subseteq OrderKeys \cup {job.sig.key}
    BY <1>3, <2>6 DEF OrderKeys
  <2>. QED
    BY <1>3, <1>6, <2>2, <2>4, <2>5, <2>6, <2>7 DEF Orders, job
<1>. QED
  BY <1>5, <1>6

\* The key of a retry is ahead of the keys of all orders.
LEMMA FreshKey ==
    ASSUME TypeOK, OrdersAreRecorded, NEW key \in Key
    PROVE  /\ RetryKey(key, stamp + 1).retry = stamp + 1
           /\ RetryKey(key, stamp + 1) \notin OrderKeys
<1>1. RetryKey(key, stamp + 1).retry = stamp + 1
  BY DEF RetryKey, Stripped, Key
<1>. QED
  BY <1>1, RowsTyped DEF OrdersAreRecorded

LEMMA RecordedHandler ==
    ASSUME OrderInv, RowInv, NEW t \in Threads, HandlerStep(t)
    PROVE  OrdersAreRecorded'
<1>a. /\ TypeOK /\ RowsKeep /\ stamp \in Nat /\ OrderKeys \subseteq Key
      /\ OrdersAreRecorded
      /\ \A i \in DOMAIN rows : rows[i].key.retry \in Nat
  BY HandlerEffects, RowsTyped
     DEF OrderInv, GrantInv, HandlerEffect, RowInv, Key
<1>b. GoesOn(t) /\ (rows' = rows \/ WritesOwnRow(t))
  BY HandlerGoesOn, HandlerWritesOwnRow
<1>1. stamp' = stamp \/ stamp' = stamp + 1
  BY <1>b DEF GoesOn
<1>2. \A key \in OrderKeys : key.retry \in Nat /\ key.retry <= stamp'
  BY <1>a, <1>1 DEF OrdersAreRecorded, Key
<1>3. \A i \in DOMAIN rows : rows'[i].key.retry <= stamp'
  <2>1. \A i \in DOMAIN rows : rows[i].key.retry <= stamp'
    BY <1>a, <1>1 DEF OrdersAreRecorded
  <2>2. CASE WritesOwnRow(t)
    <3>1. rows'[threads[t].id].key.retry <= stamp'
      BY <1>2, <2>1, <2>2 DEF WritesOwnRow, OrderKeys
    <3>. QED
      BY <2>1, <2>2, <3>1 DEF WritesOwnRow
  <2>. QED
    BY <1>b, <2>1, <2>2
<1>4. \A key \in OrderKeys' :
         /\ key.retry <= stamp'
         /\ \E i \in DOMAIN rows :
               rows[i].kind = "OPEN" /\ SignalKey(i) = Stripped(key)
  <2>1. CASE OrderKeys' \subseteq OrderKeys
    BY <1>a, <1>2, <2>1 DEF OrdersAreRecorded
  <2>2. CASE Orders(t)
    <3>. DEFINE key == threads'[t].sig.key
    <3>1. key.retry <= stamp'
      <4>1. CASE key = threads[t].sig.key /\ threads[t].pc = "approve"
        <5>1. key = rows[threads[t].id].key
          BY <4>1 DEF RowInv, HandlersOwnRows, OwnsRow
        <5>. QED
          BY <1>a, <1>1, <2>2, <5>1 DEF Orders, OrdersAreRecorded
      <4>2. CASE key = RetryKey(threads[t].sig.key, stamp + 1) /\ stamp' = stamp + 1
        BY <1>a, <2>2, <4>2, FreshKey DEF Orders
      <4>. QED
        BY <1>b, <2>2, <4>1, <4>2 DEF GoesOn, Orders, Opens
    <3>. HIDE DEF key
    <3>2. \E i \in DOMAIN rows :
             rows[i].kind = "OPEN" /\ SignalKey(i) = Stripped(key)
      BY <2>2 DEF Orders, key
    <3>3. OrderKeys' \subseteq OrderKeys \cup {key}
      BY <2>2 DEF Orders, key
    <3>. QED
      BY <1>a, <1>2, <3>1, <3>2, <3>3 DEF OrdersAreRecorded
  <2>. QED
    BY <2>1, <2>2, HandlerCalls
<1>5. \A i \in DOMAIN rows : SignalKey(i)' = SignalKey(i)
                            /\ rows'[i].kind = rows[i].kind
  BY <1>a DEF RowsKeep, RowsGrow, SignalKey
<1>. QED
  BY <1>a, <1>3, <1>4, <1>5 DEF OrdersAreRecorded, RowsKeep

\* One handler's step leaves the rows of the others alone.
LEMMA OwnersHandler ==
    ASSUME OrderInv, RowInv, OneHandlerPerRow, NEW t \in Threads, HandlerStep(t)
    PROVE  HandlersOwnRows'
<1>a. /\ TypeOK /\ OrdersAreRecorded /\ arbs' = arbs
      /\ \A u \in Threads \ {t} : threads'[u] = threads[u]
      /\ GoesOn(t) /\ (rows' = rows \/ WritesOwnRow(t))
  BY HandlerCalls, HandlerGoesOn, HandlerWritesOwnRow
     DEF OrderInv, GrantInv, RowInv
<1>b. threads[t].pc # "idle"
  BY HandlerIsBusy
<1>1. ASSUME NEW u \in Threads \ {t}, threads[u].pc # "idle"
      PROVE  OwnsRow(threads[u])'
  <2>1. threads[u].id # threads[t].id /\ threads[u].id \in DOMAIN rows
    BY <1>1, <1>b, CopyFacts DEF OneHandlerPerRow
  <2>2. rows'[threads[u].id] = rows[threads[u].id]
    BY <1>a, <2>1 DEF WritesOwnRow
  <2>. QED
    BY <1>1, <1>a, <2>2 DEF RowInv, HandlersOwnRows, OwnsRow
<1>2. ASSUME threads'[t].pc # "idle"
      PROVE  OwnsRow(threads[t])'
  <2>1. rows' = rows
    BY <1>a, <1>2 DEF WritesOwnRow
  <2>2. OwnsRow(threads[t]) /\ threads[t].sig.key \in Key
    BY <1>b, CopyFacts DEF RowInv, HandlersOwnRows
  <2>3. CASE threads'[t].pc # "reopen"
    BY <1>a, <1>2, <2>1, <2>2, <2>3 DEF GoesOn, OwnsRow
  <2>4. CASE threads'[t].pc = "reopen"
    <3>1. /\ threads'[t].sig.key \notin OrderKeys
          /\ threads'[t].id = threads[t].id /\ threads[t].pc = "wait"
      BY <1>a, <2>2, <2>4, FreshKey DEF GoesOn
    <3>. QED
      BY <1>a, <2>1, <2>2, <2>4, <3>1 DEF OwnsRow, OrderKeys
  <2>. QED
    BY <2>3, <2>4
<1>. QED
  BY <1>1, <1>2, <1>a DEF HandlersOwnRows

\* A handler that awaits the answer to its order records the outcome, or is
\* recorded itself as having ended without one.
LEMMA HandlerRecords ==
    ASSUME NEW t \in Threads, HandlerStep(t)
    PROVE  /\ unrecorded \subseteq unrecorded'
           /\ threads[t].pc = "fire" =>
                 \/ ApproveFired(t) \/ ApproveFailed(t)
                 \/ [id |-> threads[t].id, pc |-> "fire"] \in unrecorded'
<1>1. CASE AnswerUnreadable(t) \/ PositionsUnreadable(t)
  BY <1>1 DEF AnswerUnreadable, PositionsUnreadable, Abandon
<1>2. CASE ~AnswerUnreadable(t) /\ ~PositionsUnreadable(t)
  BY <1>2 DEF HandlerStep, ApproveOpen, ApproveClose, ApproveFired,
              ApproveFailed, RejectCommit, RetryCheck, RetryCleared,
              RetryReopen, RetryFired, RetryFailed
<1>. QED
  BY <1>1, <1>2

\* The order of a row is sent by its only handler, which fires it.
LEMMA UndecidedHandler ==
    ASSUME OrderInv, RowInv, OneHandlerPerRow, NEW t \in Threads, HandlerStep(t),
           UndecidedHasNoOrder
    PROVE  UndecidedHasNoOrder'
<1>a. /\ RowsKeep /\ RowsGrow /\ arbs' = arbs
      /\ \A u \in Threads \ {t} :
            threads'[u] = threads[u] /\ replies'[u] = replies[u]
      /\ GoesOn(t) /\ (rows' = rows \/ WritesOwnRow(t))
  BY HandlerCalls, HandlerGoesOn, HandlerWritesOwnRow, HandlerEffects
     DEF OrderInv, GrantInv, HandlerEffect, RowsKeep
<1>b. threads[t].pc # "idle"
  BY HandlerIsBusy
<1>. SUFFICES ASSUME NEW i \in DOMAIN rows,
                     Unfired(i)', ~OrderUnrecorded(i)', ~Aliased(i)'
              PROVE  NoOrderFor(i)' \/ \E u \in Threads : Firing(u, i)'
  BY <1>a DEF UndecidedHasNoOrder, RowsKeep
<1>1. ~Aliased(i) /\ SignalKey(i)' = SignalKey(i)
  BY <1>a, AliasedStays DEF RowsGrow, SignalKey
<1>2. Unfired(i) /\ ~OrderUnrecorded(i)
  <2>1. ASSUME WritesOwnRow(t), i = threads[t].id
        PROVE  Unfired(i)
    BY <2>1, <1>b DEF WritesOwnRow, RowInv, HandlersOwnRows, OwnsRow, Unfired
  <2>2. Unfired(i)
    BY <1>a, <2>1 DEF WritesOwnRow, Unfired
  <2>. QED
    BY <2>2, HandlerRecords DEF OrderUnrecorded
<1>3. NoOrderFor(i) \/ \E u \in Threads : Firing(u, i)
  BY <1>1, <1>2 DEF UndecidedHasNoOrder
<1>4. CASE NoOrderFor(i) /\ OrderKeys' \subseteq OrderKeys
  BY <1>4, <1>a, NoOrderStays
<1>5. CASE NoOrderFor(i) /\ Orders(t) /\ threads[t].id # i
  <2>1. Stripped(threads'[t].sig.key) # SignalKey(i)
    BY <1>1, <1>5 DEF Orders, Aliased
  <2>. QED
    BY <1>1, <1>5, <2>1 DEF Orders, NoOrderFor
<1>6. CASE NoOrderFor(i) /\ Orders(t) /\ threads[t].id = i
  <2>1. threads[t].pc = "approve" /\ threads'[t].pc = "fire" /\ threads'[t].id = i
    BY <1>2, <1>6, <1>a, <1>b
       DEF GoesOn, Orders, Opens, RowInv, HandlersOwnRows, OwnsRow, Unfired
  <2>2. /\ \A a \in DOMAIN arbs : Stripped(arbs[a].key) # SignalKey(i)
        /\ \A r \in requests' : r.op = "open" /\ Stripped(r.key) = SignalKey(i)
              => r.to = t
    BY <1>6 DEF Orders, Answered, NoOrderFor, OrderKeys
  <2>. QED
    BY <1>a, <1>1, <2>1, <2>2 DEF Firing
<1>7. ASSUME NEW u \in Threads, Firing(u, i), u # t
      PROVE  Firing(u, i)'
  <2>1. threads[t].id # i
    BY <1>7, <1>b DEF OneHandlerPerRow, Firing
  <2>2. \A r \in requests' : r.op = "open" /\ Stripped(r.key) = SignalKey(i)
           => r \in requests
    BY <1>1, <2>1, HandlerCalls DEF Orders, Aliased
  <2>. QED
    BY <1>7, <1>a, <2>2, FiringStays
<1>8. CASE Firing(t, i)
  <2>1. threads[t].pc = "fire" /\ threads[t].id = i
    BY <1>8 DEF Firing
  <2>2. ApproveFired(t) \/ ApproveFailed(t)
    BY <2>1, HandlerRecords DEF OrderUnrecorded
  <2>3. rows'[i].status \in {"fired", "error"}
    <3>1. rows[i] \in Row /\ rows \in Seq(Row)
      BY RowsTyped DEF OrderInv, GrantInv
    <3>. QED
      BY <2>1, <2>2, <3>1 DEF ApproveFired, ApproveFailed, MarkError, Row
  <2>. QED
    BY <2>3 DEF Unfired
<1>. QED
  BY <1>3, <1>4, <1>5, <1>6, <1>7, <1>8, HandlerCalls

LEMMA RowHandler ==
    ASSUME OrderInv, RowInv, OneHandlerPerRow, NEW t \in Threads, HandlerStep(t),
           UNCHANGED pollVars
    PROVE  RowInv'
<1>a. /\ TypeOK /\ RowsKeep /\ arbs' = arbs /\ poll' = poll
      /\ rows' = rows \/ WritesOwnRow(t)
      /\ \A i \in DOMAIN rows :
            /\ rows[i] \in Row /\ rows[i].key \in Key
            /\ rows'[i].asset = rows[i].asset /\ rows'[i].kind = rows[i].kind
            /\ Stripped(rows'[i].key) = Stripped(rows[i].key)
  BY HandlerCalls, HandlerWritesOwnRow, HandlerEffects, RowsTyped
     DEF OrderInv, GrantInv, HandlerEffect, RowsKeep, RowsGrow, pollVars
<1>1. KeysNameKinds'
  <2>1. \A i \in DOMAIN rows : rows'[i].key \in Key
    <3>1. rows' \in Seq(Row)
      BY <1>a, HandlerTypes DEF TypeOK
    <3>2. \A i \in DOMAIN rows' : rows'[i] \in Row
      BY <3>1
    <3>. QED
      BY <1>a, <3>2 DEF RowsKeep, Row
  <2>2. \A k, l \in Key : Stripped(k) = Stripped(l) => k.kind = l.kind
    <3>1. \A k \in Key : Stripped(k).kind = k.kind
      BY DEF Stripped, Key
    <3>. QED
      BY <3>1
  <2>. QED
    BY <1>a, <2>1, <2>2 DEF RowsKeep, RowInv, KeysNameKinds
<1>2. FiredOpenMatchesArb'
  BY <1>a DEF RowInv, FiredOpenMatchesArb, WritesOwnRow
<1>3. OpensSeparatedByClose' /\ InsertIsSeparated'
  <2>1. \A i \in DOMAIN rows :
           rows[i].status = "rejected" => rows'[i].status = "rejected"
    BY <1>a DEF WritesOwnRow
  <2>. QED
    BY <1>a, <2>1, RowsTyped, SeparatedStays DEF RowInv
<1>4. ArbKeysDiffer'
  BY <1>a DEF RowInv, ArbKeysDiffer
<1>. QED
  BY <1>1, <1>2, <1>3, <1>4, RecordedHandler, OwnersHandler, UndecidedHandler
     DEF RowInv

-----------------------------------------------------------------------------
(* RowInv is inductive while OneHandlerPerRow holds                        *)

LEMMA RowInit == Init => RowInv
<1>. SUFFICES ASSUME Init PROVE RowInv
  OBVIOUS
<1>1. /\ rows = << >> /\ arbs = << >> /\ requests = {} /\ poll.pc = "asleep"
      /\ \A t \in Threads : threads[t].pc = "idle"
  BY DEF Init, PMInit, ApprovalInit, PollInit, Idle, Asleep
<1>2. OrderKeys = {}
  BY <1>1 DEF OrderKeys
<1>. QED
  BY <1>1, <1>2
     DEF RowInv, OrdersAreRecorded, ArbKeysDiffer, KeysNameKinds,
         HandlersOwnRows, FiredOpenMatchesArb, OpensSeparatedByClose,
         InsertIsSeparated, UndecidedHasNoOrder

LEMMA RowNext ==
    OrderInv /\ RowInv /\ OneHandlerPerRow /\ [Next]_vars => RowInv'
<1>. SUFFICES ASSUME OrderInv, RowInv, OneHandlerPerRow, [Next]_vars
              PROVE  RowInv'
  OBVIOUS
<1>1. CASE PMStep /\ UNCHANGED <<rows, approvalVars, pollVars>>
  BY <1>1, RowPM
<1>2. ASSUME NEW t \in Threads, Click(t) \/ HandlerStep(t), UNCHANGED pollVars
      PROVE  RowInv'
  BY <1>2, RowClick, RowHandler
<1>3. CASE (PollStep \/ HourTick) /\ UNCHANGED approvalVars
  BY <1>3, RowPoll
<1>4. CASE Crash
  BY <1>4, RowCrash
<1>5. CASE UNCHANGED vars
  BY <1>5
     DEF vars, RowInv, OrdersAreRecorded, ArbKeysDiffer, KeysNameKinds,
         HandlersOwnRows, FiredOpenMatchesArb, OpensSeparatedByClose,
         InsertIsSeparated, UndecidedHasNoOrder, OrderKeys, OwnsRow, NoOrderFor,
         Firing, Answered, Aliased, SignalKey, Unfired, OrderUnrecorded
<1>. QED
  BY <1>1, <1>2, <1>3, <1>4, <1>5 DEF Next

\* While no two requests are at work on one row, every order is that of a
\* recorded OPEN, a handler's row is as it validated it, and an undecided row
\* has an order only while its handler fires it, or after that handler died or
\* could not read the answer (approval.py:69-225).
THEOREM RowsHold == Spec /\ []OneHandlerPerRow => []RowInv
BY RowInit, RowNext, OrderHolds, PTL DEF Spec

\* A fired OPEN (approval.py:111-118 and 213-220) stores the arb that its own
\* current key opened, if no two requests are ever at work on one row.
THEOREM FiredOpensMatch == Spec /\ []OneHandlerPerRow => []FiredOpenMatchesArb
<1>1. RowInv => FiredOpenMatchesArb
  BY DEF RowInv
<1>. QED
  BY <1>1, RowsHold, PTL

\* Between two OPENs of an asset of which the first was not rejected there is
\* a CLOSE (poller.py:86-112), if no two requests are ever at work on one row.
THEOREM OpensStaySeparated == Spec /\ []OneHandlerPerRow => []OpensSeparatedByClose
<1>1. RowInv => OpensSeparatedByClose
  BY DEF RowInv
<1>. QED
  BY <1>1, RowsHold, PTL

\* A retry that succeeds gives the row a later arb (approval.py:192-220), if no
\* two requests are ever at work on one row.
THEOREM RetriesOpenAnew == Spec /\ []OneHandlerPerRow => RetryOpensAnew
<1>1. ASSUME OrderInv, RowInv, [Next]_vars
      PROVE  [\A i \in DOMAIN rows : rows'[i].key # rows[i].key =>
                rows'[i].arb > rows[i].arb]_vars
  <2>1. CASE rows' = rows
    BY <2>1
  <2>2. ASSUME NEW t \in Threads, HandlerStep(t)
        PROVE  \A i \in DOMAIN rows : rows'[i].key # rows[i].key =>
                  rows'[i].arb > rows[i].arb
    BY <1>1, <2>2, HandlerWritesOwnRow DEF WritesOwnRow
  <2>3. CASE PollInsert
    <3>1. CASE rows' = Append(rows, poll.new)
      <4>1. rows \in Seq(Row) /\ poll.pc = "insert"
        BY <1>1, <2>3 DEF OrderInv, GrantInv, TypeOK, PollInsert
      <4>. QED
        BY <3>1, <4>1
    <3>. QED
      BY <2>1, <2>3, <3>1 DEF PollInsert
  <2>4. ASSUME NEW t \in Threads, Click(t) PROVE rows' = rows
    BY <2>4 DEF Click, ApproveLoad, RejectLoad, RetryLoad
  <2>. QED
    BY <1>1, <2>1, <2>2, <2>3, <2>4
       DEF Next, PollStep, ScanStep, PollStart, PollDecide, HourTick, Crash, vars
<1>. QED
  BY <1>1, RowsHold, OrderHolds, PTL DEF Spec, RetryOpensAnew

-----------------------------------------------------------------------------
(* Undecided rows                                                          *)

LEMMA UndecidedRow ==
    ASSUME RowInv, NEW i \in DOMAIN rows,
           Unfired(i), ~OrderUnrecorded(i), ~Aliased(i)
    PROVE  /\ rows[i].status = "rejected" => NoOrderFor(i)
           /\ NoOrderFor(i) \/ InHand(i)
<1>1. NoOrderFor(i) \/ \E t \in Threads : Firing(t, i)
  BY DEF RowInv, UndecidedHasNoOrder
<1>2. ASSUME NEW t \in Threads, Firing(t, i)
      PROVE  InHand(i) /\ rows[i].status = "pending"
  BY <1>2 DEF Firing, InHand, RowInv, HandlersOwnRows, OwnsRow
<1>. QED
  BY <1>1, <1>2

LEMMA OrderOfArb ==
    ASSUME NEW a \in DOMAIN arbs, NEW i, arbs[a].key = rows[i].key
    PROVE  ~NoOrderFor(i)
BY DEF NoOrderFor, OrderKeys, SignalKey

\* A rejected signal has no order at the PM and none on its way
\* (approval.py:128-143), unless it had an order that went unrecorded before: a
\* crash or an answer nobody can read is the only way, if no two requests are
\* ever at work on one row.
THEOREM RejectedHasNoOrder ==
    Spec /\ []OneHandlerPerRow => []RejectedMeansNoOrder
<1>1. RowInv => RejectedMeansNoOrder
  BY UndecidedRow DEF RejectedMeansNoOrder, NoOrderFor, OrderKeys, Unfired
<1>. QED
  BY <1>1, RowsHold, PTL

\* A row that asks for a decision has no order, but for the one its handler is
\* placing (approval.py:69-125), with the same exception and under the same
\* condition.
THEOREM NoOrderIsSilent == Spec /\ []OneHandlerPerRow => []NoSilentOrder
<1>1. RowInv => NoSilentOrder
  BY UndecidedRow, OrderOfArb DEF NoSilentOrder, Unfired
<1>. QED
  BY <1>1, RowsHold, PTL

\* An order that failed at the PM is offered for a retry, or a handler is at
\* work on its row (approval.py:146-225, web.py:231-244), with the same
\* exception and under the same condition.
THEOREM FailedOrdersAreRetryable ==
    Spec /\ []OneHandlerPerRow => []FailedOrderIsRetryable
<1>1. ASSUME OrderInv, RowInv, NEW a \in DOMAIN arbs, NEW i \in DOMAIN rows,
             arbs[a].status = "error", arbs[a].key = rows[i].key, ~Aliased(i),
             ~(Unfired(i) /\ OrderUnrecorded(i))
      PROVE  Retryable(i) \/ InHand(i)
  <2>1. rows[i].kind = "OPEN"
    <3>1. PICK j \in DOMAIN rows :
             rows[j].kind = "OPEN" /\ SignalKey(j) = SignalKey(i)
      BY <1>1 DEF RowInv, OrdersAreRecorded, OrderKeys, SignalKey
    <3>. QED
      BY <1>1, <3>1 DEF Aliased
  <2>2. rows[i].status \in Statuses /\ a # NoArb
    BY <1>1, RowsTyped DEF OrderInv, GrantInv, Row, NoArb
  <2>3. CASE Unfired(i)
    BY <1>1, <2>3, UndecidedRow, OrderOfArb DEF Unfired
  <2>4. CASE rows[i].status = "error"
    BY <2>1, <2>4 DEF Retryable
  <2>5. CASE rows[i].status = "fired"
    <3>1. rows[i].arb \in DOMAIN arbs /\ arbs[rows[i].arb].key = arbs[a].key
      BY <1>1, <2>1, <2>5 DEF RowInv, FiredOpenMatchesArb
    <3>2. rows[i].arb = a
      BY <1>1, <3>1 DEF RowInv, ArbKeysDiffer
    <3>. QED
      BY <1>1, <2>1, <2>2, <2>5, <3>2 DEF Retryable
  <2>. QED
    BY <2>2, <2>3, <2>4, <2>5 DEF Statuses, Unfired
<1>2. OrderInv /\ RowInv => FailedOrderIsRetryable
  BY <1>1 DEF FailedOrderIsRetryable
<1>. QED
  BY <1>2, RowsHold, OrderHolds, PTL
=============================================================================
