----------------------------- MODULE KeyProofs -----------------------------
(***************************************************************************)
(* The keys of the table stay unique for every set of assets and threads,  *)
(* every choice of faults and every bound, although a retry rewrites the   *)
(* key of a row long after it has computed it.                             *)
(***************************************************************************)
EXTENDS ApproveToFireProofs

\* Suffixes are drawn from the clock, which no row and no handler is ahead of.
\* The key a retry carries across its open is its own: no row and no other
\* retry has it.
KeyInv ==
    /\ KeysUnique
    /\ \A i \in DOMAIN rows : rows[i].key.retry <= stamp
    /\ \A t \in Threads : threads[t].pc = "reopen" =>
          /\ threads[t].sig.key.retry \in 1 .. stamp
          /\ \A i \in DOMAIN rows : rows[i].key # threads[t].sig.key
          /\ \A u \in Threads :
                threads[u].pc = "reopen" /\ threads[u].sig.key = threads[t].sig.key
                => u = t

\* A step that rewrites no key and starts no reopen.
KeepsKeys ==
    /\ DOMAIN rows' = DOMAIN rows
    /\ \A i \in DOMAIN rows : rows'[i].key = rows[i].key
    /\ \A t \in Threads : threads'[t].pc = "reopen" => threads'[t] = threads[t]
    /\ stamp' = stamp

LEMMA QuietStep ==
    ASSUME KeyInv, KeepsKeys
    PROVE  KeyInv'
  BY DEF KeyInv, KeepsKeys, KeysUnique

\* What the table and the handlers are made of.
LEMMA KeyTyped ==
    ASSUME TypeOK
    PROVE  /\ \A i \in DOMAIN rows : rows[i] \in Row /\ rows[i].key \in Key
           /\ DOMAIN threads = Threads
           /\ stamp \in Nat
           /\ \A i \in DOMAIN rows : i \in Nat
  <1>1. \A i \in DOMAIN rows : rows[i] \in Row
    BY DEF TypeOK
  <1> QED
    BY <1>1 DEF TypeOK, Row

\* Writing a row's status, or its status and arb, is no change of its key.
LEMMA StatusWriteKeepsKeys ==
    ASSUME TypeOK, NEW id, NEW status, NEW arb
    PROVE  /\ DOMAIN [rows EXCEPT ![id].status = status] = DOMAIN rows
           /\ \A i \in DOMAIN rows :
                 [rows EXCEPT ![id].status = status][i].key = rows[i].key
           /\ DOMAIN [rows EXCEPT ![id].status = status, ![id].arb = arb]
                = DOMAIN rows
           /\ \A i \in DOMAIN rows :
                 [rows EXCEPT ![id].status = status, ![id].arb = arb][i].key
                   = rows[i].key
  <1>1. \A i \in DOMAIN rows : rows[i] \in Row
    BY KeyTyped
  <1> QED
    BY <1>1 DEF Row

-----------------------------------------------------------------------------
(* The steps of a handler.                                                 *)

LEMMA ClickKeepsKeys ==
    ASSUME TypeOK, NEW t \in Threads, Click(t)
    PROVE  KeepsKeys
  <1>1. PICK id \in DOMAIN rows :
            ApproveLoad(t, id) \/ RejectLoad(t, id) \/ RetryLoad(t, id)
    BY DEF Click
  <1>2. UNCHANGED <<rows, stamp>>
    BY <1>1 DEF ApproveLoad, RejectLoad, RetryLoad
  <1>3. PICK pc \in {"approve", "reject", "retry"} : Load(t, pc, id)
    BY <1>1 DEF ApproveLoad, RejectLoad, RetryLoad
  <1> QED
    BY <1>2, <1>3, KeyTyped DEF Load, KeepsKeys

LEMMA HandlerKeepsKeys ==
    ASSUME TypeOK, NEW t \in Threads, HandlerStep(t),
           ~RetryReopen(t), ~RetryFired(t)
    PROVE  KeepsKeys
  <1> USE KeyTyped DEF KeepsKeys, Goto, Finish, Idle
  <1>1. CASE ApproveOpen(t)
    BY <1>1 DEF ApproveOpen
  <1>a. ASSUME threads[t].pc # "idle"
        PROVE  threads[t] \in Job
    BY <1>a, JobType
  <1>b. ASSUME rows' = rows \/ rows' = [rows EXCEPT ![threads[t].id].status = "error"]
        PROVE  /\ DOMAIN rows' = DOMAIN rows
               /\ \A i \in DOMAIN rows : rows'[i].key = rows[i].key
    <2> DEFINE id == threads[t].id
    <2> HIDE DEF id
    <2>1. CASE rows' = rows
      BY <2>1
    <2>2. CASE rows' = [rows EXCEPT ![id].status = "error"]
      BY <2>2, StatusWriteKeepsKeys
    <2> QED
      BY <1>b, <2>1, <2>2 DEF id
  <1>2. ASSUME NEW up \in BOOLEAN, ApproveClose(t, up)
        PROVE  KeepsKeys
    <2>1. stamp' = stamp /\ threads[t].pc = "approve"
      BY <1>2 DEF ApproveClose
    <2>2. rows' = rows \/ rows' = [rows EXCEPT ![threads[t].id].status = "error"]
      BY <1>2 DEF ApproveClose, MarkError
    <2>3. \/ threads' = [threads EXCEPT ![t] = Idle]
          \/ threads' = [threads EXCEPT ![t].pc = "fire",
                             ![t].sig.arb = CloseTarget(threads[t].sig, up)]
      BY <1>2 DEF ApproveClose
    <2>4. \A u \in Threads : u # t => threads'[u] = threads[u]
      BY <2>3
    <2>5. threads'[t].pc \in {"idle", "fire"}
      BY <1>a, <2>1, <2>3 DEF Job
    <2> QED
      BY <1>b, <2>1, <2>2, <2>4, <2>5
  <1>3. ASSUME NEW up \in BOOLEAN, RetryCheck(t, up)
        PROVE  KeepsKeys
    <2>1. UNCHANGED <<rows, stamp>>
      BY <1>3 DEF RetryCheck
    <2>2. \A u \in Threads : u # t => threads'[u] = threads[u]
      BY <1>3 DEF RetryCheck
    <2>3. threads'[t].pc \in {"idle", "wait", "clear"}
      BY <1>a, <1>3 DEF RetryCheck, Job
    <2> QED
      BY <2>1, <2>2, <2>3
  <1>4. CASE ApproveFired(t)
    <2>1. PICK arb : rows' = [rows EXCEPT ![threads[t].id].status = "fired",
                                          ![threads[t].id].arb = arb]
      BY <1>4 DEF ApproveFired
    <2>2. stamp' = stamp /\ threads' = [threads EXCEPT ![t] = Idle]
      BY <1>4 DEF ApproveFired
    <2> QED
      BY <2>1, <2>2, StatusWriteKeepsKeys
  <1>5. CASE ApproveFailed(t)
    BY <1>5, StatusWriteKeepsKeys DEF ApproveFailed, MarkError
  <1>6. CASE AnswerUnreadable(t) \/ PositionsUnreadable(t)
    <2>1. Finish(t) /\ UNCHANGED <<rows, stamp>>
      BY <1>6, AbandonFinishes
         DEF AnswerUnreadable, PositionsUnreadable, TypeOK
    <2> QED
      BY <2>1
  <1>7. CASE RejectCommit(t)
    BY <1>7, StatusWriteKeepsKeys DEF RejectCommit
  <1>8. CASE RetryCleared(t)
    BY <1>8 DEF RetryCleared
  <1>9. CASE RetryFailed(t)
    <2>1. rows' = rows \/ rows' = [rows EXCEPT ![threads[t].id].status = "error"]
      BY <1>9 DEF RetryFailed, MarkError
    <2>2. stamp' = stamp /\ threads' = [threads EXCEPT ![t] = Idle]
      BY <1>9 DEF RetryFailed
    <2> QED
      BY <1>b, <2>1, <2>2
  <1> QED
    BY <1>1, <1>2, <1>3, <1>4, <1>5, <1>6, <1>7, <1>8, <1>9 DEF HandlerStep

\* The key of a retry is newer than every suffix in use.
LEMMA ReopenKeepsKeyInv ==
    ASSUME TypeOK, KeyInv, NEW t \in Threads, RetryReopen(t)
    PROVE  KeyInv'
  <1> DEFINE key == RetryKey(threads[t].sig.key, stamp + 1)
  <1>1. threads[t] \in Job /\ threads[t].sig.key \in Key /\ stamp \in Nat
    BY JobType, KeyTyped DEF RetryReopen, Row
  <1>2. key.retry = stamp + 1
    BY <1>1 DEF RetryKey, Stripped, Key
  <1>3. /\ rows' = rows /\ stamp' = stamp + 1
        /\ threads' = [threads EXCEPT ![t].pc = "reopen", ![t].sig.key = key]
    BY DEF RetryReopen
  <1> HIDE DEF key
  <1>4. threads'[t].sig.key = key /\ \A u \in Threads : u # t => threads'[u] = threads[u]
    BY <1>1, <1>3, KeyTyped DEF Job, Row
  <1>5. \A i \in DOMAIN rows : rows[i].key.retry \in Nat /\ rows[i].key.retry <= stamp
    BY KeyTyped DEF KeyInv, Key
  <1>6. \A i \in DOMAIN rows : rows[i].key # key
    BY <1>1, <1>2, <1>5
  <1>7. ASSUME NEW u \in Threads, u # t, threads'[u].pc = "reopen"
        PROVE  /\ threads'[u].sig.key # key
               /\ threads'[u].sig.key.retry \in 1 .. stamp + 1
               /\ \A i \in DOMAIN rows : rows[i].key # threads'[u].sig.key
               /\ \A v \in Threads : v # t /\ threads'[v].pc = "reopen"
                     /\ threads'[v].sig.key = threads'[u].sig.key => v = u
    <2>1. threads'[u] = threads[u] /\ threads[u].sig.key.retry \in 1 .. stamp
      BY <1>4, <1>7 DEF KeyInv
    <2> QED
      BY <1>1, <1>2, <1>4, <1>7, <2>1 DEF KeyInv
  <1>8. key.retry \in 1 .. stamp + 1
    BY <1>1, <1>2
  <1>9. ASSUME NEW u \in Threads, threads'[u].pc = "reopen"
        PROVE  /\ threads'[u].sig.key.retry \in 1 .. stamp'
               /\ \A i \in DOMAIN rows' : rows'[i].key # threads'[u].sig.key
               /\ \A v \in Threads :
                     threads'[v].pc = "reopen"
                        /\ threads'[v].sig.key = threads'[u].sig.key => v = u
    <2>1. CASE u = t
      BY <1>3, <1>4, <1>6, <1>7, <1>8, <2>1
    <2>2. CASE u # t
      <3>1. ASSUME NEW v \in Threads, threads'[v].pc = "reopen",
                   threads'[v].sig.key = threads'[u].sig.key
            PROVE  v = u
        <4>1. v # t
          BY <1>4, <1>7, <1>9, <2>2, <3>1
        <4> QED
          BY <1>7, <1>9, <2>2, <3>1, <4>1
      <3>2. /\ threads'[u].sig.key.retry \in 1 .. stamp'
            /\ \A i \in DOMAIN rows' : rows'[i].key # threads'[u].sig.key
        BY <1>3, <1>7, <1>9, <2>2
      <3> QED
        BY <3>1, <3>2
    <2> QED
      BY <2>1, <2>2
  <1>10. \A i \in DOMAIN rows' : rows'[i].key.retry <= stamp'
    BY <1>1, <1>3, <1>5
  <1> QED
    BY <1>3, <1>9, <1>10 DEF KeyInv, KeysUnique

\* The row takes the key that is the retry's own.
LEMMA RetryFiredKeepsKeyInv ==
    ASSUME TypeOK, KeyInv, NEW t \in Threads, RetryFired(t)
    PROVE  KeyInv'
  <1> DEFINE id == threads[t].id
             key == threads[t].sig.key
  <1>1. threads[t].pc = "reopen" /\ stamp' = stamp
            /\ threads' = [threads EXCEPT ![t] = Idle]
    BY DEF RetryFired, Finish
  <1>2. PICK arb : rows' = [rows EXCEPT ![id].status = "fired", ![id].key = key,
                                        ![id].arb = arb]
    BY DEF RetryFired
  <1>3. DOMAIN rows' = DOMAIN rows
    BY <1>2
  <1>4. \A i \in DOMAIN rows :
           rows'[i].key = IF i = id THEN key ELSE rows[i].key
    BY <1>2, KeyTyped DEF Row
  <1>5. /\ \A i \in DOMAIN rows : rows[i].key # key
        /\ key.retry \in 1 .. stamp
        /\ \A u \in Threads : threads[u].pc = "reopen" /\ threads[u].sig.key = key
              => u = t
    BY <1>1 DEF KeyInv
  <1>6. stamp \in Nat
    BY KeyTyped
  <1> HIDE DEF id, key
  <1>7. KeysUnique'
    BY <1>3, <1>4, <1>5 DEF KeyInv, KeysUnique
  <1>8. \A i \in DOMAIN rows' : rows'[i].key.retry <= stamp'
    BY <1>1, <1>3, <1>4, <1>5, <1>6 DEF KeyInv
  <1>9. \A u \in Threads : threads'[u].pc = "reopen" =>
            threads'[u] = threads[u] /\ u # t
    BY <1>1, KeyTyped DEF Idle
  <1>10. ASSUME NEW u \in Threads, threads'[u].pc = "reopen"
         PROVE  /\ threads'[u].sig.key.retry \in 1 .. stamp'
                /\ \A i \in DOMAIN rows' : rows'[i].key # threads'[u].sig.key
                /\ \A v \in Threads :
                      threads'[v].pc = "reopen"
                         /\ threads'[v].sig.key = threads'[u].sig.key => v = u
    <2>1. threads[u].sig.key # key
      BY <1>5, <1>9, <1>10
    <2> QED
      BY <1>1, <1>3, <1>4, <1>9, <1>10, <2>1 DEF KeyInv
  <1> QED
    BY <1>7, <1>8, <1>10 DEF KeyInv

\* The poller's key has no suffix, so no retry has it, and the UNIQUE
\* constraint refuses it if a row does.
LEMMA InsertKeepsKeyInv ==
    ASSUME TypeOK, InsertsAreFresh, KeyInv, PollInsert, threads' = threads,
           stamp' = stamp
    PROVE  KeyInv'
  <1>1. CASE rows' = rows
    BY <1>1, QuietStep DEF KeepsKeys
  <1>2. CASE rows' # rows
    <2>1. /\ poll.pc = "insert" /\ ~KeyRecorded(poll.new.key)
          /\ rows' = Append(rows, poll.new)
      BY <1>2 DEF PollInsert
    <2>2. poll.new.key.retry = 0
      BY <2>1 DEF InsertsAreFresh
    <2>3. rows \in Seq(Row) /\ stamp \in Nat
      BY DEF TypeOK
    <2>4. /\ DOMAIN rows = 1 .. Len(rows) /\ Len(rows) \in Nat
          /\ DOMAIN rows' = 1 .. Len(rows) + 1
          /\ \A i \in 1 .. Len(rows) : rows'[i] = rows[i]
          /\ rows'[Len(rows) + 1] = poll.new
      BY <2>1, <2>3
    <2>5. \A i \in DOMAIN rows : rows[i].key # poll.new.key
      BY <2>1 DEF KeyRecorded
    <2>6. KeysUnique'
      BY <2>4, <2>5 DEF KeyInv, KeysUnique
    <2>7. \A i \in DOMAIN rows' : rows'[i].key.retry <= stamp'
      BY <2>2, <2>3, <2>4 DEF KeyInv
    <2>8. ASSUME NEW u \in Threads, threads[u].pc = "reopen"
          PROVE  \A i \in DOMAIN rows' : rows'[i].key # threads[u].sig.key
      <3>1. threads[u].sig.key # poll.new.key
        BY <2>2, <2>3, <2>8 DEF KeyInv
      <3> QED
        BY <2>4, <2>8, <3>1 DEF KeyInv
    <2> QED
      BY <2>6, <2>7, <2>8 DEF KeyInv
  <1> QED
    BY <1>1, <1>2

-----------------------------------------------------------------------------

LEMMA KeyInit == Init => KeyInv
  BY DEF Init, ApprovalInit, KeyInv, KeysUnique, Idle

LEMMA KeyNext == GrantInv /\ KeyInv /\ [Next]_vars => KeyInv'
  <1> SUFFICES ASSUME GrantInv, KeyInv, [Next]_vars PROVE KeyInv'
    OBVIOUS
  <1>a. TypeOK /\ InsertsAreFresh
    BY DEF GrantInv
  <1>1. CASE UNCHANGED <<rows, threads, stamp>>
    BY <1>1, QuietStep DEF KeepsKeys
  <1>2. CASE PMStep /\ UNCHANGED <<rows, approvalVars, pollVars>>
    BY <1>1, <1>2 DEF approvalVars
  <1>3. ASSUME NEW t \in Threads, Click(t) \/ HandlerStep(t)
        PROVE  KeyInv'
    <2>1. CASE Click(t)
      BY <1>a, <2>1, ClickKeepsKeys, QuietStep
    <2>2. CASE RetryReopen(t)
      BY <1>a, <2>2, ReopenKeepsKeyInv
    <2>3. CASE RetryFired(t)
      BY <1>a, <2>3, RetryFiredKeepsKeyInv
    <2>4. CASE HandlerStep(t) /\ ~RetryReopen(t) /\ ~RetryFired(t)
      BY <1>a, <2>4, HandlerKeepsKeys, QuietStep
    <2> QED
      BY <1>3, <2>1, <2>2, <2>3, <2>4
  <1>4. CASE (PollStep \/ HourTick) /\ UNCHANGED approvalVars
    <2>1. CASE PollInsert
      BY <1>a, <1>4, <2>1, InsertKeepsKeyInv DEF approvalVars
    <2>2. CASE ~PollInsert
      BY <1>1, <1>4, <2>2
         DEF PollStep, ScanStep, PollStart, PollDecide, HourTick, approvalVars
    <2> QED
      BY <2>1, <2>2
  <1>5. CASE Crash
    <2>1. KeepsKeys
      BY <1>5, KeyTyped DEF Crash, Abandon, KeepsKeys, Idle
    <2> QED
      BY <2>1, QuietStep
  <1>6. CASE UNCHANGED vars
    BY <1>1, <1>6 DEF vars
  <1> QED
    BY <1>2, <1>3, <1>4, <1>5, <1>6 DEF Next

\* No two rows have one key: the poller asks before it inserts and is refused
\* otherwise, and the key a retry takes to its row, at the end of its waits, is
\* newer than all that were there when it was made (approval.py:187-225,
\* poller.py:161-186).
THEOREM KeysStayUnique == Spec => []KeysUnique
  <1>1. KeyInv => KeysUnique
    BY DEF KeyInv
  <1> QED
    BY <1>1, KeyInit, KeyNext, GrantsHold, PTL DEF Spec

\* The sentence that HourDedup quotes holds until a retry has made its first
\* key (poller.py:53-55, approval.py:228-241): up to then no key has a suffix,
\* so that two rows for one hour, asset and transition would have one key.
THEOREM HourDedupUntilRetry == Spec => [](stamp = 0 => HourDedup)
  <1>1. ASSUME TypeOK, KeyInv, stamp = 0
        PROVE  HourDedup
    <2>1. ASSUME NEW i \in DOMAIN rows
          PROVE  SignalKey(i) = rows[i].key
      <3>1. rows[i].key \in Key /\ rows[i].key.retry <= 0
        BY <1>1, KeyTyped DEF KeyInv
      <3>2. rows[i].key.retry = 0
        BY <3>1 DEF Key
      <3> QED
        BY <3>1, <3>2 DEF SignalKey, Stripped, Key
    <2> QED
      BY <1>1, <2>1 DEF HourDedup, Aliased, KeyInv, KeysUnique
  <1>2. GrantInv => TypeOK
    BY DEF GrantInv
  <1> QED
    BY <1>1, <1>2, KeyInit, KeyNext, GrantsHold, PTL DEF Spec
=============================================================================
