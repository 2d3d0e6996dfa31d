----------------------------- MODULE SignalLog -----------------------------
(***************************************************************************)
(* The `signals` table and the pure decisions the poller takes from it.    *)
(* A row is one recorded transition; its id is its position in the table,  *)
(* which is also its (created_at, id) order, because the single poller is  *)
(* the only writer that inserts.                                           *)
(***************************************************************************)
EXTENDS Naturals, Sequences

CONSTANT Assets            \* the configured assets (ASSETS, e.g. BTC/ETH/SOL)

VARIABLE rows              \* the table: a sequence of Row

NoArb == 0                 \* arb_id IS NULL; the PM numbers arbs from 1
Kinds == {"OPEN", "CLOSE"}
Statuses == {"pending", "fired", "rejected", "error"}

\* An idempotency key: the hour, asset and transition of `sig-<hour>Z-<A>-<K>`
\* and the `-r<timestamp>` suffix of a retry (0: no suffix).
Key == [hour: Nat, asset: Assets, kind: Kinds, retry: Nat]

Row == [asset: Assets, kind: Kinds, status: Statuses, key: Key, arb: Nat]

IdempotencyKey(hour, asset, kind) ==
    [hour |-> hour, asset |-> asset, kind |-> kind, retry |-> 0]

\* The key without its retry suffix, which names the signal itself.
Stripped(key) == [key EXCEPT !.retry = 0]

\* _retry_key strips any earlier suffix before it appends the new timestamp.
RetryKey(key, stamp) == [Stripped(key) EXCEPT !.retry = stamp]

PendingRow(hour, asset, kind, arb) ==
    [asset |-> asset, kind |-> kind, status |-> "pending",
     key |-> IdempotencyKey(hour, asset, kind), arb |-> arb]

\* Mutant: only rows still pending are compared.
KeyRecorded_PendingOnly(key) ==
    \E i \in DOMAIN rows : rows[i].key = key /\ rows[i].status = "pending"

KeyRecorded(key) == \E i \in DOMAIN rows : rows[i].key = key

-----------------------------------------------------------------------------

NonRejected(asset) ==
    {i \in DOMAIN rows : rows[i].asset = asset /\ rows[i].status # "rejected"}

\* Mutant: an OPEN holds the state only once it was fired.
DeriveState_FiredOnly(seenArb, asset) ==
    IF \/ seenArb # NoArb
       \/ \E i \in NonRejected(asset) :
             /\ rows[i].kind = "OPEN" /\ rows[i].status = "fired"
             /\ \A j \in NonRejected(asset) : j <= i
    THEN "OPEN" ELSE "FLAT"

\* OPEN iff the PM snapshot shows a live arb, or the latest non-rejected row is
\* an OPEN: pending, fired and error all hold the state.
DeriveState(seenArb, asset) ==
    IF \/ seenArb # NoArb
       \/ \E i \in NonRejected(asset) :
             /\ rows[i].kind = "OPEN"
             /\ \A j \in NonRejected(asset) : j <= i
    THEN "OPEN" ELSE "FLAT"

\* The trailing average is compared with two thresholds only: "none" (no
\* settlement in the window, or the fetch failed), "exit" (<= exit),
\* "hold" (between) or "entry" (>= entry).
Averages == {"none", "exit", "hold", "entry"}

Decide(state, avg, spot) ==
    IF state = "FLAT" /\ avg = "entry" /\ spot THEN "OPEN"
    ELSE IF state = "OPEN" /\ avg = "exit" THEN "CLOSE"
    ELSE "HOLD"

\* Mutant: the query does not filter by asset.
OpensWithArb_AnyAsset(asset) ==
    {i \in DOMAIN rows : rows[i].kind = "OPEN" /\ rows[i].arb # NoArb}

OpensWithArb(asset) ==
    {i \in DOMAIN rows : /\ rows[i].asset = asset
                         /\ rows[i].kind = "OPEN"
                         /\ rows[i].arb # NoArb}

\* The arb of the latest OPEN row that has one (none or one element).
LastOpenArb(asset) ==
    {rows[i].arb : i \in {k \in OpensWithArb(asset) :
                             \A j \in OpensWithArb(asset) : j <= k}}

\* What a CLOSE signal is told to close: the live arb of the PM snapshot, else
\* the arb stored on the last OPEN row that has one.
ArbIdForClose(seenArb, asset) ==
    IF seenArb # NoArb THEN seenArb
    ELSE IF LastOpenArb(asset) = {} THEN NoArb
    ELSE CHOOSE arb \in LastOpenArb(asset) : TRUE
=============================================================================
