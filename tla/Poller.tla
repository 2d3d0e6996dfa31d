------------------------------- MODULE Poller -------------------------------
(***************************************************************************)
(* The background poller of poller.py: one thread that reads the PM's      *)
(* positions once per scan, then takes each asset through a fetch, a       *)
(* decision and, on a transition, the insert of one pending row.           *)
(***************************************************************************)
EXTENDS PositionManager

CONSTANT MaxHour           \* bound on the clock

ASSUME MaxHourAssumption == MaxHour \in Nat \ {0}

VARIABLES hour,            \* the UTC clock, in the hours a key is made from
          poll             \* the scan in progress, or Asleep

pollVars == <<hour, poll>>

Asleep == [pc |-> "asleep"]
SeenArbs == [Assets -> Nat]
Scan == [pc: {"scan"}, now: Nat, seen: SeenArbs, todo: SUBSET Assets]
Insert == [pc: {"insert"}, now: Nat, seen: SeenArbs, todo: SUBSET Assets,
           new: Row]

PollInit == hour = 1 /\ poll = Asleep

\* poll_once: the clock and the PM's positions are read once for all assets.
PollStart(up) ==
    /\ poll.pc = "asleep"
    /\ ReadPositions(up)
    /\ poll' = [pc |-> "scan", now |-> hour, todo |-> Assets,
                seen |-> [a \in Assets |-> SeenArb(a, up)]]
    /\ UNCHANGED <<rows, hour, arbs, requests, replies>>

\* Mutant: an asset that was polled stays in the list.
Rest_KeepsAsset(asset) ==
    [pc |-> "scan", now |-> poll.now, seen |-> poll.seen, todo |-> poll.todo]

\* poll_asset is done with one asset; after the last one the loop sleeps.
Rest(asset) ==
    IF poll.todo = {asset} THEN Asleep
    ELSE [pc |-> "scan", now |-> poll.now, seen |-> poll.seen,
          todo |-> poll.todo \ {asset}]

\* The fetch's outcome, then the reads and the decision up to the insert. The
\* order of the assets is configuration, so any order is possible.
PollDecide(asset, avg, spot) ==
    LET kind == Decide(DeriveState(poll.seen[asset], asset), avg, spot)
        arb == IF kind = "CLOSE" THEN ArbIdForClose(poll.seen[asset], asset)
               ELSE NoArb
    IN  /\ poll.pc = "scan"
        /\ asset \in poll.todo
        /\ poll' = IF \/ kind = "HOLD"
                      \/ KeyRecorded(IdempotencyKey(poll.now, asset, kind))
                   THEN Rest(asset)
                   ELSE [pc |-> "insert", now |-> poll.now,
                         seen |-> poll.seen, todo |-> poll.todo,
                         new |-> PendingRow(poll.now, asset, kind, arb)]
        /\ UNCHANGED <<rows, hour, pmVars>>

\* The UNIQUE constraint has the last word; a refused insert is swallowed.
PollInsert ==
    /\ poll.pc = "insert"
    /\ rows' = IF KeyRecorded(poll.new.key) THEN rows
               ELSE Append(rows, poll.new)
    /\ poll' = Rest(poll.new.asset)
    /\ UNCHANGED <<hour, pmVars>>

HourTick ==
    /\ hour < MaxHour
    /\ hour' = hour + 1
    /\ UNCHANGED <<rows, poll, pmVars>>

\* One step of a scan that has started.
ScanStep ==
    \/ \E asset \in Assets, avg \in Averages, spot \in BOOLEAN :
          PollDecide(asset, avg, spot)
    \/ PollInsert

PollStep == (\E up \in BOOLEAN : PollStart(up)) \/ ScanStep
=============================================================================
