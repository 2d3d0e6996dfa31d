------------------------------ MODULE PollLoop ------------------------------
(***************************************************************************)
(* The life of the background poller: poll_loop of poller.py, a task of    *)
(* the event loop that sleeps, then waits for one scan in a worker thread, *)
(* and the lifespan of web.py, which cancels it. A cancelled task stops    *)
(* waiting; the thread it waited for does not stop.                        *)
(***************************************************************************)
EXTENDS Naturals

VARIABLES loop,            \* where the poll_loop task stands
          scans,           \* the scans handed to the worker threads
          server           \* the phase of the server's life

loopVars == <<loop, scans, server>>

\* sleep: in asyncio.sleep    scan: in to_thread    ended: the task is done
\* `cancelled` is a cancellation not yet delivered to the task, `outcome` the
\* result of the awaited scan not yet delivered to it.
Outcomes == {"none", "returned", "raised"}
Loop == [pc: {"sleep", "scan", "ended"}, cancelled: BOOLEAN, outcome: Outcomes]

Scans == [queued: Nat, running: Nat]

\* up; stopping: no new requests (SIGTERM); closing: the lifespan awaits the
\* task; down: the lifespan is over; exited: the worker threads are joined.
Phases == {"up", "stopping", "closing", "down", "exited"}

LoopInit ==
    /\ loop = [pc |-> "sleep", cancelled |-> FALSE, outcome |-> "none"]
    /\ scans = [queued |-> 0, running |-> 0]
    /\ server = "up"

-----------------------------------------------------------------------------
(* poll_loop                                                               *)

\* Mutant: the scan is started and not awaited.
Timer_Unawaited ==
    /\ loop.pc = "sleep" /\ ~loop.cancelled
    /\ scans' = [scans EXCEPT !.queued = @ + 1]
    /\ UNCHANGED <<loop, server>>

\* The sleep is over. (stop_event is only ever set together with the
\* cancellation, so its check never finds it set here.)
Timer ==
    /\ loop.pc = "sleep" /\ ~loop.cancelled
    /\ loop' = [loop EXCEPT !.pc = "scan"]
    /\ scans' = [scans EXCEPT !.queued = @ + 1]
    /\ UNCHANGED server

ScanStarts ==
    /\ scans.queued > 0
    /\ scans' = [scans EXCEPT !.queued = @ - 1, !.running = @ + 1]
    /\ UNCHANGED <<loop, server>>

\* The outcome of a scan nobody awaits any more is dropped.
ScanEnds ==
    /\ scans.running > 0
    /\ scans' = [scans EXCEPT !.running = @ - 1]
    /\ \E outcome \in {"returned", "raised"} :
          loop' = IF loop.pc = "scan" THEN [loop EXCEPT !.outcome = outcome]
                  ELSE loop
    /\ UNCHANGED server

\* Mutant: an exception of the scan leaves the loop.
Resume_Raises ==
    /\ loop.pc = "scan" /\ ~loop.cancelled
    /\ loop.outcome # "none"
    /\ loop' = [loop EXCEPT !.pc = IF loop.outcome = "raised" THEN "ended"
                                   ELSE "sleep",
                            !.outcome = "none"]
    /\ UNCHANGED <<scans, server>>

\* Whatever the scan did, the loop sleeps again: an exception is logged.
Resume ==
    /\ loop.pc = "scan" /\ ~loop.cancelled
    /\ loop.outcome # "none"
    /\ loop' = [loop EXCEPT !.pc = "sleep", !.outcome = "none"]
    /\ UNCHANGED <<scans, server>>

\* Mutant: the handler around the scan catches the cancellation too.
CancelDelivered_Swallowed ==
    /\ loop.cancelled /\ loop.pc # "ended"
    /\ loop' = [pc |-> IF loop.pc = "sleep" THEN "ended" ELSE "sleep",
                cancelled |-> FALSE, outcome |-> "none"]
    /\ scans' = [scans EXCEPT !.queued = 0]
    /\ UNCHANGED server

\* In the sleep the task returns; in the scan the cancellation is no Exception
\* and leaves the task. A scan still in the queue never starts.
CancelDelivered ==
    /\ loop.cancelled /\ loop.pc # "ended"
    /\ loop' = [pc |-> "ended", cancelled |-> FALSE, outcome |-> "none"]
    /\ scans' = [scans EXCEPT !.queued = 0]
    /\ UNCHANGED server

LoopStep == ScanStarts \/ ScanEnds \/ Resume \/ CancelDelivered

-----------------------------------------------------------------------------
(* The server.                                                             *)

\* SIGTERM.
Stop ==
    /\ server = "up"
    /\ server' = "stopping"
    /\ UNCHANGED <<loop, scans>>

\* The lifespan's finally: set the event, cancel the task.
Close ==
    /\ server = "stopping"
    /\ server' = "closing"
    /\ loop' = [loop EXCEPT !.cancelled = TRUE]
    /\ UNCHANGED scans

\* `await poll_task` is over when the task is.
CloseReturns ==
    /\ server = "closing"
    /\ loop.pc = "ended"
    /\ server' = "down"
    /\ UNCHANGED <<loop, scans>>

\* The event loop joins its worker threads.
Exit ==
    /\ server = "down"
    /\ scans.queued = 0 /\ scans.running = 0
    /\ server' = "exited"
    /\ UNCHANGED <<loop, scans>>
=============================================================================
