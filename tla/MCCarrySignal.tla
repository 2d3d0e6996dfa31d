--------------------------- MODULE MCCarrySignal ---------------------------
(***************************************************************************)
(* Small instances of CarrySignal for TLC.                                 *)
(***************************************************************************)
EXTENDS CarrySignal, TLC

\* Handler threads are interchangeable, and so are assets: each has at most one
\* arb that is not closed, so no CHOOSE has to pick among several. Used by
\* safety runs only.
ThreadSymmetry == Permutations(Threads)
Symmetry == Permutations(Threads) \cup Permutations(Assets)

\* States that differ in the history variable `unrecorded` alone have the same
\* successors: no guard reads it. A run whose properties do not read it either
\* takes them for one.
WithoutUnrecorded ==
    <<rows, arbs, requests, replies, faults, threads, stamp, granted, hour, poll>>

\* The behaviours in which the operator never has two requests at work on one
\* row: requests for different rows still interleave.
LockedSpec == Init /\ [][Next /\ OneHandlerPerRow']_vars
=============================================================================
