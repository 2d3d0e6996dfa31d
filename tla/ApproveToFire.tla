--------------------------- MODULE ApproveToFire ---------------------------
(***************************************************************************)
(* What the service promises: recording a signal is automatic, sending an  *)
(* order is not. A key reaches the exchange only after an operator granted *)
(* it, for a signal that was recorded, and one grant buys at most one      *)
(* order however often its request is sent. A key is a record whose field  *)
(* retry is 0 for the signal's own key and a timestamp for a retry's.      *)
(***************************************************************************)
EXTENDS Naturals, Sequences

VARIABLES proposed,        \* the keys of the recorded signals
          granted,         \* the keys an operator authorised
          opened           \* the keys of the orders opened, in order

vars == <<proposed, granted, opened>>

Init == proposed = {} /\ granted = {} /\ opened = <<>>

Propose(key) ==
    /\ key.retry = 0
    /\ proposed' = proposed \cup {key}
    /\ UNCHANGED <<granted, opened>>

\* A click authorises the signal's own key, or a suffixed one for a retry.
Grant(key) ==
    /\ [key EXCEPT !.retry = 0] \in proposed
    /\ granted' = granted \cup {key}
    /\ UNCHANGED <<proposed, opened>>

Open(key) ==
    /\ key \in granted
    /\ \A i \in DOMAIN opened : opened[i] # key
    /\ opened' = Append(opened, key)
    /\ UNCHANGED <<proposed, granted>>

\* The bounds are primed only so that TLC can enumerate them: Propose and
\* Grant add their key to the set they range over.
Next ==
    \/ \E key \in proposed' : Propose(key)
    \/ \E key \in granted' : Grant(key)
    \/ \E key \in granted : Open(key)

Spec == Init /\ [][Next]_vars
=============================================================================
