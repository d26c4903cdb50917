------------------------------ MODULE Delivery ------------------------------
(***************************************************************************)
(* What the outbox promises, without rows, leases, attempts or requests:   *)
(* an event that is posted is handed to the receiver at least once before  *)
(* it is called succeeded, and otherwise it is given up in the open.       *)
(***************************************************************************)
CONSTANT EventId

VARIABLES
  state,    \* absent, open, succeeded or failed
  seen      \* the events the receiver has accepted, once or more

vars == <<state, seen>>

Init ==
  /\ state = [e \in EventId |-> "absent"]
  /\ seen = {}

Post(e) ==
  /\ state[e] = "absent"
  /\ state' = [state EXCEPT ![e] = "open"]
  /\ UNCHANGED seen

\* A request may arrive late: after the event was given up, too.
Accept(e) ==
  /\ state[e] # "absent"
  /\ seen' = seen \cup {e}
  /\ UNCHANGED state

Confirm(e) ==
  /\ state[e] = "open" /\ e \in seen
  /\ state' = [state EXCEPT ![e] = "succeeded"]
  /\ UNCHANGED seen

\* Also when the receiver has accepted the event and the answer was lost.
GiveUp(e) ==
  /\ state[e] = "open"
  /\ state' = [state EXCEPT ![e] = "failed"]
  /\ UNCHANGED seen

Next == \E e \in EventId : Post(e) \/ Accept(e) \/ Confirm(e) \/ GiveUp(e)

Spec == Init /\ [][Next]_vars
=============================================================================
