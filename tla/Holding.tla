------------------------------- MODULE Holding -------------------------------
(***************************************************************************)
(* What lending promises, without requests, versions or transactions: an   *)
(* artifact is promised to at most one loan at a time, a promised artifact *)
(* may be handed over, one that is away comes back, and a loan that is     *)
(* settled never claims an artifact again.                                 *)
(***************************************************************************)
CONSTANTS ArtifactId, LoanId, NoId

VARIABLES
  holder,      \* the loan each artifact is promised to, or NoId
  away,        \* whether the artifact is out of the house
  settled      \* loans that are over

vars == <<holder, away, settled>>

Init ==
  /\ holder = [a \in ArtifactId |-> NoId]
  /\ away = [a \in ArtifactId |-> FALSE]
  /\ settled = {}

Promise(a, l) ==
  /\ holder[a] = NoId
  /\ l \notin settled
  /\ \A b \in ArtifactId : holder[b] # l
  /\ holder' = [holder EXCEPT ![a] = l]
  /\ UNCHANGED <<away, settled>>

HandOver(a) ==
  /\ holder[a] # NoId
  /\ ~away[a]
  /\ away' = [away EXCEPT ![a] = TRUE]
  /\ UNCHANGED <<holder, settled>>

TakeBack(a) ==
  /\ away[a]
  /\ away' = [away EXCEPT ![a] = FALSE]
  /\ holder' = [holder EXCEPT ![a] = NoId]
  /\ settled' = settled \cup {holder[a]}

Next == \E a \in ArtifactId :
  \/ \E l \in LoanId : Promise(a, l)
  \/ HandOver(a)
  \/ TakeBack(a)

Spec == Init /\ [][Next]_vars
=============================================================================
