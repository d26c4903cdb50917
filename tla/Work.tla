-------------------------------- MODULE Work --------------------------------
(***************************************************************************)
(* What the worker jobs of HeritageGuard promise to the work they carry,   *)
(* without rows, leases, attempts or processes: a job is run by one at a   *)
(* time, any number of times, and any run may be dropped; it succeeds only *)
(* with a run that came back without error, and settles once.              *)
(***************************************************************************)
CONSTANT JobId

VARIABLES
  state,   \* absent, open, succeeded or failed
  run      \* the run of a job that is going on, if any

workVars == <<state, run>>

WorkInit ==
  /\ state = [j \in JobId |-> "absent"]
  /\ run = [j \in JobId |-> "none"]

Post(j) ==
  /\ state[j] = "absent"
  /\ state' = [state EXCEPT ![j] = "open"]
  /\ UNCHANGED run

\* A job of an unknown kind is in error at once.
Begin(j) ==
  /\ state[j] = "open" /\ run[j] = "none"
  /\ \E started \in {"going", "error"} : run' = [run EXCEPT ![j] = started]
  /\ UNCHANGED state

Return(j, result) ==
  /\ run[j] = "going"
  /\ run' = [run EXCEPT ![j] = result]
  /\ UNCHANGED state

Settle(j, as) ==
  /\ state' = [state EXCEPT ![j] = as]
  /\ run' = [run EXCEPT ![j] = "none"]

Succeed(j) == run[j] = "ok" /\ Settle(j, "succeeded")

GiveUp(j) == run[j] = "error" /\ Settle(j, "failed")

\* The job is put back, or nobody could write how the run went: it may run again, or
\* never.
Drop(j) ==
  /\ run[j] # "none"
  /\ run' = [run EXCEPT ![j] = "none"]
  /\ UNCHANGED state

WorkNext ==
  \E j \in JobId :
    \/ Post(j) \/ Begin(j) \/ \E result \in {"ok", "error"} : Return(j, result)
    \/ Succeed(j) \/ GiveUp(j) \/ Drop(j)

WorkSpec == WorkInit /\ [][WorkNext]_workVars
=============================================================================
