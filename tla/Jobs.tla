-------------------------------- MODULE Jobs --------------------------------
(***************************************************************************)
(* The worker jobs of HeritageGuard: rows with a lease in the database,    *)
(* and the processes that claim them, run their handlers and write the     *)
(* outcome.  A process is one start of the server; it draws a new owner id *)
(* when it starts, so a process here starts once.  It handles one job at a *)
(* time.  Between the statements of one process the others run, time       *)
(* passes, and any process may be told to stop, crash, or lose a statement.*)
(*                                                                         *)
(* Stored times are only compared with the present, so a row keeps what is *)
(* left: wait until available_at, lease until lease_expires_at.            *)
(***************************************************************************)
EXTENDS Naturals, FiniteSets

CONSTANTS
  JobId,         \* ids of worker_jobs rows
  Process,       \* starts of the server, each with an owner id of its own
  Handled,       \* jobs whose kind has a handler
  NoId,          \* SQL NULL
  MaxAttempts,   \* max_attempts of every job
  LeaseDuration  \* in seconds, like all times here

ASSUME JobsAssumption ==
  /\ Handled \subseteq JobId
  /\ IsFiniteSet(Process)
  /\ NoId \notin JobId \cup Process
  /\ MaxAttempts \in Nat \ {0}
  /\ LeaseDuration \in Nat \ {0}

VARIABLES
  job,       \* worker_jobs rows by id; "absent" is an id with no row
  process    \* what each process is doing

vars == <<job, process>>

-----------------------------------------------------------------------------

JobStatus == {"pending", "running", "succeeded", "retry", "failed"}

Outcome == {"none", "ok", "error", "cancelled", "unhandled"}

JobRow == [status : JobStatus \cup {"absent"}, attempts : Nat, wait : Nat,
           owner : Process \cup {NoId}, lease : 0..LeaseDuration]

ProcessState == [mode : {"new", "up", "stopping", "gone"},
                 job : JobId \cup {NoId}, attempts : Nat, outcome : Outcome]

NoJob == [status |-> "absent", attempts |-> 0, wait |-> 0, owner |-> NoId, lease |-> 0]

\* A process that runs no job: what runOne leaves behind.
Idle(mode) == [mode |-> mode, job |-> NoId, attempts |-> 0, outcome |-> "none"]

Init ==
  /\ job = [j \in JobId |-> NoJob]
  /\ process = [p \in Process |-> Idle("new")]

\* A mistake: jobs with an expired lease are claimed as well, and nothing else changes.
ClaimableMutant(j) ==
  /\ job[j].status \in {"pending", "running", "retry"}
  /\ job[j].wait = 0
  /\ job[j].owner = NoId \/ job[j].lease = 0

\* A mistake: a retry is never picked up.
ClaimableOnce(j) ==
  /\ job[j].status = "pending"
  /\ job[j].wait = 0

\* A mistake: a failed job is taken for a retry.
ClaimableFailed(j) ==
  /\ job[j].status \in {"pending", "retry", "failed"}
  /\ job[j].wait = 0
  /\ job[j].owner = NoId \/ job[j].lease = 0

\* The rows ClaimJob selects.
Claimable(j) ==
  /\ job[j].status \in {"pending", "retry"}
  /\ job[j].wait = 0
  /\ job[j].owner = NoId \/ job[j].lease = 0

\* The lease clauses of CompleteJob, RetryJob and FailJob.
LeaseValid(p, j) ==
  job[j].status = "running" /\ job[j].owner = p /\ job[j].lease > 0

\* A mistake: one attempt too many.
LastAttemptMutant(n) == n > MaxAttempts

\* Whether an error is final.
LastAttempt(n) == n >= MaxAttempts

\* Seconds until the next attempt: 2^(n-1), with n held between 1 and 8.
Backoff(n) ==
  <<1, 2, 4, 8, 16, 32, 64, 128>>[IF n < 1 THEN 1 ELSE IF n > 8 THEN 8 ELSE n]

-----------------------------------------------------------------------------
(* The rows.                                                               *)

\* A reading is recorded, and the job that assesses it with it.
Enqueue(j) ==
  /\ job[j].status = "absent"
  /\ job' = [job EXCEPT ![j].status = "pending"]
  /\ UNCHANGED process

\* Process p gets the row: the order of the queue is left open, since no
\* property depends on it.
ClaimJob(p, j) ==
  /\ process[p].mode = "up"
  /\ process[p].job = NoId
  /\ Claimable(j)
  /\ job' = [job EXCEPT ![j] = [@ EXCEPT !.status = "running", !.owner = p,
                                         !.lease = LeaseDuration,
                                         !.attempts = job[j].attempts + 1]]
  /\ process' = [process EXCEPT ![p] =
       [@ EXCEPT !.job = j, !.attempts = job[j].attempts + 1,
                 !.outcome = IF j \in Handled THEN "none" ELSE "unhandled"]]

\* A mistake: the columns of the lease are left alone.
ReleasedMutant(j, status, wait) ==
  job' = [job EXCEPT ![j] = [@ EXCEPT !.status = status, !.wait = wait]]

\* The row after its lease has been given up.
Released(j, status, wait) ==
  job' = [job EXCEPT ![j] = [@ EXCEPT !.status = status, !.wait = wait,
                                      !.owner = NoId, !.lease = 0]]

\* runOne returns: with or without a write, the process looks for another job.
RunOneReturns(p) == process' = [process EXCEPT ![p] = Idle(@.mode)]

\* The handler returns.  Its context is the runner's, so it is cancelled only
\* when the process has been told to stop; it may return a result all the same.
HandlerReturns(p, outcome) ==
  /\ process[p].mode \in {"up", "stopping"}
  /\ process[p].job # NoId
  /\ process[p].outcome = "none"
  /\ outcome = "cancelled" => process[p].mode = "stopping"
  /\ process' = [process EXCEPT ![p].outcome = outcome]
  /\ UNCHANGED job

\* The statement with which runOne ends writes the outcome.  Its context is cancelled
\* once the process stops, and then it writes nothing.
CompleteJob(p) ==
  LET j == process[p].job IN
  /\ process[p].mode = "up" /\ process[p].outcome = "ok"
  /\ LeaseValid(p, j)
  /\ Released(j, "succeeded", job[j].wait)
  /\ RunOneReturns(p)

FailJob(p) ==
  LET j == process[p].job IN
  /\ process[p].mode = "up"
  /\ \/ process[p].outcome = "unhandled"
     \/ process[p].outcome = "error" /\ LastAttempt(process[p].attempts)
  /\ LeaseValid(p, j)
  /\ Released(j, "failed", job[j].wait)
  /\ RunOneReturns(p)

RetryJob(p) ==
  LET j == process[p].job IN
  /\ process[p].mode = "up"
  /\ process[p].outcome = "error" /\ ~LastAttempt(process[p].attempts)
  /\ LeaseValid(p, j)
  /\ Released(j, "retry", Backoff(process[p].attempts))
  /\ RunOneReturns(p)

\* A cancelled job goes back at once: this statement runs under WithoutCancel,
\* and asks for the owner but not for the expiry.
ReleaseLease(p) ==
  LET j == process[p].job IN
  /\ process[p].mode = "stopping" /\ process[p].outcome = "cancelled"
  /\ job[j].status = "running" /\ job[j].owner = p
  /\ Released(j, "retry", 0)
  /\ RunOneReturns(p)

\* The statement changes no row, because the lease has expired or has been lost
\* (ErrLeaseLost) or because the context of a stopping process is cancelled.
NotWritten(p) ==
  LET j == process[p].job IN
  /\ process[p].outcome # "none"
  /\ \/ process[p].mode = "up" /\ ~LeaseValid(p, j)
     \/ process[p].mode = "stopping" /\ process[p].outcome # "cancelled"
     \/ process[p].mode = "stopping" /\ ~(job[j].status = "running" /\ job[j].owner = p)
  /\ RunOneReturns(p)
  /\ UNCHANGED job

\* The statement fails: SQLITE_BUSY, an I/O error, the timeout of the release.
StatementFails(p) ==
  /\ process[p].mode \in {"up", "stopping"}
  /\ process[p].outcome # "none"
  /\ RunOneReturns(p)
  /\ UNCHANGED job

-----------------------------------------------------------------------------
(* The processes, and time.                                                *)

Start(p) ==
  /\ process[p].mode = "new"
  /\ process' = [process EXCEPT ![p].mode = "up"]
  /\ UNCHANGED job

\* A signal cancels the context of the runner and of the running handler.
Stop(p) ==
  /\ process[p].mode = "up"
  /\ process' = [process EXCEPT ![p].mode = "stopping"]
  /\ UNCHANGED job

\* Run returns once runOne has; the process then ends.
Exit(p) ==
  /\ process[p].mode = "stopping"
  /\ process[p].job = NoId
  /\ process' = [process EXCEPT ![p] = Idle("gone")]
  /\ UNCHANGED job

Crash(p) ==
  /\ process[p].mode \in {"up", "stopping"}
  /\ process' = [process EXCEPT ![p] = Idle("gone")]
  /\ UNCHANGED job

Earlier(n) == IF n = 0 THEN 0 ELSE n - 1

\* A second passes.
Tick ==
  /\ \E j \in JobId : job[j].wait > 0 \/ job[j].lease > 0
  /\ job' = [j \in JobId |-> [job[j] EXCEPT !.wait = Earlier(@), !.lease = Earlier(@)]]
  /\ UNCHANGED process

Finish(p) ==
  CompleteJob(p) \/ FailJob(p) \/ RetryJob(p) \/ ReleaseLease(p) \/ NotWritten(p)

\* What a process does by itself.
Work(p) ==
  \/ \E j \in JobId : ClaimJob(p, j)
  \/ \E outcome \in {"ok", "error", "cancelled"} : HandlerReturns(p, outcome)
  \/ Finish(p)
  \/ Exit(p)

Next ==
  \/ \E j \in JobId : Enqueue(j)
  \/ \E p \in Process : Work(p) \/ StatementFails(p) \/ Start(p) \/ Stop(p) \/ Crash(p)
  \/ Tick

Spec == Init /\ [][Next]_vars

\* A runner polls as long as it runs, its handler and its statements return, and time
\* passes.  Nothing obliges anyone to start, stop or enqueue anything.
Fairness == WF_vars(Tick) /\ \A p \in Process : WF_vars(Work(p))

FairSpec == Spec /\ Fairness

-----------------------------------------------------------------------------
(* Properties.                                                             *)

\* Rows and processes are well typed, and the rows with a lease are the running ones.
TypeOK ==
  /\ job \in [JobId -> JobRow]
  /\ process \in [Process -> ProcessState]
  /\ \A j \in JobId : job[j].owner # NoId <=> job[j].status = "running"

\* A job that a process has in hand is running in that process's name, even when its
\* lease has expired: no two processes ever run the handler of one job at a time
\* (ClaimJob against runOne of another process).
OneRunner ==
  \A p \in Process : process[p].job # NoId =>
    /\ job[process[p].job].status = "running"
    /\ job[process[p].job].owner = p

\* The processes that were told to stop or have ended.
Ended == {p \in Process : process[p].mode \in {"stopping", "gone"}}

\* Attempts are counted: a handled job fails only after max_attempts claims, and it is
\* claimed more often than that only when stopping processes gave it back, once each
\* (runOne compares the attempts it loaded; ReleaseLease does not take one off).
AttemptsCounted ==
  \A j \in JobId :
    /\ job[j].attempts <= MaxAttempts + Cardinality(Ended)
    /\ job[j].status = "failed" /\ j \in Handled => job[j].attempts >= MaxAttempts

Settled(j) == job[j].status \in {"succeeded", "failed"}

\* A settled job stays as it is, whatever late processes still do.
SettledOnce == [][\A j \in JobId : Settled(j) => job'[j] = job[j]]_vars

\* Running, with no process at work on it: its process was lost, or wrote nothing when
\* the run was over (NotWritten, StatementFails) and went on to other jobs.
Stranded(j) == job[j].status = "running" /\ \A p \in Process : process[p].job # j

Served == \E p \in Process : <>[](process[p].mode = "up")

\* While some process stays up, a job that is enqueued is settled, however many attempts,
\* waits and restarts that takes, unless it is left stranded: its process was lost with
\* it, or its handler outlived the lease, or the statement that ends the run failed or was
\* cancelled by a shutdown, on a server that may well stay up (runOne, retryBackoff and
\* ClaimJob together).
EventuallySettled ==
  Served => \A j \in JobId : (job[j].status # "absent") ~> (Settled(j) \/ Stranded(j))

\* What "durable leases" and ClaimJob's clause for expired leases say: a running job that
\* no process is at work on is taken over once its lease has expired.  Does not hold: ClaimJob selects
\* pending and retry rows only, and those have no lease.
LeaseTakenOver == Served => \A j \in JobId : Stranded(j) ~> ~Stranded(j)

-----------------------------------------------------------------------------
(* What the jobs promise.                                                  *)

WorkState(j) ==
  IF job[j].status \in {"absent", "succeeded", "failed"} THEN job[j].status ELSE "open"

\* The run of a job is that of the process that has it in hand.
WorkRun(j) ==
  LET runners == {p \in Process : process[p].job = j} IN
  CASE runners = {} -> "none"
    [] \E p \in runners : process[p].outcome = "none" -> "going"
    [] \E p \in runners : process[p].outcome = "ok" -> "ok"
    [] OTHER -> "error"

W == INSTANCE Work WITH state <- [j \in JobId |-> WorkState(j)],
                        run <- [j \in JobId |-> WorkRun(j)]

\* A job is run by one process at a time, succeeds only with a run that came back without
\* error and fails only with one in error, and is never run again once it has settled.
ImplementsWork == W!WorkSpec
=============================================================================
