----------------------------- MODULE JobsProofs -----------------------------
(***************************************************************************)
(* Proofs about Jobs, for any sets of jobs and kinds, any finite number of *)
(* processes, and any max_attempts and lease.  One invariant relates what  *)
(* a process has in its locals to the row it claimed; a second one counts  *)
(* attempts against the processes that were stopped.                       *)
(***************************************************************************)
EXTENDS Jobs, FiniteSetTheorems, TLAPS

\* What runOne holds agrees with the row: a job in hand has the attempts that were
\* loaded, only a process that runs has one, and only with one is there an outcome.
Hands ==
  \A p \in Process :
    /\ process[p].job = NoId => process[p].outcome = "none"
    /\ process[p].mode \in {"new", "gone"} => process[p].job = NoId
    /\ process[p].job # NoId => process[p].attempts = job[process[p].job].attempts

JobsInv == TypeOK /\ OneRunner /\ Hands

-----------------------------------------------------------------------------
\* The table of retryBackoff holds numbers.
LEMMA BackoffType == \A n \in Nat : Backoff(n) \in Nat
  <1> SUFFICES ASSUME NEW n \in Nat PROVE Backoff(n) \in Nat
    OBVIOUS
  <1> DEFINE k == IF n < 1 THEN 1 ELSE IF n > 8 THEN 8 ELSE n
  <1>1. k \in {1, 2, 3, 4, 5, 6, 7, 8}
    OBVIOUS
  <1>2. Backoff(n) = <<1, 2, 4, 8, 16, 32, 64, 128>>[k]
    BY DEF Backoff
  <1> HIDE DEF k
  <1>3. QED
    BY <1>1, <1>2

\* The database and the processes start in the invariant.
LEMMA InitInv == Init => JobsInv
  BY JobsAssumption
  DEF Init, NoJob, Idle, JobsInv, TypeOK, JobRow, ProcessState, JobStatus, Outcome,
      OneRunner, Hands

\* A claim keeps the invariant: the row was pending or waiting for a retry, so no
\* process had it.
LEMMA ClaimInv ==
  ASSUME JobsInv, NEW p \in Process, NEW j \in JobId, ClaimJob(p, j)
  PROVE  JobsInv'
  <1> USE DEF JobsInv
  <1>1. /\ process[p].mode = "up" /\ process[p].job = NoId
        /\ job[j].status \in {"pending", "retry"}
    BY DEF ClaimJob, Claimable
  <1>2. /\ job' = [job EXCEPT ![j] = [job[j] EXCEPT !.status = "running", !.owner = p,
                     !.lease = LeaseDuration, !.attempts = job[j].attempts + 1]]
        /\ process' = [process EXCEPT ![p] =
             [process[p] EXCEPT !.job = j, !.attempts = job[j].attempts + 1,
                !.outcome = IF j \in Handled THEN "none" ELSE "unhandled"]]
    BY DEF ClaimJob
  <1>3. TypeOK'
    <2>1. job'[j] = [job[j] EXCEPT !.status = "running", !.owner = p,
                       !.lease = LeaseDuration, !.attempts = job[j].attempts + 1]
      BY <1>2 DEF TypeOK
    <2>2. job[j] \in JobRow /\ LeaseDuration \in 0..LeaseDuration
      BY JobsAssumption DEF TypeOK
    <2>3. job'[j] \in JobRow
      <3>1. job[j].attempts + 1 \in Nat /\ p \in Process \cup {NoId}
        BY <2>2 DEF JobRow
      <3>2. QED
        BY <2>1, <2>2, <3>1 DEF JobRow, JobStatus
    <2>4. process'[p] = [process[p] EXCEPT !.job = j, !.attempts = job[j].attempts + 1,
                !.outcome = IF j \in Handled THEN "none" ELSE "unhandled"]
      BY <1>2 DEF TypeOK
    <2>5. process[p] \in ProcessState /\ job[j].attempts \in Nat
      BY <2>2 DEF TypeOK, JobRow
    <2>6. process'[p] \in ProcessState
      <3> DEFINE o == IF j \in Handled THEN "none" ELSE "unhandled"
      <3>1. o \in Outcome /\ job[j].attempts + 1 \in Nat /\ j \in JobId \cup {NoId}
        BY <2>5 DEF Outcome
      <3>2. process'[p] = [process[p] EXCEPT !.job = j, !.attempts = job[j].attempts + 1,
                                             !.outcome = o]
        BY <2>4
      <3> HIDE DEF o
      <3>3. QED
        BY <2>5, <3>1, <3>2 DEF ProcessState
    <2>7. job'[j].owner # NoId /\ job'[j].status = "running"
      BY <2>1, <2>2, JobsAssumption DEF JobRow
    <2>8. job' \in [JobId -> JobRow] /\ process' \in [Process -> ProcessState]
      BY <1>2, <2>3, <2>6 DEF TypeOK
    <2>9. QED
      BY <1>2, <2>7, <2>8 DEF TypeOK
  <1>4. \A q \in Process \ {p} : process[q].job # j /\ process'[q] = process[q]
    <2>1. SUFFICES ASSUME NEW q \in Process \ {p}
                   PROVE  process[q].job # j /\ process'[q] = process[q]
      OBVIOUS
    <2>2. process[q].job # j
      BY <1>1, <2>1, JobsAssumption DEF OneRunner
    <2>3. process'[q] = process[q]
      BY <1>2, <2>1 DEF TypeOK
    <2>4. QED
      BY <2>2, <2>3
  <1>5. process'[p].job = j /\ process'[p].mode = "up"
        /\ process'[p].attempts = job[j].attempts + 1
    BY <1>1, <1>2 DEF TypeOK
  <1>6. /\ job'[j].status = "running" /\ job'[j].owner = p
        /\ job'[j].attempts = job[j].attempts + 1
        /\ \A i \in JobId \ {j} : job'[i] = job[i]
    BY <1>2 DEF TypeOK
  <1>7. OneRunner'
    BY <1>4, <1>5, <1>6 DEF OneRunner, TypeOK, ProcessState
  <1>8. Hands'
    BY <1>4, <1>5, <1>6, JobsAssumption DEF Hands, TypeOK, ProcessState
  <1>9. QED
    BY <1>3, <1>7, <1>8

\* Giving up the lease of the job in hand keeps the invariant: nobody else has the job.
LEMMA ReleasedInv ==
  ASSUME JobsInv, NEW p \in Process, process[p].job # NoId,
         NEW status \in JobStatus \ {"running"}, NEW wait \in Nat,
         Released(process[p].job, status, wait), RunOneReturns(p)
  PROVE  JobsInv'
  <1> USE DEF JobsInv
  <1> DEFINE j == process[p].job
  <1>1. j \in JobId /\ job[j].owner = p
    BY DEF TypeOK, ProcessState, OneRunner
  <1>2. /\ job' = [job EXCEPT ![j] = [job[j] EXCEPT !.status = status, !.wait = wait,
                                        !.owner = NoId, !.lease = 0]]
        /\ process' = [process EXCEPT ![p] = Idle(process[p].mode)]
    BY DEF Released, RunOneReturns
  <1>3. \A q \in Process \ {p} : process[q].job # j /\ process'[q] = process[q]
    BY <1>1, <1>2, JobsAssumption DEF OneRunner, TypeOK, ProcessState
  <1> HIDE DEF j
  <1>4. TypeOK'
    <2>1. job'[j] = [job[j] EXCEPT !.status = status, !.wait = wait,
                                   !.owner = NoId, !.lease = 0]
      BY <1>1, <1>2 DEF TypeOK
    <2>2. job[j] \in JobRow /\ 0 \in 0..LeaseDuration
      BY <1>1, JobsAssumption DEF TypeOK
    <2>3. job'[j] \in JobRow
      BY <2>1, <2>2 DEF JobRow
    <2>4. process[p] \in ProcessState
      BY DEF TypeOK
    <2>5. Idle(process[p].mode) \in ProcessState
      BY <2>4 DEF ProcessState, Outcome, Idle
    <2>6. job'[j].owner = NoId /\ job'[j].status # "running"
      BY <2>1, <2>2 DEF JobRow
    <2>7. job' \in [JobId -> JobRow] /\ process' \in [Process -> ProcessState]
      BY <1>2, <2>3, <2>5 DEF TypeOK
    <2>8. QED
      BY <1>2, <2>6, <2>7 DEF TypeOK
  <1>5. \A i \in JobId \ {j} : job'[i] = job[i]
    BY <1>2 DEF TypeOK
  <1>6. process'[p] = Idle(process[p].mode)
    BY <1>2 DEF TypeOK
  <1>7. OneRunner'
    BY <1>3, <1>5, <1>6 DEF OneRunner, TypeOK, ProcessState, Idle
  <1>8. Hands'
    BY <1>3, <1>5, <1>6 DEF Hands, TypeOK, ProcessState, Idle
  <1>9. QED
    BY <1>4, <1>7, <1>8

\* A step that changes one process only, and leaves it idle or with the job and the
\* attempts it had, keeps the invariant.
LEMMA ProcessInv ==
  ASSUME JobsInv, UNCHANGED job, NEW p \in Process,
         NEW mode \in {"new", "up", "stopping", "gone"}, NEW outcome \in Outcome,
         \/ process' = [process EXCEPT ![p] = Idle(mode)]
         \/ /\ process' = [process EXCEPT ![p] = [process[p] EXCEPT !.mode = mode,
                                                                   !.outcome = outcome]]
            /\ mode \in {"new", "gone"} => process[p].job = NoId
            /\ process[p].job = NoId => outcome = "none"
  PROVE  JobsInv'
  <1> USE DEF JobsInv
  <1>1. TypeOK'
    <2>1. process[p] \in ProcessState
      BY DEF TypeOK
    <2>2. Idle(mode) \in ProcessState
      BY DEF ProcessState, Outcome, Idle
    <2>3. [process[p] EXCEPT !.mode = mode, !.outcome = outcome] \in ProcessState
      BY <2>1 DEF ProcessState
    <2>4. process' \in [Process -> ProcessState]
      BY <2>2, <2>3 DEF TypeOK
    <2>5. QED
      BY <2>4 DEF TypeOK
  <1>2. \A q \in Process \ {p} : process'[q] = process[q]
    BY DEF TypeOK
  <1>3. CASE process' = [process EXCEPT ![p] = Idle(mode)]
    <2>1. process'[p].job = NoId /\ process'[p].outcome = "none"
      BY <1>3 DEF TypeOK, Idle
    <2>2. OneRunner' /\ Hands'
      BY <1>2, <2>1 DEF OneRunner, Hands
    <2>3. QED
      BY <1>1, <2>2
  <1>4. CASE /\ process' = [process EXCEPT ![p] = [process[p] EXCEPT !.mode = mode,
                                                                    !.outcome = outcome]]
             /\ mode \in {"new", "gone"} => process[p].job = NoId
             /\ process[p].job = NoId => outcome = "none"
    <2>1. /\ process'[p].job = process[p].job /\ process'[p].mode = mode
          /\ process'[p].outcome = outcome /\ process'[p].attempts = process[p].attempts
      BY <1>4 DEF TypeOK
    <2>2. OneRunner'
      BY <1>2, <2>1 DEF OneRunner
    <2>3. Hands'
      BY <1>2, <1>4, <2>1 DEF Hands
    <2>4. QED
      BY <1>1, <2>2, <2>3
  <1>5. QED
    BY <1>3, <1>4

\* A second less of waiting and of lease changes nothing the invariant speaks of.
LEMMA TickInv == JobsInv /\ Tick => JobsInv'
  <1> SUFFICES ASSUME JobsInv, Tick PROVE JobsInv'
    OBVIOUS
  <1> USE DEF JobsInv
  <1>1. /\ job' = [j \in JobId |-> [job[j] EXCEPT !.wait = Earlier(job[j].wait),
                                                  !.lease = Earlier(job[j].lease)]]
        /\ process' = process
    BY DEF Tick
  <1>2. \A j \in JobId : /\ Earlier(job[j].wait) \in Nat
                         /\ Earlier(job[j].lease) \in 0..LeaseDuration
    BY JobsAssumption DEF TypeOK, JobRow, Earlier
  <1>3. \A j \in JobId :
          /\ job'[j] \in JobRow
          /\ job'[j].status = job[j].status /\ job'[j].owner = job[j].owner
          /\ job'[j].attempts = job[j].attempts
    <2> SUFFICES ASSUME NEW j \in JobId
                 PROVE  /\ job'[j] \in JobRow
                        /\ job'[j].status = job[j].status /\ job'[j].owner = job[j].owner
                        /\ job'[j].attempts = job[j].attempts
      OBVIOUS
    <2>1. job'[j] = [job[j] EXCEPT !.wait = Earlier(job[j].wait),
                                   !.lease = Earlier(job[j].lease)]
      BY <1>1
    <2>2. job[j] \in JobRow
      BY DEF TypeOK
    <2>3. QED
      BY <1>2, <2>1, <2>2 DEF JobRow
  <1>4. TypeOK'
    BY <1>1, <1>3 DEF TypeOK
  <1>5. OneRunner' /\ Hands'
    <2>1. \A q \in Process : process[q].job \in JobId \cup {NoId}
      BY DEF TypeOK, ProcessState
    <2>2. OneRunner'
      BY <1>1, <1>3, <2>1 DEF OneRunner
    <2>3. Hands'
      BY <1>1, <1>3, <2>1 DEF Hands
    <2>4. QED
      BY <2>2, <2>3
  <1>6. QED
    BY <1>4, <1>5

\* A statement that writes the outcome is the only change of a row by a process with a
\* job in hand: it gives up the lease of that job.
LEMMA WrittenInv ==
  ASSUME JobsInv, NEW p \in Process,
         CompleteJob(p) \/ FailJob(p) \/ RetryJob(p) \/ ReleaseLease(p)
  PROVE  /\ process[p].job \in JobId
         /\ \E status \in JobStatus \ {"running"}, wait \in Nat :
              Released(process[p].job, status, wait) /\ RunOneReturns(p)
  <1>1. process[p].job \in JobId
    BY DEF JobsInv, TypeOK, ProcessState, Hands, CompleteJob, FailJob, RetryJob,
           ReleaseLease
  <1>2. job[process[p].job].wait \in Nat /\ process[p].attempts \in Nat
    BY <1>1 DEF JobsInv, TypeOK, ProcessState, JobRow
  <1>3. CASE CompleteJob(p)
    BY <1>1, <1>2, <1>3 DEF CompleteJob, JobStatus
  <1>4. CASE FailJob(p)
    BY <1>1, <1>2, <1>4 DEF FailJob, JobStatus
  <1>5. CASE RetryJob(p)
    <2>1. Backoff(process[p].attempts) \in Nat
      BY <1>2, BackoffType
    <2>2. QED
      BY <1>1, <1>5, <2>1 DEF RetryJob, JobStatus
  <1>6. CASE ReleaseLease(p)
    BY <1>1, <1>6 DEF ReleaseLease, JobStatus
  <1>7. QED
    BY <1>3, <1>4, <1>5, <1>6

\* The steps of a process that write no row.
LEMMA LocalInv ==
  ASSUME JobsInv, NEW p \in Process,
         \/ \E outcome \in {"ok", "error", "cancelled"} : HandlerReturns(p, outcome)
         \/ NotWritten(p) \/ StatementFails(p)
         \/ Start(p) \/ Stop(p) \/ Exit(p) \/ Crash(p)
  PROVE  JobsInv'
  <1>1. /\ process[p].mode \in {"new", "up", "stopping", "gone"}
        /\ process[p].outcome \in Outcome
        /\ process[p] = [mode |-> process[p].mode, job |-> process[p].job,
                         attempts |-> process[p].attempts, outcome |-> process[p].outcome]
    BY DEF JobsInv, TypeOK, ProcessState
  <1>2. ASSUME NEW outcome \in {"ok", "error", "cancelled"}, HandlerReturns(p, outcome)
        PROVE  JobsInv'
    <2>1. outcome \in Outcome
      BY DEF Outcome
    <2>2. process' = [process EXCEPT ![p] = [process[p] EXCEPT !.mode = process[p].mode,
                                                              !.outcome = outcome]]
      BY <1>1, <1>2 DEF HandlerReturns
    <2>3. /\ process[p].job # NoId /\ process[p].mode \notin {"new", "gone"}
          /\ UNCHANGED job
      BY <1>2 DEF HandlerReturns
    <2>4. QED
      BY <1>1, <2>1, <2>2, <2>3, ProcessInv
  <1>3. CASE NotWritten(p) \/ StatementFails(p)
    BY <1>1, <1>3, ProcessInv DEF NotWritten, StatementFails, RunOneReturns
  <1>4. CASE Start(p)
    <2>1. process' = [process EXCEPT ![p] = [process[p] EXCEPT !.mode = "up",
                                               !.outcome = process[p].outcome]]
      BY <1>1, <1>4 DEF Start
    <2>2. QED
      BY <1>1, <1>4, <2>1, ProcessInv DEF Start, JobsInv, Hands
  <1>5. CASE Stop(p)
    <2>1. process' = [process EXCEPT ![p] = [process[p] EXCEPT !.mode = "stopping",
                                               !.outcome = process[p].outcome]]
      BY <1>1, <1>5 DEF Stop
    <2>2. QED
      BY <1>1, <1>5, <2>1, ProcessInv DEF Stop, JobsInv, Hands
  <1>6. CASE Exit(p) \/ Crash(p)
    BY <1>1, <1>6, ProcessInv DEF Exit, Crash
  <1>7. QED
    BY <1>2, <1>3, <1>4, <1>5, <1>6

\* Recording a reading keeps the invariant: nobody has the new job in hand.
LEMMA EnqueueInv ==
  ASSUME JobsInv, NEW j \in JobId, Enqueue(j)
  PROVE  JobsInv'
  <1> USE DEF JobsInv
  <1>1. /\ job' = [job EXCEPT ![j].status = "pending"] /\ process' = process
        /\ job[j].status = "absent"
    BY DEF Enqueue
  <1>2. job' \in [JobId -> JobRow]
    BY <1>1 DEF TypeOK, JobRow, JobStatus
  <1>3. /\ \A i \in JobId \ {j} : job'[i] = job[i]
        /\ job'[j].status = "pending" /\ job'[j].owner = job[j].owner
    BY <1>1 DEF TypeOK, JobRow
  <1>4. TypeOK'
    BY <1>1, <1>2, <1>3 DEF TypeOK
  <1>5. \A p \in Process : /\ process[p].job \in JobId \cup {NoId}
                           /\ process[p].job # NoId => process[p].job # j
    BY <1>1 DEF TypeOK, ProcessState, OneRunner
  <1>6. OneRunner'
    BY <1>1, <1>3, <1>5 DEF OneRunner
  <1>7. Hands'
    BY <1>1, <1>3, <1>5 DEF Hands
  <1>8. QED
    BY <1>4, <1>6, <1>7

\* Every step keeps the invariant.
LEMMA NextInv == JobsInv /\ [Next]_vars => JobsInv'
  <1> SUFFICES ASSUME JobsInv, [Next]_vars PROVE JobsInv'
    OBVIOUS
  <1>1. ASSUME NEW j \in JobId, Enqueue(j) PROVE JobsInv'
    BY <1>1, EnqueueInv
  <1>2. ASSUME NEW p \in Process, NEW j \in JobId, ClaimJob(p, j) PROVE JobsInv'
    BY <1>2, ClaimInv
  <1>3. ASSUME NEW p \in Process,
               CompleteJob(p) \/ FailJob(p) \/ RetryJob(p) \/ ReleaseLease(p)
        PROVE  JobsInv'
    <2>1. process[p].job # NoId
      BY <1>3, WrittenInv, JobsAssumption
    <2>2. PICK status \in JobStatus \ {"running"}, wait \in Nat :
            Released(process[p].job, status, wait) /\ RunOneReturns(p)
      BY <1>3, WrittenInv
    <2>3. QED
      BY <2>1, <2>2, ReleasedInv
  <1>4. ASSUME NEW p \in Process,
               \/ \E outcome \in {"ok", "error", "cancelled"} : HandlerReturns(p, outcome)
               \/ NotWritten(p) \/ StatementFails(p)
               \/ Start(p) \/ Stop(p) \/ Exit(p) \/ Crash(p)
        PROVE  JobsInv'
    BY <1>4, LocalInv
  <1>5. CASE Tick
    BY <1>5, TickInv
  <1>6. CASE UNCHANGED vars
    BY <1>6 DEF vars, JobsInv, TypeOK, OneRunner, Hands
  <1>7. QED
    BY <1>1, <1>2, <1>3, <1>4, <1>5, <1>6 DEF Next, Work, Finish

\* The invariant of rows and hands holds in every behaviour.
THEOREM JobsInvariant == Spec => []JobsInv
  <1>1. QED
    BY InitInv, NextInv, PTL DEF Spec

\* Rows and processes are well typed, and the rows with a lease are the running ones.
THEOREM JobsTypes == Spec => []TypeOK
  <1>1. JobsInv => TypeOK
    BY DEF JobsInv
  <1>2. QED
    BY <1>1, JobsInvariant, PTL

\* A job in hand is running in the name of the process that has it (ClaimJob, runOne):
\* no handler is ever run twice at a time for one job, whatever leases expire.
THEOREM OneRunnerHolds == Spec => []OneRunner
  <1>1. JobsInv => OneRunner
    BY DEF JobsInv
  <1>2. QED
    BY <1>1, JobsInvariant, PTL

-----------------------------------------------------------------------------
\* Waits belong to retries, leases to running jobs.
Timers ==
  \A j \in JobId :
    /\ job[j].wait > 0 => job[j].status = "retry"
    /\ job[j].lease > 0 => job[j].status = "running"

LEMMA InitTimers == Init => Timers
  BY DEF Init, NoJob, Timers

\* Timers after a statement that gives up a lease: it waits only if it is to be retried.
LEMMA ReleasedTimers ==
  ASSUME TypeOK, Timers, NEW j \in JobId, NEW status, NEW wait,
         Released(j, status, wait), wait > 0 => status = "retry"
  PROVE  Timers'
  <1>1. job' = [job EXCEPT ![j] = [job[j] EXCEPT !.status = status, !.wait = wait,
                                     !.owner = NoId, !.lease = 0]]
    BY DEF Released
  <1>2. \A i \in JobId \ {j} : job'[i] = job[i]
    BY <1>1 DEF TypeOK
  <1>3. job'[j].status = status /\ job'[j].wait = wait /\ job'[j].lease = 0
    BY <1>1 DEF TypeOK, JobRow
  <1>4. QED
    BY <1>2, <1>3 DEF Timers

LEMMA NextTimers == JobsInv /\ Timers /\ [Next]_vars => Timers'
  <1> SUFFICES ASSUME JobsInv, Timers, [Next]_vars PROVE Timers'
    OBVIOUS
  <1>0. TypeOK
    BY DEF JobsInv
  <1>1. ASSUME NEW j \in JobId, Enqueue(j) PROVE Timers'
    <2>1. job' = [job EXCEPT ![j].status = "pending"] /\ job[j].status = "absent"
      BY <1>1 DEF Enqueue
    <2>2. job[j].wait \in Nat /\ job[j].lease \in Nat
      BY <1>0, JobsAssumption DEF TypeOK, JobRow
    <2>3. ~(job[j].wait > 0) /\ ~(job[j].lease > 0)
      BY <2>1 DEF Timers
    <2>4. job'[j].wait = job[j].wait /\ job'[j].lease = job[j].lease
      BY <1>0, <2>1 DEF TypeOK, JobRow
    <2>5. \A i \in JobId \ {j} : job'[i] = job[i]
      BY <1>0, <2>1 DEF TypeOK
    <2>6. QED
      BY <2>3, <2>4, <2>5 DEF Timers
  <1>2. ASSUME NEW p \in Process, NEW j \in JobId, ClaimJob(p, j) PROVE Timers'
    <2>1. /\ job' = [job EXCEPT ![j] = [job[j] EXCEPT !.status = "running", !.owner = p,
                       !.lease = LeaseDuration, !.attempts = job[j].attempts + 1]]
          /\ job[j].wait = 0
      BY <1>2 DEF ClaimJob, Claimable
    <2>2. job'[j].status = "running" /\ job'[j].wait = 0
      BY <1>0, <2>1 DEF TypeOK, JobRow
    <2>3. \A i \in JobId \ {j} : job'[i] = job[i]
      BY <1>0, <2>1 DEF TypeOK
    <2>4. QED
      BY <2>2, <2>3 DEF Timers
  <1>3. ASSUME NEW p \in Process,
               CompleteJob(p) \/ FailJob(p) \/ RetryJob(p) \/ ReleaseLease(p)
        PROVE  Timers'
    <2>1. process[p].job \in JobId
      BY <1>3, WrittenInv
    <2>2. ~(job[process[p].job].wait > 0)
      BY <2>1, JobsAssumption DEF Timers, JobsInv, OneRunner
    <2>3. PICK status, wait : /\ Released(process[p].job, status, wait)
                              /\ wait > 0 => status = "retry"
      BY <1>3, <2>2 DEF CompleteJob, FailJob, RetryJob, ReleaseLease
    <2>4. QED
      BY <1>0, <2>1, <2>3, ReleasedTimers
  <1>4. CASE Tick
    <2>1. job' = [j \in JobId |-> [job[j] EXCEPT !.wait = Earlier(job[j].wait),
                                                 !.lease = Earlier(job[j].lease)]]
      BY <1>4 DEF Tick
    <2>2. SUFFICES ASSUME NEW j \in JobId
                   PROVE  /\ job'[j].wait > 0 => job'[j].status = "retry"
                          /\ job'[j].lease > 0 => job'[j].status = "running"
      BY DEF Timers
    <2>3. job[j] \in JobRow /\ job[j].wait \in Nat /\ job[j].lease \in Nat
      <3>1. job[j] \in JobRow
        BY <1>0 DEF TypeOK
      <3>2. \A n \in 0..LeaseDuration : n \in Nat
        BY JobsAssumption
      <3>3. QED
        BY <3>1, <3>2 DEF JobRow
    <2>4. /\ job'[j].wait = Earlier(job[j].wait) /\ job'[j].lease = Earlier(job[j].lease)
          /\ job'[j].status = job[j].status
      BY <2>1, <2>3 DEF JobRow
    <2>5. QED
      BY <2>3, <2>4 DEF Timers, Earlier
  <1>5. CASE UNCHANGED job
    BY <1>5 DEF Timers
  <1>6. QED
    BY <1>1, <1>2, <1>3, <1>4, <1>5
    DEF Next, Work, Finish, vars, HandlerReturns, NotWritten, StatementFails, Start, Stop,
        Exit, Crash

\* Nothing changes a settled row: ClaimJob does not select it, nobody has it in hand,
\* and no timer of it runs.
LEMMA SettledStays ==
  ASSUME JobsInv, Timers, Next, NEW j \in JobId, Settled(j)
  PROVE  job'[j] = job[j]
  <1>0. TypeOK
    BY DEF JobsInv
  <1>1. ASSUME NEW i \in JobId, Enqueue(i) PROVE job'[j] = job[j]
    <2>1. i # j
      BY <1>1 DEF Enqueue, Settled
    <2>2. QED
      BY <1>0, <1>1, <2>1 DEF Enqueue, TypeOK
  <1>2. ASSUME NEW p \in Process, NEW i \in JobId, ClaimJob(p, i) PROVE job'[j] = job[j]
    <2>1. i # j
      BY <1>2 DEF ClaimJob, Claimable, Settled
    <2>2. QED
      BY <1>0, <1>2, <2>1 DEF ClaimJob, TypeOK
  <1>3. ASSUME NEW p \in Process,
               CompleteJob(p) \/ FailJob(p) \/ RetryJob(p) \/ ReleaseLease(p)
        PROVE  job'[j] = job[j]
    <2>1. process[p].job \in JobId /\ process[p].job # j
      BY <1>3, WrittenInv, JobsAssumption DEF JobsInv, OneRunner, Settled
    <2>2. PICK status, wait : Released(process[p].job, status, wait)
      BY <1>3, WrittenInv
    <2>3. QED
      BY <1>0, <2>1, <2>2 DEF Released, TypeOK
  <1>4. CASE Tick
    <2>1. job'[j] = [job[j] EXCEPT !.wait = Earlier(job[j].wait),
                                   !.lease = Earlier(job[j].lease)]
      BY <1>4 DEF Tick
    <2>2. job[j] \in JobRow /\ job[j].wait \in Nat /\ job[j].lease \in Nat
      <3>1. job[j] \in JobRow
        BY <1>0 DEF TypeOK
      <3>2. \A n \in 0..LeaseDuration : n \in Nat
        BY JobsAssumption
      <3>3. QED
        BY <3>1, <3>2 DEF JobRow
    <2>3. job[j].wait = 0 /\ job[j].lease = 0
      BY <2>2 DEF Timers, Settled
    <2>4. Earlier(job[j].wait) = job[j].wait /\ Earlier(job[j].lease) = job[j].lease
      BY <2>3 DEF Earlier
    <2>5. QED
      BY <2>1, <2>2, <2>4 DEF JobRow
  <1>5. CASE UNCHANGED job
    BY <1>5
  <1>6. QED
    BY <1>1, <1>2, <1>3, <1>4, <1>5
    DEF Next, Work, Finish, HandlerReturns, NotWritten, StatementFails, Start, Stop, Exit,
        Crash

\* What is recorded as succeeded or failed stays as it is (CompleteJob, FailJob), whatever
\* a process that lost its lease still tries to write.
THEOREM SettledOnceHolds == Spec => SettledOnce
  <1>1. Spec => [](JobsInv /\ Timers)
    BY InitInv, NextInv, InitTimers, NextTimers, PTL DEF Spec
  <1>2. JobsInv /\ Timers /\ [Next]_vars =>
          [\A j \in JobId : Settled(j) => job'[j] = job[j]]_vars
    BY SettledStays
  <1>3. QED
    BY <1>1, <1>2, PTL DEF Spec, SettledOnce

-----------------------------------------------------------------------------
(* Attempts.  A job that may be claimed has been claimed fewer times than    *)
(* max_attempts and the processes that ended; a job in hand owes nothing to  *)
(* its own process, so that process may give it back when it is stopped.     *)

Spent(j) ==
  /\ job[j].status = "absent" => job[j].attempts = 0
  /\ job[j].status \in {"pending", "retry"} =>
       job[j].attempts < MaxAttempts + Cardinality(Ended)
  /\ job[j].status = "running" =>
       job[j].attempts <= MaxAttempts + Cardinality(Ended \ {job[j].owner})
  /\ Settled(j) => job[j].attempts <= MaxAttempts + Cardinality(Ended)
  /\ job[j].status = "failed" /\ j \in Handled => job[j].attempts >= MaxAttempts

\* Only the job of a kind without a handler ends as unhandled.
Unhandled ==
  \A p \in Process : process[p].outcome = "unhandled" => process[p].job \notin Handled

Attempts == Unhandled /\ \A j \in JobId : Spent(j)

\* Sets of processes are finite, so their sizes compare as one expects.
LEMMA EndedSize ==
  /\ Cardinality(Ended) \in Nat
  /\ \A p : /\ Cardinality(Ended \ {p}) \in Nat
            /\ Cardinality(Ended \ {p}) <= Cardinality(Ended)
            /\ p \in Ended => Cardinality(Ended \ {p}) = Cardinality(Ended) - 1
  <1>1. IsFiniteSet(Ended)
    BY JobsAssumption, FS_Subset DEF Ended
  <1>2. QED
    BY <1>1, FS_CardinalityType, FS_RemoveElement, FS_Subset

\* Processes only ever join the ones that ended.
LEMMA EndedGrows ==
  ASSUME Ended \subseteq Ended'
  PROVE  /\ Cardinality(Ended') \in Nat /\ Cardinality(Ended) <= Cardinality(Ended')
         /\ \A p : /\ Cardinality(Ended' \ {p}) \in Nat
                   /\ Cardinality(Ended \ {p}) <= Cardinality(Ended' \ {p})
  <1>1. IsFiniteSet(Ended')
    BY JobsAssumption, FS_Subset DEF Ended
  <1>2. ASSUME NEW p
        PROVE  /\ Cardinality(Ended' \ {p}) \in Nat
               /\ Cardinality(Ended \ {p}) <= Cardinality(Ended' \ {p})
    <2>1. IsFiniteSet(Ended' \ {p}) /\ Ended \ {p} \subseteq Ended' \ {p}
      BY <1>1, FS_Subset
    <2>2. QED
      BY <2>1, FS_CardinalityType, FS_Subset
  <1>3. Cardinality(Ended') \in Nat /\ Cardinality(Ended) <= Cardinality(Ended')
    BY <1>1, FS_CardinalityType, FS_Subset
  <1>4. QED
    BY <1>2, <1>3

LEMMA InitAttempts == Init => Attempts
  BY DEF Init, NoJob, Idle, Attempts, Unhandled, Spent, Settled

\* A row that keeps its status, owner and attempts keeps its count.
LEMMA SpentStays ==
  ASSUME TypeOK, NEW j \in JobId, Spent(j), Ended \subseteq Ended',
         job'[j].status = job[j].status, job'[j].owner = job[j].owner,
         job'[j].attempts = job[j].attempts
  PROVE  Spent(j)'
  <1>1. job[j].attempts \in Nat
    BY DEF TypeOK, JobRow
  <1> DEFINE o == job[j].owner
  <1>2. /\ Cardinality(Ended) \in Nat /\ Cardinality(Ended') \in Nat
        /\ Cardinality(Ended) <= Cardinality(Ended')
        /\ Cardinality(Ended \ {o}) \in Nat /\ Cardinality(Ended' \ {o}) \in Nat
        /\ Cardinality(Ended \ {o}) <= Cardinality(Ended' \ {o})
    BY EndedSize, EndedGrows
  <1>3. (Ended \ {job[j].owner})' = Ended' \ {o}
    OBVIOUS
  <1> HIDE DEF o
  <1>4. QED
    BY <1>1, <1>2, <1>3, JobsAssumption DEF Spent, Settled, o

\* A claim costs an attempt; the process that claims has not ended.
LEMMA ClaimSpent ==
  ASSUME JobsInv, NEW p \in Process, NEW j \in JobId, Spent(j), ClaimJob(p, j)
  PROVE  Spent(j)'
  <1>1. /\ job[j].status \in {"pending", "retry"} /\ process[p].mode = "up"
        /\ job' = [job EXCEPT ![j] = [job[j] EXCEPT !.status = "running", !.owner = p,
                     !.lease = LeaseDuration, !.attempts = job[j].attempts + 1]]
    BY DEF ClaimJob, Claimable
  <1>2. /\ job'[j].status = "running" /\ job'[j].owner = p
        /\ job'[j].attempts = job[j].attempts + 1 /\ job[j].attempts \in Nat
    BY <1>1 DEF JobsInv, TypeOK, JobRow
  <1>3. \A q \in Process : process'[q].mode = process[q].mode
    BY DEF ClaimJob, JobsInv, TypeOK, ProcessState
  <1>4. Ended' = Ended /\ Ended \ {p} = Ended
    BY <1>1, <1>3 DEF Ended
  <1>5. Cardinality(Ended \ {job[j].owner})' = Cardinality(Ended)
    BY <1>2, <1>4
  <1>6. job[j].attempts < MaxAttempts + Cardinality(Ended) /\ Cardinality(Ended) \in Nat
    BY <1>1, EndedSize DEF Spent
  <1>7. QED
    BY <1>2, <1>5, <1>6, JobsAssumption DEF Spent, Settled

\* Each of the statements that write an outcome counts as the row says: RetryJob is
\* reached below max_attempts only, and ReleaseLease by a process that was stopped.
LEMMA WrittenSpent ==
  ASSUME JobsInv, Attempts, NEW p \in Process, NEW j \in JobId, j = process[p].job,
         CompleteJob(p) \/ FailJob(p) \/ RetryJob(p) \/ ReleaseLease(p)
  PROVE  Spent(j)'
  <1>1. j # NoId
    BY JobsAssumption
  <1>2. /\ job[j].status = "running" /\ job[j].owner = p
        /\ job[j].attempts = process[p].attempts /\ job[j].attempts \in Nat
        /\ job[j].attempts <= MaxAttempts + Cardinality(Ended \ {p})
    BY <1>1 DEF JobsInv, OneRunner, Hands, TypeOK, JobRow, Attempts, Spent
  <1>3. ASSUME NEW status, NEW wait, Released(j, status, wait)
        PROVE  job'[j].status = status /\ job'[j].attempts = job[j].attempts
    BY <1>1, <1>3 DEF Released, JobsInv, TypeOK, JobRow
  <1>4. Ended' = Ended
    <2>1. \A q \in Process : process'[q].mode = process[q].mode
      BY DEF CompleteJob, FailJob, RetryJob, ReleaseLease, RunOneReturns, Idle, JobsInv,
             TypeOK, ProcessState
    <2>2. QED
      BY <2>1 DEF Ended
  <1> DEFINE n == Cardinality(Ended)
  <1>5. /\ n \in Nat /\ Cardinality(Ended \ {p}) \in Nat
        /\ Cardinality(Ended \ {p}) <= n
        /\ p \in Ended => Cardinality(Ended \ {p}) = n - 1
    BY EndedSize
  <1> HIDE DEF n
  <1>6. SUFFICES
          /\ job'[j].status # "absent" /\ job'[j].status # "running"
          /\ job'[j].status \in {"pending", "retry"} => job'[j].attempts < MaxAttempts + n
          /\ job'[j].attempts <= MaxAttempts + n
          /\ job'[j].status = "failed" /\ j \in Handled => job'[j].attempts >= MaxAttempts
    BY <1>4 DEF Spent, Settled, n
  <1>7. CASE CompleteJob(p)
    <2>1. job'[j].status = "succeeded" /\ job'[j].attempts = job[j].attempts
      BY <1>3, <1>7 DEF CompleteJob
    <2>2. QED
      BY <1>2, <1>5, <2>1, JobsAssumption
  <1>8. CASE FailJob(p)
    <2>1. job'[j].status = "failed" /\ job'[j].attempts = job[j].attempts
      BY <1>3, <1>8 DEF FailJob
    <2>2. j \in Handled => job[j].attempts >= MaxAttempts
      BY <1>2, <1>8 DEF FailJob, LastAttempt, Attempts, Unhandled
    <2>3. QED
      BY <1>2, <1>5, <2>1, <2>2, JobsAssumption
  <1>9. CASE RetryJob(p)
    <2>1. job'[j].status = "retry" /\ job'[j].attempts = job[j].attempts
      BY <1>3, <1>9 DEF RetryJob
    <2>2. job[j].attempts < MaxAttempts
      BY <1>2, <1>9, JobsAssumption DEF RetryJob, LastAttempt
    <2>3. QED
      BY <1>2, <1>5, <2>1, <2>2, JobsAssumption
  <1>10. CASE ReleaseLease(p)
    <2>1. job'[j].status = "retry" /\ job'[j].attempts = job[j].attempts
      BY <1>3, <1>10 DEF ReleaseLease
    <2>2. p \in Ended
      BY <1>10 DEF ReleaseLease, Ended
    <2>3. QED
      BY <1>2, <1>5, <2>1, <2>2, JobsAssumption
  <1>11. QED
    BY <1>7, <1>8, <1>9, <1>10

\* A process that has ended stays so.
LEMMA EndedStays == JobsInv /\ [Next]_vars => Ended \subseteq Ended'
  <1> SUFFICES ASSUME JobsInv, [Next]_vars, NEW p \in Process,
                      process[p].mode \in {"stopping", "gone"}
               PROVE  process'[p].mode \in {"stopping", "gone"}
    BY DEF Ended
  <1> USE DEF JobsInv, TypeOK, ProcessState
  <1>1. ASSUME NEW q \in Process, RunOneReturns(q) PROVE process'[p].mode = process[p].mode
    BY <1>1 DEF RunOneReturns, Idle
  <1>2. ASSUME NEW q \in Process, NEW j \in JobId, ClaimJob(q, j)
        PROVE  process'[p].mode = process[p].mode
    BY <1>2 DEF ClaimJob
  <1>3. ASSUME NEW q \in Process, NEW outcome, HandlerReturns(q, outcome)
        PROVE  process'[p].mode = process[p].mode
    BY <1>3 DEF HandlerReturns
  <1>4. ASSUME NEW q \in Process, Start(q) \/ Stop(q) \/ Exit(q) \/ Crash(q)
        PROVE  process'[p].mode \in {"stopping", "gone"}
    BY <1>4 DEF Start, Stop, Exit, Crash, Idle
  <1>5. CASE UNCHANGED process
    BY <1>5
  <1>6. QED
    BY <1>1, <1>2, <1>3, <1>4, <1>5
    DEF Next, Work, Finish, CompleteJob, FailJob, RetryJob, ReleaseLease, NotWritten,
        StatementFails, Enqueue, Tick, vars

LEMMA NextUnhandled == JobsInv /\ Unhandled /\ [Next]_vars => Unhandled'
  <1> SUFFICES ASSUME JobsInv, Unhandled, [Next]_vars, NEW p \in Process,
                      process'[p].outcome = "unhandled"
               PROVE  process'[p].job \notin Handled
    BY DEF Unhandled
  <1> USE DEF JobsInv, TypeOK, ProcessState, Unhandled
  <1>1. ASSUME NEW q \in Process, RunOneReturns(q) PROVE process'[p].job \notin Handled
    BY <1>1 DEF RunOneReturns, Idle
  <1>2. ASSUME NEW q \in Process, NEW j \in JobId, ClaimJob(q, j)
        PROVE  process'[p].job \notin Handled
    <2>1. CASE p = q
      <3>1. /\ process'[p].job = j
            /\ process'[p].outcome = IF j \in Handled THEN "none" ELSE "unhandled"
        BY <1>2, <2>1 DEF ClaimJob
      <3>2. QED
        BY <3>1
    <2>2. CASE p # q
      BY <1>2, <2>2 DEF ClaimJob
    <2>3. QED
      BY <2>1, <2>2
  <1>3. ASSUME NEW q \in Process, NEW outcome \in {"ok", "error", "cancelled"},
               HandlerReturns(q, outcome)
        PROVE  process'[p].job \notin Handled
    <2>1. CASE p = q
      BY <1>3, <2>1 DEF HandlerReturns
    <2>2. CASE p # q
      BY <1>3, <2>2 DEF HandlerReturns
    <2>3. QED
      BY <2>1, <2>2
  <1>4. ASSUME NEW q \in Process, Start(q) \/ Stop(q) \/ Exit(q) \/ Crash(q)
        PROVE  process'[p].job \notin Handled
    <2>1. CASE p = q
      BY <1>4, <2>1 DEF Start, Stop, Exit, Crash, Idle
    <2>2. CASE p # q
      BY <1>4, <2>2 DEF Start, Stop, Exit, Crash
    <2>3. QED
      BY <2>1, <2>2
  <1>5. CASE UNCHANGED process
    BY <1>5
  <1>6. QED
    BY <1>1, <1>2, <1>3, <1>4, <1>5
    DEF Next, Work, Finish, CompleteJob, FailJob, RetryJob, ReleaseLease, NotWritten,
        StatementFails, Enqueue, Tick, vars

\* Every step keeps the count of every job.
LEMMA NextAttempts == JobsInv /\ Attempts /\ [Next]_vars => Attempts'
  <1> SUFFICES ASSUME JobsInv, Attempts, [Next]_vars, NEW j \in JobId
               PROVE  Spent(j)'
    BY NextUnhandled DEF Attempts
  <1>0. TypeOK /\ Spent(j) /\ Ended \subseteq Ended'
    BY EndedStays DEF JobsInv, Attempts
  <1>1. ASSUME job'[j] = job[j] PROVE Spent(j)'
    BY <1>0, <1>1, SpentStays
  <1>2. ASSUME NEW i \in JobId, Enqueue(i) PROVE Spent(j)'
    <2>1. CASE i # j
      <3>1. job'[j] = job[j]
        BY <1>0, <1>2, <2>1 DEF Enqueue, TypeOK
      <3>2. QED
        BY <1>1, <3>1
    <2>2. CASE i = j
      <3>1. job'[j].status = "pending" /\ job'[j].attempts = 0
        BY <1>0, <1>2, <2>2 DEF Enqueue, TypeOK, JobRow, Spent
      <3>2. Cardinality(Ended') \in Nat
        BY <1>0, EndedGrows
      <3>3. QED
        BY <3>1, <3>2, JobsAssumption DEF Spent, Settled
    <2>3. QED
      BY <2>1, <2>2
  <1>3. ASSUME NEW p \in Process, NEW i \in JobId, ClaimJob(p, i) PROVE Spent(j)'
    <2>1. CASE i # j
      <3>1. job'[j] = job[j]
        BY <1>0, <1>3, <2>1 DEF ClaimJob, TypeOK
      <3>2. QED
        BY <1>1, <3>1
    <2>2. CASE i = j
      BY <1>0, <1>3, <2>2, ClaimSpent
    <2>3. QED
      BY <2>1, <2>2
  <1>4. ASSUME NEW p \in Process,
               CompleteJob(p) \/ FailJob(p) \/ RetryJob(p) \/ ReleaseLease(p)
        PROVE  Spent(j)'
    <2>1. CASE process[p].job # j
      <3>1. PICK status, wait : Released(process[p].job, status, wait)
        BY <1>4, WrittenInv
      <3>2. job'[j] = job[j]
        BY <1>0, <2>1, <3>1 DEF Released, TypeOK
      <3>3. QED
        BY <1>1, <3>2
    <2>2. CASE process[p].job = j
      BY <1>4, <2>2, WrittenSpent
    <2>3. QED
      BY <2>1, <2>2
  <1>5. CASE Tick
    <2>1. job'[j] = [job[j] EXCEPT !.wait = Earlier(job[j].wait),
                                   !.lease = Earlier(job[j].lease)]
      BY <1>5 DEF Tick
    <2>2. job[j] \in JobRow
      BY <1>0 DEF TypeOK
    <2>3. /\ job'[j].status = job[j].status /\ job'[j].owner = job[j].owner
          /\ job'[j].attempts = job[j].attempts
      BY <2>1, <2>2 DEF JobRow
    <2>4. QED
      BY <1>0, <2>3, SpentStays
  <1>6. QED
    BY <1>1, <1>2, <1>3, <1>4, <1>5
    DEF Next, Work, Finish, HandlerReturns, NotWritten, StatementFails, Start, Stop, Exit,
        Crash, vars

\* A handled job fails only after max_attempts claims (runOne), and is claimed more often
\* only for processes that were stopped (ReleaseLease), once for each.
THEOREM AttemptsCountedHolds == Spec => []AttemptsCounted
  <1>1. Spec => [](JobsInv /\ Attempts)
    BY InitInv, NextInv, InitAttempts, NextAttempts, PTL DEF Spec
  <1>2. JobsInv /\ Attempts => AttemptsCounted
    <2>1. SUFFICES ASSUME JobsInv, Attempts, NEW j \in JobId
                   PROVE  /\ job[j].attempts <= MaxAttempts + Cardinality(Ended)
                          /\ job[j].status = "failed" /\ j \in Handled =>
                               job[j].attempts >= MaxAttempts
      BY DEF AttemptsCounted
    <2>2. Spent(j) /\ job[j].attempts \in Nat
          /\ job[j].status \in JobStatus \cup {"absent"}
      BY <2>1 DEF JobsInv, TypeOK, JobRow, Attempts
    <2>3. /\ Cardinality(Ended) \in Nat /\ Cardinality(Ended \ {job[j].owner}) \in Nat
          /\ Cardinality(Ended \ {job[j].owner}) <= Cardinality(Ended)
      BY EndedSize
    <2>4. QED
      <3> DEFINE n == Cardinality(Ended)
                 m == Cardinality(Ended \ {job[j].owner})
      <3>1. /\ n \in Nat /\ m \in Nat /\ m <= n
            /\ job[j].status = "running" => job[j].attempts <= MaxAttempts + m
            /\ job[j].status \in {"pending", "retry"} => job[j].attempts < MaxAttempts + n
            /\ job[j].status \in {"succeeded", "failed"} =>
                 job[j].attempts <= MaxAttempts + n
            /\ job[j].status = "absent" => job[j].attempts = 0
        BY <2>2, <2>3 DEF Spent, Settled
      <3> HIDE DEF n, m
      <3>2. job[j].attempts <= MaxAttempts + n
        BY <2>2, <3>1, JobsAssumption DEF JobStatus
      <3>3. QED
        BY <2>2, <3>2 DEF Spent, n
  <1>3. QED
    BY <1>1, <1>2, PTL

-----------------------------------------------------------------------------
(* The jobs implement Work.                                                *)

\* What Work calls the outcome of a run.
Result(outcome) == CASE outcome = "none" -> "going" [] outcome = "ok" -> "ok" [] OTHER -> "error"

\* The run of a job is that of whichever process has it in hand.
RunsKnown ==
  \A j \in JobId :
    /\ (\A p \in Process : process[p].job # j) => WorkRun(j) = "none"
    /\ \A p \in Process : process[p].job = j => WorkRun(j) = Result(process[p].outcome)

\* No two processes have one job, so the choice of runner in WorkRun is none.
LEMMA RunsAreKnown == JobsInv => RunsKnown
  <1> SUFFICES ASSUME JobsInv, NEW j \in JobId
               PROVE  /\ (\A p \in Process : process[p].job # j) => WorkRun(j) = "none"
                      /\ \A p \in Process :
                           process[p].job = j => WorkRun(j) = Result(process[p].outcome)
    BY DEF RunsKnown
  <1> DEFINE runners == {p \in Process : process[p].job = j}
  <1>1. ASSUME \A p \in Process : process[p].job # j PROVE WorkRun(j) = "none"
    <2>1. runners = {}
      BY <1>1
    <2>2. QED
      BY <2>1 DEF WorkRun
  <1>2. ASSUME NEW p \in Process, process[p].job = j
        PROVE  WorkRun(j) = Result(process[p].outcome)
    <2>1. \A q \in Process : process[q].job = j => q = p
      BY <1>2, JobsAssumption DEF JobsInv, OneRunner
    <2>2. runners = {p}
      BY <1>2, <2>1
    <2>3. QED
      BY <2>2 DEF WorkRun, Result
  <1>3. QED
    BY <1>1, <1>2

\* A step of one process leaves the runs of the jobs alone that it has neither before nor
\* after it.
LEMMA OtherRuns ==
  ASSUME RunsKnown, RunsKnown', NEW p \in Process,
         \A q \in Process \ {p} : process'[q] = process[q],
         NEW i \in JobId, process[p].job # i, process'[p].job # i
  PROVE  WorkRun(i)' = WorkRun(i)
  <1>1. CASE \E q \in Process \ {p} : process[q].job = i
    <2>1. PICK q \in Process \ {p} : process[q].job = i
      BY <1>1
    <2>2. WorkRun(i) = Result(process[q].outcome) /\ WorkRun(i)' = Result(process'[q].outcome)
      BY <2>1 DEF RunsKnown, Result
    <2>3. QED
      BY <2>2
  <1>2. CASE \A q \in Process \ {p} : process[q].job # i
    <2>1. /\ \A q \in Process : process[q].job # i
          /\ \A q \in Process : process'[q].job # i
      BY <1>2
    <2>2. QED
      BY <2>1 DEF RunsKnown
  <1>3. QED
    BY <1>1, <1>2

\* A step that moves one job of Work.
LEMMA OneJobMoves ==
  ASSUME NEW j \in JobId,
         \A i \in JobId \ {j} : WorkState(i)' = WorkState(i) /\ WorkRun(i)' = WorkRun(i),
         \/ /\ WorkState(j) = "absent" /\ WorkState(j)' = "open"
            /\ WorkRun(j)' = WorkRun(j)
         \/ /\ WorkState(j) = "open" /\ WorkState(j)' = WorkState(j)
            /\ WorkRun(j) = "none" /\ WorkRun(j)' \in {"going", "error"}
         \/ /\ WorkState(j)' = WorkState(j)
            /\ WorkRun(j) = "going" /\ WorkRun(j)' \in {"ok", "error"}
         \/ /\ WorkState(j)' = "succeeded" /\ WorkRun(j) = "ok" /\ WorkRun(j)' = "none"
         \/ /\ WorkState(j)' = "failed" /\ WorkRun(j) = "error" /\ WorkRun(j)' = "none"
         \/ /\ WorkState(j)' = WorkState(j) /\ WorkRun(j) # "none" /\ WorkRun(j)' = "none"
  PROVE  W!WorkNext
  <1> DEFINE state == [i \in JobId |-> WorkState(i)]
             run == [i \in JobId |-> WorkRun(i)]
  <1>1. /\ state' = [state EXCEPT ![j] = WorkState(j)']
        /\ run' = [run EXCEPT ![j] = WorkRun(j)']
    OBVIOUS
  <1>2. state[j] = WorkState(j) /\ run[j] = WorkRun(j)
    OBVIOUS
  <1>3. /\ WorkState(j)' = WorkState(j) => state' = state
        /\ WorkRun(j)' = WorkRun(j) => run' = run
    OBVIOUS
  <1> HIDE DEF state, run
  <1>4. \/ W!Post(j) \/ W!Begin(j) \/ (\E result \in {"ok", "error"} : W!Return(j, result))
        \/ W!Succeed(j) \/ W!GiveUp(j) \/ W!Drop(j)
    BY <1>1, <1>2, <1>3
    DEF state, run, W!Post, W!Begin, W!Return, W!Succeed, W!GiveUp, W!Drop, W!Settle
  <1>5. QED
    BY <1>4 DEF W!WorkNext

\* A step of one process that ends its run, whatever is written: the run was the job's, and
\* nobody has the job after it.
LEMMA RunOver ==
  ASSUME JobsInv, JobsInv', RunsKnown, RunsKnown', NEW p \in Process, NEW j \in JobId,
         process[p].job = j,
         \E mode : process' = [process EXCEPT ![p] = Idle(mode)],
         \A i \in JobId \ {j} : job'[i] = job[i]
  PROVE  /\ WorkState(j) = "open"
         /\ WorkRun(j) = Result(process[p].outcome)
         /\ WorkRun(j)' = "none"
         /\ \A i \in JobId \ {j} : WorkState(i)' = WorkState(i) /\ WorkRun(i)' = WorkRun(i)
  <1>1. job[j].status = "running"
    BY JobsAssumption DEF JobsInv, OneRunner
  <1>2. /\ \A q \in Process \ {p} : process'[q] = process[q]
        /\ process'[p].job = NoId
    BY DEF Idle, JobsInv, TypeOK
  <1>3. \A q \in Process : process[q].job = j => q = p
    BY <1>1, JobsAssumption DEF JobsInv, OneRunner
  <1>4. NoId # j
    BY JobsAssumption
  <1>5. \A q \in Process : process'[q].job # j
    BY <1>2, <1>3, <1>4
  <1>6. WorkRun(j)' = "none"
    BY <1>5 DEF RunsKnown
  <1>7. QED
    <2>1. \A i \in JobId \ {j} : WorkState(i)' = WorkState(i)
      BY DEF WorkState
    <2>2. \A i \in JobId \ {j} : WorkRun(i)' = WorkRun(i)
      <3>1. SUFFICES ASSUME NEW i \in JobId \ {j} PROVE WorkRun(i)' = WorkRun(i)
        OBVIOUS
      <3>2. process[p].job # i /\ process'[p].job # i
        BY <1>2, JobsAssumption
      <3>3. QED
        BY <1>2, <3>2, OtherRuns
    <2>3. WorkState(j) = "open" /\ WorkRun(j) = Result(process[p].outcome)
      BY <1>1 DEF WorkState, RunsKnown
    <2>4. QED
      BY <1>6, <2>1, <2>2, <2>3

\* Nobody's run changes when the processes keep their jobs and the outcomes of their runs.
LEMMA SameRuns ==
  ASSUME RunsKnown, RunsKnown',
         \A p \in Process : process'[p].job = process[p].job,
         \A p \in Process : process[p].job # NoId => process'[p].outcome = process[p].outcome
  PROVE  \A i \in JobId : WorkRun(i)' = WorkRun(i)
  <1> SUFFICES ASSUME NEW i \in JobId PROVE WorkRun(i)' = WorkRun(i)
    OBVIOUS
  <1>1. CASE \A q \in Process : process[q].job # i
    <2>1. \A q \in Process : process'[q].job # i
      BY <1>1
    <2>2. QED
      BY <1>1, <2>1 DEF RunsKnown
  <1>2. CASE \E q \in Process : process[q].job = i
    <2>1. PICK q \in Process : process[q].job = i
      BY <1>2
    <2>2. process'[q].job = i /\ process'[q].outcome = process[q].outcome
      BY <2>1, JobsAssumption
    <2>3. WorkRun(i) = Result(process[q].outcome) /\ WorkRun(i)' = Result(process'[q].outcome)
      BY <2>1, <2>2 DEF RunsKnown, Result
    <2>4. QED
      BY <2>2, <2>3
  <1>3. QED
    BY <1>1, <1>2

\* Every step of the jobs is a step of Work or changes nothing there.
LEMMA WorkStep ==
  ASSUME JobsInv, JobsInv', RunsKnown, RunsKnown', Next
  PROVE  W!WorkNext \/ \A i \in JobId : WorkState(i)' = WorkState(i) /\ WorkRun(i)' = WorkRun(i)
  <1> DEFINE Same == \A i \in JobId : WorkState(i)' = WorkState(i) /\ WorkRun(i)' = WorkRun(i)
  <1>0. TypeOK
    BY DEF JobsInv
  <1>1. ASSUME NEW j \in JobId, Enqueue(j) PROVE W!WorkNext
    <2>1. job' = [job EXCEPT ![j].status = "pending"] /\ job[j].status = "absent"
          /\ process' = process
      BY <1>1 DEF Enqueue
    <2>2. \A i \in JobId : WorkRun(i)' = WorkRun(i)
      BY <2>1, SameRuns
    <2>3. job'[j].status = "pending" /\ \A i \in JobId \ {j} : job'[i] = job[i]
      BY <1>0, <2>1 DEF TypeOK, JobRow
    <2>4. WorkState(j) = "absent" /\ WorkState(j)' = "open"
          /\ \A i \in JobId \ {j} : WorkState(i)' = WorkState(i)
      BY <2>1, <2>3 DEF WorkState
    <2>5. QED
      BY <2>2, <2>4, OneJobMoves
  <1>2. ASSUME NEW p \in Process, NEW j \in JobId, ClaimJob(p, j) PROVE W!WorkNext
    <2>1. /\ job' = [job EXCEPT ![j] = [job[j] EXCEPT !.status = "running", !.owner = p,
                       !.lease = LeaseDuration, !.attempts = job[j].attempts + 1]]
          /\ process' = [process EXCEPT ![p] =
               [process[p] EXCEPT !.job = j, !.attempts = job[j].attempts + 1,
                  !.outcome = IF j \in Handled THEN "none" ELSE "unhandled"]]
          /\ process[p].job = NoId /\ job[j].status \in {"pending", "retry"}
      BY <1>2 DEF ClaimJob, Claimable
    <2>2. /\ job'[j].status = "running" /\ \A i \in JobId \ {j} : job'[i] = job[i]
          /\ process'[p].job = j /\ process'[p].outcome \in {"none", "unhandled"}
          /\ \A q \in Process \ {p} : process'[q] = process[q]
      BY <1>0, <2>1 DEF TypeOK, JobRow, ProcessState
    <2>3. WorkState(j) = "open" /\ WorkState(j)' = "open"
          /\ \A i \in JobId \ {j} : WorkState(i)' = WorkState(i)
      BY <2>1, <2>2 DEF WorkState
    <2>4. WorkRun(j) = "none"
      <3>1. \A q \in Process : process[q].job # j
        BY <2>1, JobsAssumption DEF JobsInv, OneRunner
      <3>2. QED
        BY <3>1 DEF RunsKnown
    <2>5. WorkRun(j)' \in {"going", "error"}
      <3>1. WorkRun(j)' = Result(process'[p].outcome)
        BY <2>2 DEF RunsKnown, Result
      <3>2. QED
        BY <2>2, <3>1 DEF Result
    <2>6. \A i \in JobId \ {j} : WorkRun(i)' = WorkRun(i)
      <3>1. SUFFICES ASSUME NEW i \in JobId \ {j} PROVE WorkRun(i)' = WorkRun(i)
        OBVIOUS
      <3>2. process[p].job # i /\ process'[p].job # i
        BY <2>1, <2>2, JobsAssumption
      <3>3. QED
        BY <2>2, <3>2, OtherRuns
    <2>7. QED
      BY <2>3, <2>4, <2>5, <2>6, OneJobMoves
  <1>3. ASSUME NEW p \in Process, NEW outcome \in {"ok", "error", "cancelled"},
               HandlerReturns(p, outcome)
        PROVE  W!WorkNext
    <2>1. /\ process' = [process EXCEPT ![p].outcome = outcome] /\ job' = job
          /\ process[p].job # NoId /\ process[p].outcome = "none"
      BY <1>3 DEF HandlerReturns
    <2>2. PICK j \in JobId : j = process[p].job
      BY <1>0, <2>1 DEF TypeOK, ProcessState
    <2>3. /\ process'[p].job = j /\ process'[p].outcome = outcome
          /\ \A q \in Process \ {p} : process'[q] = process[q]
      BY <1>0, <2>1, <2>2 DEF TypeOK, ProcessState
    <2>4. \A i \in JobId : WorkState(i)' = WorkState(i)
      BY <2>1 DEF WorkState
    <2>5. WorkRun(j) = "going"
      <3>1. WorkRun(j) = Result(process[p].outcome)
        BY <2>2 DEF RunsKnown
      <3>2. QED
        BY <2>1, <3>1 DEF Result
    <2>6. WorkRun(j)' \in {"ok", "error"}
      <3>1. WorkRun(j)' = Result(process'[p].outcome)
        BY <2>3 DEF RunsKnown, Result
      <3>2. QED
        BY <2>3, <3>1 DEF Result
    <2>7. \A i \in JobId \ {j} : WorkRun(i)' = WorkRun(i)
      BY <2>2, <2>3, OtherRuns
    <2>8. QED
      BY <2>4, <2>5, <2>6, <2>7, OneJobMoves
  <1>4. ASSUME NEW p \in Process,
               CompleteJob(p) \/ FailJob(p) \/ RetryJob(p) \/ ReleaseLease(p)
        PROVE  W!WorkNext
    <2>1. PICK j \in JobId : j = process[p].job
      BY <1>4, WrittenInv
    <2>2. PICK status, wait :
            /\ Released(j, status, wait)
            /\ \/ status = "succeeded" /\ process[p].outcome = "ok"
               \/ status = "failed" /\ process[p].outcome \in {"unhandled", "error"}
               \/ status = "retry"
      BY <1>4, <2>1 DEF CompleteJob, FailJob, RetryJob, ReleaseLease
    <2>3. job'[j].status = status /\ \A i \in JobId \ {j} : job'[i] = job[i]
      BY <1>0, <2>2 DEF Released, TypeOK, JobRow
    <2>4. \E mode : process' = [process EXCEPT ![p] = Idle(mode)]
      BY <1>4 DEF CompleteJob, FailJob, RetryJob, ReleaseLease, RunOneReturns
    <2>5. /\ WorkState(j) = "open" /\ WorkRun(j) = Result(process[p].outcome)
          /\ WorkRun(j)' = "none"
          /\ \A i \in JobId \ {j} : WorkState(i)' = WorkState(i) /\ WorkRun(i)' = WorkRun(i)
      BY <2>1, <2>3, <2>4, RunOver
    <2>6. \/ WorkState(j)' = "succeeded" /\ WorkRun(j) = "ok"
          \/ WorkState(j)' = "failed" /\ WorkRun(j) = "error"
          \/ WorkState(j)' = WorkState(j) /\ WorkRun(j) # "none"
      BY <2>2, <2>3, <2>5 DEF WorkState, Result
    <2>7. QED
      BY <2>5, <2>6, OneJobMoves
  <1>5. ASSUME NEW p \in Process, process[p].job # NoId,
               NotWritten(p) \/ StatementFails(p) \/ Crash(p)
        PROVE  W!WorkNext
    <2>1. PICK j \in JobId : j = process[p].job
      BY <1>0, <1>5 DEF TypeOK, ProcessState
    <2>2. job' = job /\ \E mode : process' = [process EXCEPT ![p] = Idle(mode)]
      BY <1>5 DEF NotWritten, StatementFails, Crash, RunOneReturns
    <2>3. /\ WorkRun(j) = Result(process[p].outcome) /\ WorkRun(j)' = "none"
          /\ \A i \in JobId \ {j} : WorkState(i)' = WorkState(i) /\ WorkRun(i)' = WorkRun(i)
      <3>1. \A i \in JobId \ {j} : job'[i] = job[i]
        BY <2>2
      <3>2. QED
        BY <2>1, <2>2, <3>1, RunOver
    <2>4. WorkState(j)' = WorkState(j) /\ WorkRun(j) # "none"
      BY <2>2, <2>3 DEF WorkState, Result
    <2>5. QED
      BY <2>3, <2>4, OneJobMoves
  <1>6. ASSUME NEW p \in Process,
               \/ Start(p) \/ Stop(p) \/ Exit(p)
               \/ process[p].job = NoId /\ Crash(p)
        PROVE  Same
    <2>1. job' = job
      BY <1>6 DEF Start, Stop, Exit, Crash
    <2>2. /\ \A q \in Process \ {p} : process'[q] = process[q]
          /\ process'[p].job = process[p].job
          /\ process[p].job # NoId => process'[p].outcome = process[p].outcome
      BY <1>0, <1>6 DEF TypeOK, ProcessState, Start, Stop, Exit, Crash, Idle
    <2>3. \A i \in JobId : WorkRun(i)' = WorkRun(i)
      <3>1. /\ \A q \in Process : process'[q].job = process[q].job
            /\ \A q \in Process :
                 process[q].job # NoId => process'[q].outcome = process[q].outcome
        BY <2>2
      <3>2. QED
        BY <3>1, SameRuns
    <2>4. QED
      BY <2>1, <2>3 DEF WorkState
  <1>7. ASSUME Tick PROVE Same
    <2>1. process' = process /\ \A i \in JobId : job'[i].status = job[i].status
      BY <1>0, <1>7 DEF Tick, TypeOK, JobRow
    <2>2. \A i \in JobId : WorkRun(i)' = WorkRun(i)
      BY <2>1, SameRuns
    <2>3. QED
      BY <2>1, <2>2 DEF WorkState
  <1>8. ASSUME NEW p \in Process, NotWritten(p) \/ StatementFails(p) PROVE process[p].job # NoId
    BY <1>8 DEF NotWritten, StatementFails, JobsInv, Hands
  <1>9. QED
    BY <1>1, <1>2, <1>3, <1>4, <1>5, <1>6, <1>7, <1>8 DEF Next, Work, Finish

\* The lease, the attempts and the restarts of the jobs keep what Work promises: one run at
\* a time, an outcome only from the run that had it, none after it (ClaimJob, runOne).
THEOREM WorkImplemented == Spec => ImplementsWork
  <1> DEFINE Same == \A i \in JobId : WorkState(i)' = WorkState(i) /\ WorkRun(i)' = WorkRun(i)
  <1>1. Init => W!WorkInit
    <2> SUFFICES ASSUME Init PROVE W!WorkInit
      OBVIOUS
    <2>1. \A j \in JobId : WorkState(j) = "absent"
      BY DEF Init, NoJob, WorkState
    <2>2. \A j \in JobId : WorkRun(j) = "none"
      <3>1. RunsKnown
        BY InitInv, RunsAreKnown
      <3>2. \A p \in Process : process[p].job = NoId
        BY DEF Init, Idle
      <3>3. QED
        BY <3>1, <3>2, JobsAssumption DEF RunsKnown
    <2>3. QED
      BY <2>1, <2>2 DEF W!WorkInit
  <1>2. JobsInv /\ JobsInv' /\ RunsKnown /\ RunsKnown' /\ [Next]_vars => [W!WorkNext]_(W!workVars)
    <2> SUFFICES ASSUME JobsInv, JobsInv', RunsKnown, RunsKnown', [Next]_vars
                 PROVE  [W!WorkNext]_(W!workVars)
      OBVIOUS
    <2>1. W!WorkNext \/ Same
      <3>1. CASE Next
        BY <3>1, WorkStep
      <3>2. CASE UNCHANGED vars
        BY <3>2 DEF vars, WorkState, WorkRun
      <3>3. QED
        BY <3>1, <3>2
    <2>2. Same => UNCHANGED W!workVars
      BY DEF W!workVars
    <2>3. QED
      BY <2>1, <2>2
  <1>3. QED
    BY <1>1, <1>2, JobsInvariant, RunsAreKnown, PTL DEF Spec, ImplementsWork, W!WorkSpec
=============================================================================
