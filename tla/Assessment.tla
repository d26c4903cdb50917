----------------------------- MODULE Assessment -----------------------------
(***************************************************************************)
(* The environment of one display case of HeritageGuard: a device reports  *)
(* a reading, a job is enqueued with it, and the job's handler assesses    *)
(* the readings of the window that ends when it runs, and opens an         *)
(* incident with its outbox event when they are not in order.  The jobs    *)
(* are those of the module Work, which the module Jobs implements: a run   *)
(* may stop anywhere, and another may follow at any time.                  *)
(***************************************************************************)
EXTENDS Work, Naturals

CONSTANTS
  Window,    \* length of a window, fifteen minutes in the program
  MaxTime    \* bound of the clock

ASSUME AssessmentAssumption == Window \in Nat \ {0} /\ MaxTime \in Nat

VARIABLES
  now,        \* the time of day
  reading,    \* environment_readings, by the job each came with
  handler,    \* where the handler of each job is
  incident,   \* the window keys of the case's incidents
  posted      \* how many outbox events were inserted for a window key

caseVars == <<now, reading, incident, posted>>

vars == <<workVars, handler, caseVars>>

-----------------------------------------------------------------------------

Time == 0..MaxTime

\* bad is a temperature or humidity out of the range of the case; assessed is the end of
\* the window whose assessment completed the job (not in the program).
ReadingRow == [observed : Time, bad : BOOLEAN, assessed : Time]

HandlerState == [step : {"none", "clock", "unready", "created", "done"}, end : Time]

NotRunning == [step |-> "none", end |-> 0]

Init ==
  /\ WorkInit
  /\ now = 0
  /\ reading = [j \in JobId |-> [observed |-> 0, bad |-> FALSE, assessed |-> 0]]
  /\ handler = [j \in JobId |-> NotRunning]
  /\ incident = {}
  /\ posted = [w \in Time |-> 0]

\* The window_key of an assessment that ends at this time.
WindowKey(end) == end \div Window

\* A mistake: a reading at the start of the window is left out.
InWindowMutant(j, end) ==
  state[j] # "absent" /\ reading[j].observed <= end /\ reading[j].observed + Window > end

\* Both ends belong to the window.
InWindow(j, end) ==
  state[j] # "absent" /\ reading[j].observed <= end /\ reading[j].observed + Window >= end

\* A mistake: the last reading decides.
ReadyMutant(end) ==
  \E j \in JobId : /\ InWindow(j, end) /\ ~reading[j].bad
                   /\ \A k \in JobId : InWindow(k, end) => reading[k].observed <= reading[j].observed

\* AssessEnvironment: some reading in the window, and none of them out of range.
Ready(end) ==
  LET found == {j \in JobId : InWindow(j, end)} IN
  found # {} /\ \A j \in found : ~reading[j].bad

\* The run of j is at this step, and goes on to the next.
Continue(j, step, next, end) ==
  /\ run[j] = "going" /\ handler[j].step = step
  /\ handler' = [handler EXCEPT ![j] = [step |-> next, end |-> end]]
  /\ UNCHANGED workVars

-----------------------------------------------------------------------------
(* The device, and the handler.                                            *)

\* A new reading and its job, in one transaction.  observed_at is the device's: readings
\* come late, and ahead of the server's clock.  One that came before, by device and
\* sequence, is refused and nothing is enqueued.
RecordReading(j, observed, bad) ==
  /\ Post(j)
  /\ reading' = [reading EXCEPT ![j] = [observed |-> observed, bad |-> bad, assessed |-> 0]]
  /\ UNCHANGED <<handler, now, incident, posted>>

\* assessForTenant: the window ends now.
ReadClock(j) ==
  /\ Continue(j, "none", "clock", now)
  /\ UNCHANGED caseVars

Assess(j) ==
  LET end == handler[j].end IN
  /\ Continue(j, "clock", IF Ready(end) THEN "done" ELSE "unready", end)
  /\ UNCHANGED caseVars

\* A mistake: the event is inserted after the transaction, and lost when that fails.
OpenIncidentMutant(j) ==
  LET w == WindowKey(handler[j].end) IN
  /\ Continue(j, "unready", IF w \in incident THEN "done" ELSE "created", handler[j].end)
  /\ w \notin incident => posted[w] = 0
  /\ incident' = incident \cup {w}
  /\ posted' \in {posted, IF w \in incident THEN posted ELSE [posted EXCEPT ![w] = @ + 1]}
  /\ UNCHANGED <<now, reading>>

\* OpenIncidentAndOutbox: one transaction.  An incident that is there already posts nothing;
\* a new one is refused with its event if the outbox has the window's idempotency key.
OpenIncident(j) ==
  LET w == WindowKey(handler[j].end) IN
  /\ Continue(j, "unready", IF w \in incident THEN "done" ELSE "created", handler[j].end)
  /\ w \notin incident => posted[w] = 0
  /\ incident' = incident \cup {w}
  /\ posted' = IF w \in incident THEN posted ELSE [posted EXCEPT ![w] = @ + 1]
  /\ UNCHANGED <<now, reading>>

\* The event bus takes the event of a new incident.
Published(j) ==
  /\ Continue(j, "created", "done", handler[j].end)
  /\ UNCHANGED caseVars

\* The handler returns nil when it is through, and an error from anywhere.
AssessmentReturns(j, result) ==
  /\ result = "ok" => handler[j].step = "done"
  /\ Return(j, result)
  /\ UNCHANGED <<handler, caseVars>>

-----------------------------------------------------------------------------

Claimed(j) == Begin(j) /\ UNCHANGED <<handler, caseVars>>

\* The job is completed, on the strength of the window its handler assessed.
Completed(j) ==
  /\ Succeed(j)
  /\ reading' = [reading EXCEPT ![j].assessed = handler[j].end]
  /\ handler' = [handler EXCEPT ![j] = NotRunning]
  /\ UNCHANGED <<now, incident, posted>>

\* A mistake: the next run goes on where this one was.
RunEndsMutant(j) ==
  /\ GiveUp(j) \/ Drop(j)
  /\ UNCHANGED <<handler, caseVars>>

\* The run is over in another way, at any point when its process dies.
RunEnds(j) ==
  /\ GiveUp(j) \/ Drop(j)
  /\ handler' = [handler EXCEPT ![j] = NotRunning]
  /\ UNCHANGED caseVars

Minute ==
  /\ now < MaxTime
  /\ now' = now + 1
  /\ UNCHANGED <<workVars, handler, reading, incident, posted>>

Next ==
  \/ \E j \in JobId :
       \/ \E observed \in Time, bad \in BOOLEAN : RecordReading(j, observed, bad)
       \/ Claimed(j) \/ ReadClock(j) \/ Assess(j) \/ OpenIncident(j) \/ Published(j)
       \/ \E result \in {"ok", "error"} : AssessmentReturns(j, result)
       \/ Completed(j) \/ RunEnds(j)
  \/ Minute

Spec == Init /\ [][Next]_vars

-----------------------------------------------------------------------------
(* Properties.                                                             *)

\* The variables are well typed, and only a run that goes on or has returned has a step.
TypeOK ==
  /\ now \in Time
  /\ state \in [JobId -> {"absent", "open", "succeeded", "failed"}]
  /\ run \in [JobId -> {"none", "going", "ok", "error"}]
  /\ reading \in [JobId -> ReadingRow]
  /\ handler \in [JobId -> HandlerState]
  /\ incident \subseteq Time
  /\ posted \in [Time -> Nat]
  /\ \A j \in JobId : run[j] = "none" => handler[j] = NotRunning

\* An incident is posted to the outbox once, with itself, through every retry and crash
\* of the jobs that find it (OpenIncidentAndOutbox under ProcessAssessmentJob).
OneEventPerIncident ==
  \A w \in Time : posted[w] = IF w \in incident THEN 1 ELSE 0

\* A job that succeeded has dealt with its reading, if that was in the window it assessed:
\* when the reading was out of range there is an incident for that window, whatever the
\* other readings were and whoever opened it.
BadReadingReported ==
  \A j \in JobId :
    LET r == reading[j] IN
    state[j] = "succeeded" /\ r.bad
    /\ r.observed <= r.assessed /\ r.assessed <= r.observed + Window
      => WindowKey(r.assessed) \in incident
=============================================================================
