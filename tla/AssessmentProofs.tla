-------------------------- MODULE AssessmentProofs --------------------------
(***************************************************************************)
(* The environment of a display case: an incident is posted once, and no   *)
(* job succeeds without an incident for a bad reading it has looked at.    *)
(***************************************************************************)
EXTENDS Assessment, TLAPS

\* A reading that is out of range and in the window that ends at end is covered by an
\* incident of that window.
Covered(j, end) ==
  reading[j].bad /\ reading[j].observed <= end /\ end <= reading[j].observed + Window
    => WindowKey(end) \in incident

\* What a run has reached: its job is open, it comes back without error only when the
\* handler is through, and by then the reading is covered.
RunInv ==
  \A j \in JobId :
    /\ run[j] # "none" => state[j] = "open"
    /\ run[j] = "ok" => handler[j].step = "done"
    /\ handler[j].step \in {"created", "done"} => Covered(j, handler[j].end)

IInv == TypeOK /\ OneEventPerIncident /\ RunInv /\ BadReadingReported

-----------------------------------------------------------------------------
(* Windows.                                                                *)

\* The key of a window is no later than its end.
LEMMA WindowKeyType ==
  ASSUME NEW end \in Time
  PROVE  WindowKey(end) \in Time
<1>1. Window \in Nat /\ Window > 0 /\ MaxTime \in Nat /\ end \in Nat /\ end <= MaxTime
  BY AssessmentAssumption DEF Time
<1>2. end \div Window \in Nat /\ end \div Window <= end
  BY <1>1
<1>3. end \div Window \in 0..MaxTime
  BY <1>1, <1>2
<1> QED BY <1>3 DEF WindowKey, Time

LEMMA Zero == 0 \in Time /\ Time \subseteq Nat
BY AssessmentAssumption DEF Time

-----------------------------------------------------------------------------
(* Types.                                                                  *)

LEMMA NotRunningType == NotRunning \in HandlerState /\ NotRunning.step = "none"
BY Zero DEF NotRunning, HandlerState

\* The steps a handler goes on to.
LaterSteps == {"clock", "unready", "created", "done"}

\* A step of the handler changes only where the handler of its job is.
LEMMA ContinueTypes ==
  ASSUME TypeOK, NEW j \in JobId, NEW step, NEW next \in LaterSteps, NEW end \in Time, Continue(j, step, next, end)
  PROVE  /\ state' = state /\ run' = run /\ run[j] = "going" /\ handler[j].step = step
         /\ handler' \in [JobId -> HandlerState]
         /\ handler'[j].step = next /\ handler'[j].end = end
         /\ \A k \in JobId \ {j} : handler'[k] = handler[k]
         /\ \A k \in JobId : run'[k] = "none" => handler'[k] = NotRunning
<1>1. handler \in [JobId -> HandlerState]
  BY DEF TypeOK
<1>2. [step |-> next, end |-> end] \in HandlerState
  BY DEF HandlerState, LaterSteps
<1>3. /\ state' = state /\ run' = run /\ run[j] = "going" /\ handler[j].step = step
      /\ handler' = [handler EXCEPT ![j] = [step |-> next, end |-> end]]
  BY DEF Continue, workVars
<1>4. handler' \in [JobId -> HandlerState] /\ handler'[j] = [step |-> next, end |-> end]
      /\ \A k \in JobId \ {j} : handler'[k] = handler[k]
  BY <1>1, <1>2, <1>3
<1>5. \A k \in JobId : run'[k] = "none" => handler'[k] = NotRunning
  BY <1>3, <1>4 DEF TypeOK
<1> QED BY <1>3, <1>4, <1>5

LEMMA EndType ==
  ASSUME TypeOK, NEW j \in JobId
  PROVE  /\ handler[j].end \in Time /\ WindowKey(handler[j].end) \in Time
         /\ now \in Time
<1>1. handler[j].end \in Time
  BY DEF TypeOK, HandlerState
<1> QED BY <1>1, WindowKeyType DEF TypeOK

\* Both functions of a transaction that opens an incident.
LEMMA OpenIncidentTypes ==
  ASSUME TypeOK, NEW j \in JobId, OpenIncident(j), NEW w, w = WindowKey(handler[j].end)
  PROVE  /\ w \in Time
         /\ incident' = incident \cup {w}
         /\ posted' \in [Time -> Nat]
         /\ \A v \in Time \ {w} : posted'[v] = posted[v]
         /\ posted'[w] = IF w \in incident THEN posted[w] ELSE posted[w] + 1
         /\ now' = now /\ reading' = reading
         /\ \E next \in {"created", "done"} : Continue(j, "unready", next, handler[j].end)
<1>1. w \in Time /\ posted \in [Time -> Nat]
  BY EndType DEF TypeOK
<1>2. posted' = IF w \in incident THEN posted ELSE [posted EXCEPT ![w] = posted[w] + 1]
  BY DEF OpenIncident
<1>3. incident' = incident \cup {w} /\ now' = now /\ reading' = reading
  BY DEF OpenIncident
<1>4. Continue(j, "unready", IF w \in incident THEN "done" ELSE "created", handler[j].end)
  BY DEF OpenIncident
<1>5. \E next \in {"created", "done"} : Continue(j, "unready", next, handler[j].end)
  BY <1>4
<1> QED BY <1>1, <1>2, <1>3, <1>5

\* What a run may do between two steps of its handler, or when it is over.
LEMMA WorkTypes ==
  ASSUME TypeOK, NEW j \in JobId,
         \/ Post(j) \/ Begin(j) \/ \E result \in {"ok", "error"} : Return(j, result)
         \/ Succeed(j) \/ GiveUp(j) \/ Drop(j)
  PROVE  /\ state' \in [JobId -> {"absent", "open", "succeeded", "failed"}]
         /\ run' \in [JobId -> {"none", "going", "ok", "error"}]
         /\ \A k \in JobId \ {j} : state'[k] = state[k] /\ run'[k] = run[k]
<1>1. /\ state \in [JobId -> {"absent", "open", "succeeded", "failed"}]
      /\ run \in [JobId -> {"none", "going", "ok", "error"}]
  BY DEF TypeOK
<1>2. CASE Post(j)
  BY <1>1, <1>2 DEF Post
<1>3. CASE Begin(j)
  <2>1. PICK started \in {"going", "error"} : run' = [run EXCEPT ![j] = started]
    BY <1>3 DEF Begin
  <2> QED BY <1>1, <1>3, <2>1 DEF Begin
<1>4. ASSUME NEW result \in {"ok", "error"}, Return(j, result)
      PROVE  /\ state' \in [JobId -> {"absent", "open", "succeeded", "failed"}]
             /\ run' \in [JobId -> {"none", "going", "ok", "error"}]
             /\ \A k \in JobId \ {j} : state'[k] = state[k] /\ run'[k] = run[k]
  BY <1>1, <1>4 DEF Return
<1>5. CASE Succeed(j) \/ GiveUp(j)
  BY <1>1, <1>5 DEF Succeed, GiveUp, Settle
<1>6. CASE Drop(j)
  BY <1>1, <1>6 DEF Drop
<1> QED BY <1>2, <1>3, <1>4, <1>5, <1>6

\* The handler's record is put back when its run is over.
LEMMA ResetTypes ==
  ASSUME TypeOK, NEW j \in JobId, handler' = [handler EXCEPT ![j] = NotRunning],
         \A k \in JobId \ {j} : run'[k] = run[k]
  PROVE  /\ handler' \in [JobId -> HandlerState] /\ handler'[j] = NotRunning
         /\ \A k \in JobId \ {j} : handler'[k] = handler[k]
         /\ \A k \in JobId : run'[k] = "none" => handler'[k] = NotRunning
<1>1. handler \in [JobId -> HandlerState]
  BY DEF TypeOK
<1>2. handler' \in [JobId -> HandlerState] /\ handler'[j] = NotRunning
      /\ \A k \in JobId \ {j} : handler'[k] = handler[k]
  BY <1>1, NotRunningType
<1> QED BY <1>2 DEF TypeOK

LEMMA InitTypes == Init => TypeOK
<1> SUFFICES ASSUME Init PROVE TypeOK
  OBVIOUS
<1>1. [observed |-> 0, bad |-> FALSE, assessed |-> 0] \in ReadingRow
  BY Zero DEF ReadingRow
<1> QED BY <1>1, Zero, NotRunningType DEF Init, WorkInit, TypeOK

LEMMA TypeStep == TypeOK /\ [Next]_vars => TypeOK'
<1> SUFFICES ASSUME TypeOK, [Next]_vars PROVE TypeOK'
  OBVIOUS
<1>0. /\ now \in Time /\ reading \in [JobId -> ReadingRow] /\ incident \subseteq Time
      /\ posted \in [Time -> Nat] /\ handler \in [JobId -> HandlerState]
      /\ \A k \in JobId : run[k] = "none" => handler[k] = NotRunning
  BY DEF TypeOK
<1>1. CASE UNCHANGED vars
  BY <1>1 DEF vars, workVars, caseVars, TypeOK
<1>2. CASE Minute
  <2>1. now' \in Time /\ UNCHANGED <<state, run, handler, reading, incident, posted>>
    BY <1>0, <1>2, AssessmentAssumption DEF Minute, Time, workVars
  <2> QED BY <2>1 DEF TypeOK
<1>3. ASSUME NEW j \in JobId, NEW observed \in Time, NEW bad \in BOOLEAN,
             RecordReading(j, observed, bad)
      PROVE  TypeOK'
  <2>1. Post(j) /\ UNCHANGED <<handler, now, incident, posted>>
        /\ reading' = [reading EXCEPT ![j] = [observed |-> observed, bad |-> bad, assessed |-> 0]]
    BY <1>3 DEF RecordReading
  <2>2. [observed |-> observed, bad |-> bad, assessed |-> 0] \in ReadingRow
    BY Zero DEF ReadingRow
  <2>3. reading' \in [JobId -> ReadingRow]
    BY <1>0, <2>1, <2>2
  <2>4. run' = run
    BY <2>1 DEF Post
  <2> QED BY <1>0, <2>1, <2>3, <2>4, WorkTypes DEF TypeOK
<1>4. ASSUME NEW j \in JobId, Claimed(j) PROVE TypeOK'
  <2>1. Begin(j) /\ UNCHANGED <<handler, now, reading, incident, posted>>
    BY <1>4 DEF Claimed, caseVars
  <2>2. \A k \in JobId : run'[k] = "none" => run[k] = "none"
    BY <2>1, WorkTypes DEF Begin
  <2> QED BY <1>0, <2>1, <2>2, WorkTypes DEF TypeOK
<1>5. ASSUME NEW j \in JobId, ReadClock(j) \/ Assess(j) \/ Published(j) PROVE TypeOK'
  <2>1. UNCHANGED <<now, reading, incident, posted>>
    BY <1>5 DEF ReadClock, Assess, Published, caseVars
  <2>2. \E step \in {"none", "clock", "created"}, next \in {"clock", "unready", "done"},
           end \in Time : Continue(j, step, next, end)
    <3>1. CASE ReadClock(j)
      BY <3>1, EndType DEF ReadClock
    <3>2. CASE Assess(j)
      <4>1. (IF Ready(handler[j].end) THEN "done" ELSE "unready") \in {"unready", "done"}
        OBVIOUS
      <4> QED BY <3>2, <4>1, EndType DEF Assess
    <3>3. CASE Published(j)
      BY <3>3, EndType DEF Published
    <3> QED BY <1>5, <3>1, <3>2, <3>3
  <2>3. PICK step \in {"none", "clock", "created"}, next \in {"clock", "unready", "done"},
             end \in Time : Continue(j, step, next, end)
    BY <2>2
  <2>4. /\ state' = state /\ run' = run /\ handler' \in [JobId -> HandlerState]
        /\ \A k \in JobId : run'[k] = "none" => handler'[k] = NotRunning
    BY <2>3, ContinueTypes DEF LaterSteps
  <2> QED BY <2>1, <2>4 DEF TypeOK
<1>6. ASSUME NEW j \in JobId, OpenIncident(j) PROVE TypeOK'
  <2> DEFINE w == WindowKey(handler[j].end)
  <2>1. /\ w \in Time /\ incident' = incident \cup {w} /\ posted' \in [Time -> Nat]
        /\ now' = now /\ reading' = reading
        /\ \E next \in {"created", "done"} : Continue(j, "unready", next, handler[j].end)
    BY <1>6, OpenIncidentTypes
  <2>2. PICK next \in {"created", "done"} : Continue(j, "unready", next, handler[j].end)
    BY <2>1
  <2>3. handler[j].end \in Time
    BY EndType
  <2>4. /\ state' = state /\ run' = run /\ handler' \in [JobId -> HandlerState]
        /\ \A k \in JobId : run'[k] = "none" => handler'[k] = NotRunning
    BY <2>2, <2>3, ContinueTypes DEF LaterSteps
  <2> HIDE DEF w
  <2> QED BY <2>1, <2>4 DEF TypeOK
<1>7. ASSUME NEW j \in JobId, NEW result \in {"ok", "error"}, AssessmentReturns(j, result)
      PROVE  TypeOK'
  <2>1. Return(j, result) /\ UNCHANGED <<handler, now, reading, incident, posted>>
    BY <1>7 DEF AssessmentReturns, caseVars
  <2>2. \A k \in JobId : run'[k] = "none" => run[k] = "none"
    BY <2>1, WorkTypes DEF Return, TypeOK
  <2> QED BY <1>0, <2>1, <2>2, WorkTypes DEF TypeOK
<1>8. ASSUME NEW j \in JobId, Completed(j) PROVE TypeOK'
  <2>1. /\ Succeed(j) /\ UNCHANGED <<now, incident, posted>>
        /\ reading' = [reading EXCEPT ![j] = [reading[j] EXCEPT !.assessed = handler[j].end]]
        /\ handler' = [handler EXCEPT ![j] = NotRunning]
    BY <1>8 DEF Completed
  <2>2. handler[j].end \in Time /\ reading[j] \in ReadingRow
    BY <1>0, EndType
  <2>3. [reading[j] EXCEPT !.assessed = handler[j].end] \in ReadingRow
    BY <2>2 DEF ReadingRow
  <2>4. reading' \in [JobId -> ReadingRow]
    BY <1>0, <2>1, <2>3
  <2> QED BY <1>0, <2>1, <2>4, WorkTypes, ResetTypes DEF TypeOK
<1>9. ASSUME NEW j \in JobId, RunEnds(j) PROVE TypeOK'
  <2>1. /\ GiveUp(j) \/ Drop(j)
        /\ handler' = [handler EXCEPT ![j] = NotRunning]
        /\ UNCHANGED <<now, reading, incident, posted>>
    BY <1>9 DEF RunEnds, caseVars
  <2> QED BY <1>0, <2>1, WorkTypes, ResetTypes DEF TypeOK
<1> QED
  BY <1>1, <1>2, <1>3, <1>4, <1>5, <1>6, <1>7, <1>8, <1>9 DEF Next

\* The readings, incidents and runs keep their types, and only a run that goes on or has
\* returned has a step.
THEOREM TypeCorrect == Spec => []TypeOK
BY InitTypes, TypeStep, PTL DEF Spec

-----------------------------------------------------------------------------
(* Incidents and their events.                                             *)

\* Incidents are never taken away, and one that is opened posts one event.
LEMMA IncidentChanges ==
  TypeOK /\ [Next]_vars =>
    /\ incident \subseteq incident'
    /\ \/ UNCHANGED <<incident, posted>>
       \/ \E w \in Time :
            /\ incident' = incident \cup {w}
            /\ posted'[w] = IF w \in incident THEN posted[w] ELSE posted[w] + 1
            /\ \A v \in Time \ {w} : posted'[v] = posted[v]
<1> SUFFICES ASSUME TypeOK, [Next]_vars,
                    ~(UNCHANGED <<incident, posted>>)
             PROVE  \E w \in Time :
                      /\ incident' = incident \cup {w}
                      /\ posted'[w] = IF w \in incident THEN posted[w] ELSE posted[w] + 1
                      /\ \A v \in Time \ {w} : posted'[v] = posted[v]
  OBVIOUS
<1>1. PICK j \in JobId : OpenIncident(j)
  BY DEF Next, vars, caseVars, RecordReading, Claimed, ReadClock, Assess, Published,
     AssessmentReturns, Completed, RunEnds, Minute
<1> QED BY <1>1, OpenIncidentTypes

LEMMA OneEventStep == TypeOK /\ OneEventPerIncident /\ [Next]_vars => OneEventPerIncident'
<1> SUFFICES ASSUME TypeOK, OneEventPerIncident, [Next]_vars, NEW v \in Time
             PROVE  posted'[v] = IF v \in incident' THEN 1 ELSE 0
  BY DEF OneEventPerIncident
<1>1. posted[v] = IF v \in incident THEN 1 ELSE 0
  BY DEF OneEventPerIncident
<1>2. CASE UNCHANGED <<incident, posted>>
  BY <1>1, <1>2
<1>3. ASSUME NEW w \in Time, incident' = incident \cup {w},
             posted'[w] = IF w \in incident THEN posted[w] ELSE posted[w] + 1,
             \A u \in Time \ {w} : posted'[u] = posted[u]
      PROVE  posted'[v] = IF v \in incident' THEN 1 ELSE 0
  <2>1. CASE v = w
    BY <1>1, <1>3, <2>1
  <2>2. CASE v # w
    BY <1>1, <1>3, <2>2
  <2> QED BY <2>1, <2>2
<1> QED BY <1>2, <1>3, IncidentChanges

LEMMA InitEvents == Init => OneEventPerIncident
BY DEF Init, OneEventPerIncident

\* Every incident has been posted to the outbox once: however many jobs found it, whether
\* their runs were dropped, died or were repeated, for any number of jobs and any window.
THEOREM OneEventPerIncidentHolds == Spec => []OneEventPerIncident
BY InitTypes, TypeStep, InitEvents, OneEventStep, PTL DEF Spec

-----------------------------------------------------------------------------
(* Bad readings.                                                           *)

\* The readings that a job's assessment looked at include its own.
LEMMA ReadyCovers ==
  ASSUME TypeOK, NEW j \in JobId, state[j] = "open", NEW end \in Time, Ready(end)
  PROVE  Covered(j, end)
<1>1. reading[j].observed \in Nat /\ end \in Nat /\ Window \in Nat
  BY Zero, AssessmentAssumption DEF TypeOK, ReadingRow
<1>2. reading[j].observed <= end /\ end <= reading[j].observed + Window => InWindow(j, end)
  BY <1>1 DEF InWindow
<1> QED BY <1>2 DEF Ready, Covered

\* A step of the handler of j that leads to a covered end keeps the invariant of the runs.
LEMMA ContinueKeeps ==
  ASSUME TypeOK, RunInv, NEW j \in JobId, NEW step,
         NEW next \in LaterSteps, NEW end \in Time,
         Continue(j, step, next, end), reading' = reading, incident \subseteq incident',
         next \in {"created", "done"} => Covered(j, end)'
  PROVE  RunInv'
<1>1. /\ state' = state /\ run' = run /\ run[j] = "going"
      /\ handler'[j].step = next /\ handler'[j].end = end
      /\ \A k \in JobId \ {j} : handler'[k] = handler[k]
  BY ContinueTypes
<1>2. ASSUME NEW k \in JobId
      PROVE  /\ run'[k] # "none" => state'[k] = "open"
             /\ run'[k] = "ok" => handler'[k].step = "done"
             /\ handler'[k].step \in {"created", "done"} => Covered(k, handler[k].end)'
  <2>1. CASE k = j
    BY <1>1, <2>1 DEF RunInv, Covered
  <2>2. CASE k # j
    BY <1>1, <2>2 DEF RunInv, Covered
  <2> QED BY <2>1, <2>2
<1> QED BY <1>2 DEF RunInv

LEMMA RunStep == TypeOK /\ RunInv /\ [Next]_vars => RunInv'
<1> SUFFICES ASSUME TypeOK, RunInv, [Next]_vars PROVE RunInv'
  OBVIOUS
<1>0. /\ state \in [JobId -> {"absent", "open", "succeeded", "failed"}]
      /\ run \in [JobId -> {"none", "going", "ok", "error"}]
      /\ reading \in [JobId -> ReadingRow] /\ handler \in [JobId -> HandlerState]
      /\ \A k \in JobId : run[k] = "none" => handler[k] = NotRunning
  BY DEF TypeOK
<1>a. incident \subseteq incident'
  BY IncidentChanges
<1>1. CASE UNCHANGED vars
  BY <1>1 DEF vars, workVars, caseVars, RunInv, Covered
<1>2. CASE Minute
  BY <1>2 DEF Minute, workVars, RunInv, Covered
<1>3. ASSUME NEW j \in JobId, NEW observed \in Time, NEW bad \in BOOLEAN,
             RecordReading(j, observed, bad)
      PROVE  RunInv'
  <2>1. /\ state[j] = "absent" /\ state' = [state EXCEPT ![j] = "open"] /\ run' = run
        /\ \A k \in JobId \ {j} : reading'[k] = reading[k]
        /\ UNCHANGED <<handler, incident>>
    BY <1>0, <1>3 DEF RecordReading, Post
  <2>2. run[j] = "none" /\ handler[j].step = "none"
    BY <1>0, <2>1, NotRunningType DEF RunInv
  <2> QED BY <1>0, <2>1, <2>2 DEF RunInv, Covered
<1>4. ASSUME NEW j \in JobId, Claimed(j) PROVE RunInv'
  <2>1. /\ state[j] = "open" /\ UNCHANGED <<state, handler, reading, incident>>
        /\ \E started \in {"going", "error"} : run' = [run EXCEPT ![j] = started]
    BY <1>4 DEF Claimed, Begin, caseVars
  <2> QED BY <1>0, <2>1 DEF RunInv, Covered
<1>5. ASSUME NEW j \in JobId, ReadClock(j) PROVE RunInv'
  <2>1. Continue(j, "none", "clock", now) /\ reading' = reading
    BY <1>5 DEF ReadClock, caseVars
  <2>2. now \in Time
    BY EndType
  <2> QED BY <1>a, <2>1, <2>2, ContinueKeeps DEF LaterSteps
<1>6. ASSUME NEW j \in JobId, Assess(j) PROVE RunInv'
  <2>1. PICK end \in Time : end = handler[j].end
    BY EndType
  <2>2. PICK next \in {"unready", "done"} : next = IF Ready(end) THEN "done" ELSE "unready"
    OBVIOUS
  <2>3. Continue(j, "clock", next, end) /\ reading' = reading /\ incident' = incident
    BY <1>6, <2>1, <2>2 DEF Assess, caseVars
  <2>4. state[j] = "open"
    BY <2>3 DEF Continue, RunInv
  <2>5. next = "done" => Covered(j, end)
    BY <2>2, <2>4, ReadyCovers
  <2>6. next = "done" => Covered(j, end)'
    BY <2>3, <2>5 DEF Covered
  <2> QED BY <1>a, <2>3, <2>6, ContinueKeeps DEF LaterSteps
<1>7. ASSUME NEW j \in JobId, OpenIncident(j) PROVE RunInv'
  <2>1. PICK end \in Time : end = handler[j].end
    BY EndType
  <2>2. /\ incident' = incident \cup {WindowKey(end)} /\ reading' = reading
        /\ \E next \in {"created", "done"} : Continue(j, "unready", next, end)
    BY <1>7, <2>1, OpenIncidentTypes
  <2>3. PICK next \in {"created", "done"} : Continue(j, "unready", next, end)
    BY <2>2
  <2>4. Covered(j, end)'
    BY <2>2 DEF Covered
  <2> QED BY <1>a, <2>2, <2>3, <2>4, ContinueKeeps DEF LaterSteps
<1>8. ASSUME NEW j \in JobId, Published(j) PROVE RunInv'
  <2>1. PICK end \in Time : end = handler[j].end
    BY EndType
  <2>2. Continue(j, "created", "done", end) /\ reading' = reading /\ incident' = incident
    BY <1>8, <2>1 DEF Published, caseVars
  <2>3. Covered(j, end)
    BY <2>1, <2>2 DEF Continue, RunInv
  <2>4. Covered(j, end)'
    BY <2>2, <2>3 DEF Covered
  <2> QED BY <1>a, <2>2, <2>4, ContinueKeeps DEF LaterSteps
<1>9. ASSUME NEW j \in JobId, NEW result \in {"ok", "error"}, AssessmentReturns(j, result)
      PROVE  RunInv'
  <2>1. /\ run[j] = "going" /\ run' = [run EXCEPT ![j] = result]
        /\ result = "ok" => handler[j].step = "done"
        /\ UNCHANGED <<state, handler, reading, incident>>
    BY <1>9 DEF AssessmentReturns, Return, caseVars
  <2> QED BY <1>0, <2>1 DEF RunInv, Covered
<1>10. ASSUME NEW j \in JobId, Completed(j) \/ RunEnds(j) PROVE RunInv'
  <2>1. handler' = [handler EXCEPT ![j] = NotRunning] /\ incident' = incident
    BY <1>10 DEF Completed, RunEnds, caseVars
  <2>2. run'[j] = "none" /\ \A k \in JobId \ {j} : run'[k] = run[k] /\ state'[k] = state[k]
    BY <1>0, <1>10 DEF Completed, RunEnds, Succeed, GiveUp, Drop, Settle
  <2>3. handler'[j].step = "none" /\ \A k \in JobId \ {j} : handler'[k] = handler[k]
    BY <1>0, <2>1, NotRunningType
  <2>4. \A k \in JobId \ {j} : reading'[k] = reading[k]
    BY <1>0, <1>10 DEF Completed, RunEnds, caseVars
  <2> QED BY <2>1, <2>2, <2>3, <2>4 DEF RunInv, Covered
<1> QED
  BY <1>1, <1>2, <1>3, <1>4, <1>5, <1>6, <1>7, <1>8, <1>9, <1>10 DEF Next

\* The job of a reading that was dealt with: by its end, the reading is covered.
LEMMA BadReadings ==
  BadReadingReported <=>
    \A j \in JobId : state[j] = "succeeded" => Covered(j, reading[j].assessed)
BY DEF BadReadingReported, Covered

LEMMA ReportedStep ==
  TypeOK /\ RunInv /\ BadReadingReported /\ [Next]_vars => BadReadingReported'
<1> SUFFICES ASSUME TypeOK, RunInv, BadReadingReported, [Next]_vars, NEW k \in JobId,
                    state'[k] = "succeeded"
             PROVE  Covered(k, reading[k].assessed)'
  BY DEF BadReadingReported, Covered
<1>0. /\ state \in [JobId -> {"absent", "open", "succeeded", "failed"}]
      /\ run \in [JobId -> {"none", "going", "ok", "error"}]
      /\ reading \in [JobId -> ReadingRow]
  BY DEF TypeOK
<1>a. incident \subseteq incident'
  BY IncidentChanges
<1>1. ASSUME state[k] = "succeeded", reading'[k] = reading[k]
      PROVE  Covered(k, reading[k].assessed)'
  <2>1. Covered(k, reading[k].assessed)
    BY <1>1, BadReadings
  <2> QED BY <1>a, <1>1, <2>1 DEF Covered
<1>2. CASE UNCHANGED <<state, reading>>
  BY <1>1, <1>2
<1>3. ASSUME NEW j \in JobId, NEW observed \in Time, NEW bad \in BOOLEAN,
             RecordReading(j, observed, bad)
      PROVE  Covered(k, reading[k].assessed)'
  <2>1. state' = [state EXCEPT ![j] = "open"]
        /\ \A i \in JobId \ {j} : reading'[i] = reading[i]
    BY <1>0, <1>3 DEF RecordReading, Post
  <2>2. k # j /\ state[k] = "succeeded" /\ reading'[k] = reading[k]
    BY <1>0, <2>1
  <2> QED BY <1>1, <2>2
<1>4. ASSUME NEW j \in JobId, Completed(j) PROVE Covered(k, reading[k].assessed)'
  <2>1. /\ run[j] = "ok" /\ state' = [state EXCEPT ![j] = "succeeded"] /\ incident' = incident
        /\ reading' = [reading EXCEPT ![j] = [reading[j] EXCEPT !.assessed = handler[j].end]]
    BY <1>4 DEF Completed, Succeed, Settle
  <2>2. CASE k # j
    <3>1. state[k] = "succeeded" /\ reading'[k] = reading[k]
      BY <1>0, <2>1, <2>2
    <3> QED BY <1>1, <3>1
  <2>3. CASE k = j
    <3>1. Covered(j, handler[j].end)
      BY <2>1 DEF RunInv
    <3>2. reading[j] \in ReadingRow
      BY <1>0
    <3>3. /\ reading'[j].assessed = handler[j].end
          /\ reading'[j].bad = reading[j].bad /\ reading'[j].observed = reading[j].observed
      BY <1>0, <2>1, <3>2 DEF ReadingRow
    <3> QED BY <2>1, <2>3, <3>1, <3>3 DEF Covered
  <2> QED BY <2>2, <2>3
<1>5. ASSUME NEW j \in JobId, RunEnds(j) PROVE Covered(k, reading[k].assessed)'
  <2>1. reading' = reading /\ (state' = [state EXCEPT ![j] = "failed"] \/ state' = state)
    BY <1>5 DEF RunEnds, GiveUp, Drop, Settle, caseVars
  <2>2. state[k] = "succeeded"
    BY <1>0, <2>1
  <2> QED BY <1>1, <2>1, <2>2
<1> QED
  BY <1>2, <1>3, <1>4, <1>5 DEF Next, vars, workVars, caseVars, Claimed, Begin, ReadClock,
     Assess, OpenIncident, Published, Continue, AssessmentReturns, Return, Minute

LEMMA InitRuns == Init => RunInv /\ BadReadingReported
BY NotRunningType DEF Init, WorkInit, RunInv, BadReadingReported

LEMMA Invariance == Spec => []IInv
<1>1. Init => IInv
  BY InitTypes, InitEvents, InitRuns DEF IInv
<1>2. IInv /\ [Next]_vars => IInv'
  BY TypeStep, OneEventStep, RunStep, ReportedStep DEF IInv
<1> QED BY <1>1, <1>2, PTL DEF Spec

\* A job that succeeded has dealt with its reading: if that was out of range and in the
\* window it assessed, there is an incident for the window, for any number of readings,
\* jobs and repeated runs, and wherever the device put the reading's time.
THEOREM BadReadingReportedHolds == Spec => []BadReadingReported
<1>1. IInv => BadReadingReported
  BY DEF IInv
<1> QED BY <1>1, Invariance, PTL
=============================================================================
