---------------------------- MODULE OutboxProofs ----------------------------
(***************************************************************************)
(* Proofs about Outbox, for any sets of events and processes and any       *)
(* max_attempts and lease.  One invariant says what may stand in a row and *)
(* what a dispatcher may remember of the row it claimed; every safety      *)
(* property and the refinement of Delivery follow from it.                 *)
(***************************************************************************)
EXTENDS Outbox, TLAPS

\* What may stand in a row: only waiting rows wait, only running ones have an owner and
\* a lease, and the status tells how many attempts there may have been.
RowOK(e) ==
  LET row == event[e] IN
  /\ row \in OutboxRow
  /\ row.owner # NoId <=> row.status = "running"
  /\ row.status # "running" => row.lease = 0
  /\ row.status # "retry" => row.wait = 0
  /\ row.attempts <= MaxAttempts
  /\ row.status = "absent" => row.attempts = 0
  /\ row.status \in {"pending", "retry"} => row.attempts < MaxAttempts
  /\ row.status = "failed" => row.attempts = MaxAttempts

\* What a dispatcher remembers: the event it sends is running in its name, with the
\* attempt it loaded, and what Send reports as accepted has been accepted.
DispatcherOK(p) ==
  LET d == dispatcher[p] IN
  /\ d \in DispatcherState
  /\ d.event = NoId => d.sent = "none"
  /\ d.mode \in {"new", "gone"} => d.event = NoId
  /\ d.event # NoId => /\ event[d.event].status = "running"
                       /\ event[d.event].owner = p
                       /\ event[d.event].attempts = d.attempt
  /\ d.sent = "ok" => <<d.event, d.attempt>> \in accepted

OutboxInv ==
  /\ event \in [EventId -> OutboxRow]
  /\ dispatcher \in [Process -> DispatcherState]
  /\ accepted \subseteq EventId \X Nat
  /\ \A e \in EventId : RowOK(e)
  /\ \A p \in Process : DispatcherOK(p)

-----------------------------------------------------------------------------
\* The table of backoff holds numbers.
LEMMA BackoffType == \A n \in Nat : Backoff(n) \in Nat
  <1> SUFFICES ASSUME NEW n \in Nat PROVE Backoff(n) \in Nat
    OBVIOUS
  <1> DEFINE k == IF n < 1 THEN 1 ELSE IF n > 8 THEN 8 ELSE n
  <1>1. k \in {1, 2, 3, 4, 5, 6, 7, 8}
    OBVIOUS
  <1>2. Backoff(n) = <<1, 2, 4, 8, 16, 32, 64, 128>>[k]
    BY DEF Backoff
  <1> HIDE DEF k
  <1>3. QED
    BY <1>1, <1>2

\* The tables and the dispatchers start in the invariant.
LEMMA InitInv == Init => OutboxInv
  <1> SUFFICES ASSUME Init PROVE OutboxInv
    OBVIOUS
  <1>1. /\ \A e \in EventId : event[e] = NoEvent
        /\ \A p \in Process : dispatcher[p] = Polling("new")
    BY DEF Init
  <1>2. NoEvent \in OutboxRow /\ Polling("new") \in DispatcherState
    BY OutboxAssumption DEF NoEvent, Polling, OutboxRow, DispatcherState, JobStatus
  <1>3. \A e \in EventId : RowOK(e)
    <2>1. /\ NoEvent.status = "absent" /\ NoEvent.attempts = 0 /\ NoEvent.wait = 0
          /\ NoEvent.owner = NoId /\ NoEvent.lease = 0
      BY DEF NoEvent
    <2>2. 0 <= MaxAttempts
      BY OutboxAssumption
    <2>3. QED
      BY <1>1, <1>2, <2>1, <2>2 DEF RowOK
  <1>4. \A p \in Process : DispatcherOK(p)
    BY <1>1, <1>2 DEF DispatcherOK, Polling
  <1>5. QED
    BY <1>2, <1>3, <1>4 DEF Init, OutboxInv

\* A step that writes one row and changes one dispatcher is judged by these two alone:
\* no other dispatcher has the row in hand.
LEMMA OneRowInv ==
  ASSUME OutboxInv, NEW p \in Process, NEW e \in EventId, NEW row \in OutboxRow,
         NEW d \in DispatcherState,
         event' = [event EXCEPT ![e] = row], dispatcher' = [dispatcher EXCEPT ![p] = d],
         accepted' = accepted,
         event[e].owner \in {NoId, p},
         RowOK(e)', DispatcherOK(p)'
  PROVE  OutboxInv'
  <1>1. /\ event' \in [EventId -> OutboxRow]
        /\ dispatcher' \in [Process -> DispatcherState]
        /\ accepted' \subseteq EventId \X Nat
    BY DEF OutboxInv
  <1>2. \A i \in EventId : RowOK(i)'
    <2> SUFFICES ASSUME NEW i \in EventId, i # e PROVE RowOK(i)'
      OBVIOUS
    <2>1. event'[i] = event[i]
      BY DEF OutboxInv
    <2>2. QED
      BY <2>1 DEF OutboxInv, RowOK
  <1>3. \A q \in Process : DispatcherOK(q)'
    <2> SUFFICES ASSUME NEW q \in Process, q # p PROVE DispatcherOK(q)'
      OBVIOUS
    <2>1. dispatcher'[q] = dispatcher[q] /\ DispatcherOK(q)
      BY DEF OutboxInv
    <2>2. dispatcher[q].event # e
      BY <2>1, OutboxAssumption DEF DispatcherOK
    <2>3. dispatcher[q].event # NoId =>
            event'[dispatcher[q].event] = event[dispatcher[q].event]
      BY <2>1, <2>2 DEF OutboxInv, DispatcherState
    <2>4. QED
      BY <2>1, <2>3 DEF DispatcherOK
  <1>4. QED
    BY <1>1, <1>2, <1>3 DEF OutboxInv

\* A claim takes a row that nobody has, and that has an attempt left.
LEMMA ClaimInv ==
  ASSUME OutboxInv, NEW p \in Process, NEW e \in EventId, ClaimOutbox(p, e)
  PROVE  OutboxInv'
  <1> DEFINE row == [event[e] EXCEPT !.status = "running", !.owner = p,
                       !.lease = LeaseDuration, !.attempts = event[e].attempts + 1]
             d == [dispatcher[p] EXCEPT !.event = e, !.attempt = event[e].attempts + 1]
  <1>1. /\ event' = [event EXCEPT ![e] = row] /\ dispatcher' = [dispatcher EXCEPT ![p] = d]
        /\ accepted' = accepted
        /\ dispatcher[p].mode = "up" /\ dispatcher[p].event = NoId
        /\ event[e].status \in {"pending", "retry"} /\ event[e].wait = 0
    BY DEF ClaimOutbox, Claimable
  <1>2. /\ event[e] \in OutboxRow /\ RowOK(e)
        /\ dispatcher[p] \in DispatcherState /\ DispatcherOK(p)
    BY DEF OutboxInv
  <1>3. event[e].attempts \in Nat /\ event[e].attempts + 1 <= MaxAttempts
        /\ event[e].owner = NoId
    <2>1. event[e].attempts \in Nat
      BY <1>2 DEF OutboxRow
    <2>2. event[e].attempts < MaxAttempts /\ event[e].owner = NoId
      BY <1>1, <1>2 DEF RowOK
    <2>3. QED
      BY <2>1, <2>2, OutboxAssumption
  <1>4. LeaseDuration \in 0..LeaseDuration
    BY OutboxAssumption
  <1>5. /\ row \in OutboxRow /\ row.status = "running" /\ row.owner = p /\ row.wait = 0
        /\ row.attempts = event[e].attempts + 1
    <2>1. /\ "running" \in JobStatus \cup {"absent"} /\ p \in Process \cup {NoId}
          /\ event[e].attempts + 1 \in Nat
      BY <1>3 DEF JobStatus
    <2>2. QED
      BY <1>1, <1>2, <1>4, <2>1 DEF OutboxRow
  <1>6. /\ d \in DispatcherState /\ d.event = e /\ d.attempt = event[e].attempts + 1
        /\ d.mode = "up" /\ d.sent = "none"
    <2>1. dispatcher[p].sent = "none"
      BY <1>1, <1>2 DEF DispatcherOK
    <2>2. event[e].attempts + 1 \in Nat
      BY <1>3
    <2>3. QED
      BY <1>1, <1>2, <2>1, <2>2 DEF DispatcherState
  <1> HIDE DEF row, d
  <1>7. event'[e] = row /\ dispatcher'[p] = d
    BY <1>1 DEF OutboxInv
  <1>8. RowOK(e)'
    BY <1>3, <1>5, <1>7, OutboxAssumption DEF RowOK
  <1>9. DispatcherOK(p)'
    BY <1>5, <1>6, <1>7 DEF DispatcherOK
  <1>10. QED
    BY <1>1, <1>3, <1>5, <1>6, <1>8, <1>9, OneRowInv

\* What the three statements of FinishOutbox have in common, and how many attempts the
\* row they write has had.
LEMMA Finished ==
  ASSUME OutboxInv, NEW p \in Process, FinishOutbox(p)
  PROVE  LET e == dispatcher[p].event IN
         /\ e \in EventId
         /\ event[e].status = "running" /\ event[e].owner = p
         /\ \E status \in {"succeeded", "retry", "failed"}, wait \in Nat :
              /\ Released(e, status, wait)
              /\ status # "retry" => wait = 0
              /\ status = "retry" => event[e].attempts < MaxAttempts
              /\ status = "failed" => event[e].attempts = MaxAttempts
              /\ status = "succeeded" => dispatcher[p].sent = "ok"
         /\ DispatchOneReturns(p)
  <1> DEFINE e == dispatcher[p].event
  <1>1. dispatcher[p] \in DispatcherState /\ DispatcherOK(p)
    BY DEF OutboxInv
  <1>2. e \in EventId
    BY <1>1 DEF DispatcherOK, DispatcherState, FinishOutbox, Succeed, RetryLater, GiveUp
  <1>3. event[e].status = "running" /\ event[e].owner = p
    BY DEF FinishOutbox, Succeed, RetryLater, GiveUp, LeaseValid
  <1>4. /\ event[e] \in OutboxRow /\ event[e].attempts \in Nat
        /\ event[e].attempts <= MaxAttempts /\ event[e].wait = 0
    BY <1>2, <1>3 DEF OutboxInv, RowOK, OutboxRow
  <1>5. Backoff(event[e].attempts) \in Nat
    BY <1>4, BackoffType
  <1> HIDE DEF e
  <1>6. CASE Succeed(p)
    BY <1>2, <1>3, <1>4, <1>6 DEF Succeed, e
  <1>7. CASE RetryLater(p)
    <2>1. event[e].attempts < MaxAttempts
      BY <1>4, <1>7, OutboxAssumption DEF RetryLater, LastAttempt, e
    <2>2. Released(e, "retry", Backoff(event[e].attempts)) /\ DispatchOneReturns(p)
      BY <1>7 DEF RetryLater, e
    <2>3. QED
      BY <1>2, <1>3, <1>5, <2>1, <2>2 DEF e
  <1>8. CASE GiveUp(p)
    <2>1. event[e].attempts = MaxAttempts
      BY <1>4, <1>8, OutboxAssumption DEF GiveUp, LastAttempt, e
    <2>2. QED
      BY <1>2, <1>3, <1>8, <2>1 DEF GiveUp, e
  <1>9. QED
    BY <1>6, <1>7, <1>8 DEF FinishOutbox

\* A dispatcher between two events remembers nothing that could be wrong.
LEMMA PollingOK ==
  ASSUME NEW p \in Process, NEW mode \in {"new", "up", "stopping", "gone"},
         dispatcher'[p] = Polling(mode)
  PROVE  Polling(mode) \in DispatcherState /\ DispatcherOK(p)'
  BY DEF DispatcherOK, Polling, DispatcherState

\* Finishing an event gives up its lease, with the attempts its new status asks for.
LEMMA FinishInv ==
  ASSUME OutboxInv, NEW p \in Process, FinishOutbox(p)
  PROVE  OutboxInv'
  <1>0. PICK e \in EventId : e = dispatcher[p].event
    BY Finished
  <1>1. /\ event[e].status = "running" /\ event[e].owner = p
        /\ DispatchOneReturns(p)
    BY <1>0, Finished
  <1>2. PICK status \in {"succeeded", "retry", "failed"}, wait \in Nat :
          /\ Released(e, status, wait)
          /\ status # "retry" => wait = 0
          /\ status = "retry" => event[e].attempts < MaxAttempts
          /\ status = "failed" => event[e].attempts = MaxAttempts
    BY <1>0, Finished
  <1> DEFINE row == [event[e] EXCEPT !.status = status, !.wait = wait,
                                     !.owner = NoId, !.lease = 0]
  <1>3. event[e] \in OutboxRow /\ RowOK(e) /\ dispatcher[p] \in DispatcherState
    BY <1>1 DEF OutboxInv
  <1>4. /\ event' = [event EXCEPT ![e] = row] /\ accepted' = accepted
        /\ dispatcher' = [dispatcher EXCEPT ![p] = Polling(dispatcher[p].mode)]
    <2>1. Released(e, status, wait) /\ DispatchOneReturns(p)
      BY <1>1, <1>2
    <2>2. QED
      BY <2>1 DEF Released, DispatchOneReturns
  <1>5. /\ row \in OutboxRow /\ row.status = status /\ row.wait = wait /\ row.lease = 0
        /\ row.owner = NoId /\ row.attempts = event[e].attempts
    <2>1. status \in JobStatus \cup {"absent"} /\ 0 \in 0..LeaseDuration
      BY OutboxAssumption DEF JobStatus
    <2>2. QED
      BY <1>3, <2>1 DEF OutboxRow
  <1> HIDE DEF row
  <1>6. event'[e] = row /\ dispatcher'[p] = Polling(dispatcher[p].mode)
    BY <1>1, <1>4 DEF OutboxInv
  <1>7. RowOK(e)'
    <2>1. event[e].attempts <= MaxAttempts
      BY <1>3 DEF RowOK
    <2>2. /\ status # "retry" => wait = 0
          /\ status = "retry" => event[e].attempts < MaxAttempts
          /\ status = "failed" => event[e].attempts = MaxAttempts
          /\ status \notin {"absent", "running", "pending"}
      BY <1>2
    <2>3. /\ row.owner # NoId <=> row.status = "running"
          /\ row.attempts <= MaxAttempts
      BY <1>5, <2>1, <2>2
    <2>4. /\ row.status # "running" => row.lease = 0
          /\ row.status # "retry" => row.wait = 0
          /\ row.status = "absent" => row.attempts = 0
          /\ row.status \in {"pending", "retry"} => row.attempts < MaxAttempts
          /\ row.status = "failed" => row.attempts = MaxAttempts
      BY <1>5, <2>2
    <2>5. QED
      BY <1>5, <1>6, <2>3, <2>4 DEF RowOK
  <1>8. dispatcher[p].mode \in {"new", "up", "stopping", "gone"}
    BY <1>3 DEF DispatcherState
  <1> DEFINE d == Polling(dispatcher[p].mode)
  <1>9. d \in DispatcherState /\ DispatcherOK(p)'
    BY <1>6, <1>8, PollingOK
  <1>10. /\ dispatcher' = [dispatcher EXCEPT ![p] = d]
         /\ event[e].owner \in {NoId, p}
    BY <1>1, <1>4
  <1> HIDE DEF d
  <1>11. QED
    BY <1>1, <1>4, <1>5, <1>7, <1>9, <1>10, OneRowInv

\* A dispatcher that writes no row keeps the invariant if it keeps its own part of it.
LEMMA LocalInv ==
  ASSUME OutboxInv, NEW p \in Process, NEW d \in DispatcherState,
         dispatcher' = [dispatcher EXCEPT ![p] = d], event' = event,
         accepted' = accepted, DispatcherOK(p)'
  PROVE  OutboxInv'
  <1>1. \A q \in Process \ {p} : dispatcher'[q] = dispatcher[q]
    BY DEF OutboxInv
  <1>2. \A q \in Process : DispatcherOK(q)'
    BY <1>1 DEF OutboxInv, DispatcherOK
  <1>3. \A e \in EventId : RowOK(e)'
    BY DEF OutboxInv, RowOK
  <1>4. QED
    BY <1>2, <1>3 DEF OutboxInv

\* Send returns nil only for a request that has been accepted.
LEMMA SendReturnsInv ==
  ASSUME OutboxInv, NEW p \in Process, NEW sent \in {"ok", "error"}, SendReturns(p, sent)
  PROVE  OutboxInv'
  <1> DEFINE d == [dispatcher[p] EXCEPT !.sent = sent]
  <1>1. dispatcher[p] \in DispatcherState /\ DispatcherOK(p)
    BY DEF OutboxInv
  <1>2. /\ dispatcher' = [dispatcher EXCEPT ![p] = d] /\ event' = event
        /\ accepted' = accepted /\ dispatcher[p].event # NoId
        /\ sent = "ok" => <<dispatcher[p].event, dispatcher[p].attempt>> \in accepted
    BY DEF SendReturns, Request
  <1>3. /\ d \in DispatcherState /\ d.event = dispatcher[p].event /\ d.sent = sent
        /\ d.attempt = dispatcher[p].attempt /\ d.mode = dispatcher[p].mode
    BY <1>1 DEF DispatcherState
  <1> HIDE DEF d
  <1>4. dispatcher'[p] = d
    BY <1>2 DEF OutboxInv
  <1>5. DispatcherOK(p)'
    BY <1>1, <1>2, <1>3, <1>4 DEF DispatcherOK
  <1>6. QED
    BY <1>2, <1>3, <1>5, LocalInv

\* Losing the lease, a failed statement, and the end of a process leave a dispatcher
\* with nothing in hand.
LEMMA DroppedInv ==
  ASSUME OutboxInv, NEW p \in Process,
         LeaseLost(p) \/ StatementFails(p) \/ Exit(p) \/ Crash(p)
  PROVE  OutboxInv'
  <1>1. dispatcher[p].mode \in {"new", "up", "stopping", "gone"}
    BY DEF OutboxInv, DispatcherState
  <1>2. PICK mode \in {"new", "up", "stopping", "gone"} :
          /\ dispatcher' = [dispatcher EXCEPT ![p] = Polling(mode)]
          /\ event' = event /\ accepted' = accepted
    BY <1>1 DEF LeaseLost, StatementFails, Exit, Crash, DispatchOneReturns
  <1>3. dispatcher'[p] = Polling(mode)
    BY <1>2 DEF OutboxInv
  <1>4. QED
    BY <1>2, <1>3, PollingOK, LocalInv

\* Starting and stopping change the mode only.
LEMMA ModeInv ==
  ASSUME OutboxInv, NEW p \in Process, Start(p) \/ Stop(p)
  PROVE  OutboxInv'
  <1>1. dispatcher[p] \in DispatcherState /\ DispatcherOK(p)
    BY DEF OutboxInv
  <1>2. PICK mode \in {"up", "stopping"} :
          /\ dispatcher' = [dispatcher EXCEPT ![p] = [dispatcher[p] EXCEPT !.mode = mode]]
          /\ event' = event /\ accepted' = accepted
    <2>1. [dispatcher EXCEPT ![p].mode = "up"]
            = [dispatcher EXCEPT ![p] = [dispatcher[p] EXCEPT !.mode = "up"]]
      OBVIOUS
    <2>2. [dispatcher EXCEPT ![p].mode = "stopping"]
            = [dispatcher EXCEPT ![p] = [dispatcher[p] EXCEPT !.mode = "stopping"]]
      OBVIOUS
    <2>3. QED
      BY <2>1, <2>2 DEF Start, Stop
  <1> DEFINE d == [dispatcher[p] EXCEPT !.mode = mode]
  <1>3. /\ d \in DispatcherState /\ d.event = dispatcher[p].event /\ d.mode = mode
        /\ d.attempt = dispatcher[p].attempt /\ d.sent = dispatcher[p].sent
    BY <1>1 DEF DispatcherState
  <1>4. dispatcher'[p] = d
    BY <1>2 DEF OutboxInv
  <1> HIDE DEF d
  <1>5. DispatcherOK(p)'
    BY <1>1, <1>2, <1>3, <1>4 DEF DispatcherOK
  <1>6. QED
    BY <1>2, <1>3, <1>5, LocalInv DEF d

\* A new row is in nobody's hand.
LEMMA EnqueueInv ==
  ASSUME OutboxInv, NEW e \in EventId, Enqueue(e)
  PROVE  OutboxInv'
  <1> DEFINE row == [event[e] EXCEPT !.status = "pending"]
  <1>1. event[e] \in OutboxRow /\ RowOK(e) /\ event[e].status = "absent"
    BY DEF OutboxInv, Enqueue
  <1>2. event' = [event EXCEPT ![e] = row] /\ dispatcher' = dispatcher /\ accepted' = accepted
    BY DEF Enqueue
  <1>3. /\ row \in OutboxRow /\ row.status = "pending" /\ row.owner = event[e].owner
        /\ row.lease = event[e].lease /\ row.wait = event[e].wait
        /\ row.attempts = event[e].attempts
    BY <1>1 DEF OutboxRow, JobStatus
  <1> HIDE DEF row
  <1>4. event'[e] = row /\ \A i \in EventId \ {e} : event'[i] = event[i]
    BY <1>2 DEF OutboxInv
  <1>5. \A i \in EventId : RowOK(i)'
    <2>1. RowOK(e)'
      BY <1>1, <1>3, <1>4, OutboxAssumption DEF RowOK
    <2>2. \A i \in EventId \ {e} : RowOK(i)'
      BY <1>4 DEF OutboxInv, RowOK
    <2>3. QED
      BY <2>1, <2>2
  <1>6. \A p \in Process : DispatcherOK(p)'
    BY <1>1, <1>2, <1>4 DEF OutboxInv, DispatcherOK, DispatcherState
  <1>7. QED
    BY <1>2, <1>3, <1>5, <1>6 DEF OutboxInv

\* An acceptance adds to what Send may report.
LEMMA ArriveInv ==
  ASSUME OutboxInv, NEW e \in EventId, NEW n \in 1..MaxAttempts, Arrive(e, n)
  PROVE  OutboxInv'
  <1>1. accepted' = accepted \cup {<<e, n>>} /\ event' = event /\ dispatcher' = dispatcher
    BY DEF Arrive
  <1>2. <<e, n>> \in EventId \X Nat
    BY OutboxAssumption
  <1>3. \A i \in EventId : RowOK(i)'
    BY <1>1 DEF OutboxInv, RowOK
  <1>4. \A p \in Process : DispatcherOK(p)'
    BY <1>1 DEF OutboxInv, DispatcherOK
  <1>5. QED
    BY <1>1, <1>2, <1>3, <1>4 DEF OutboxInv

\* A second less of waiting and of lease: a row that has neither stays as it is.
LEMMA TickRows ==
  ASSUME OutboxInv, Tick, NEW e \in EventId
  PROVE  /\ event'[e] \in OutboxRow
         /\ event'[e] = [event[e] EXCEPT !.wait = Earlier(event[e].wait),
                                         !.lease = Earlier(event[e].lease)]
         /\ event'[e].status = event[e].status /\ event'[e].owner = event[e].owner
         /\ event'[e].attempts = event[e].attempts
         /\ event[e].wait = 0 => event'[e].wait = 0
         /\ event[e].lease = 0 => event'[e].lease = 0
  <1>1. event'[e] = [event[e] EXCEPT !.wait = Earlier(event[e].wait),
                                     !.lease = Earlier(event[e].lease)]
    BY DEF Tick
  <1>2. event[e] \in OutboxRow
    BY DEF OutboxInv
  <1>3. Earlier(event[e].wait) \in Nat /\ Earlier(event[e].lease) \in 0..LeaseDuration
    BY <1>2, OutboxAssumption DEF OutboxRow, Earlier
  <1>4. /\ event[e].wait = 0 => Earlier(event[e].wait) = 0
        /\ event[e].lease = 0 => Earlier(event[e].lease) = 0
    BY DEF Earlier
  <1>5. QED
    BY <1>1, <1>2, <1>3, <1>4 DEF OutboxRow

\* Time keeps the invariant.
LEMMA TickInv == OutboxInv /\ Tick => OutboxInv'
  <1> SUFFICES ASSUME OutboxInv, Tick PROVE OutboxInv'
    OBVIOUS
  <1>1. \A e \in EventId : RowOK(e)'
    BY TickRows DEF OutboxInv, RowOK
  <1>2. \A p \in Process : DispatcherOK(p)'
    <2> SUFFICES ASSUME NEW p \in Process PROVE DispatcherOK(p)'
      OBVIOUS
    <2>1. dispatcher'[p] = dispatcher[p] /\ accepted' = accepted /\ DispatcherOK(p)
      BY DEF Tick, OutboxInv
    <2>2. dispatcher[p].event # NoId => dispatcher[p].event \in EventId
      BY <2>1 DEF DispatcherOK, DispatcherState
    <2>3. QED
      BY <2>1, <2>2, TickRows DEF DispatcherOK
  <1>3. event' \in [EventId -> OutboxRow]
    BY TickRows DEF Tick
  <1>4. QED
    BY <1>1, <1>2, <1>3 DEF Tick, OutboxInv

-----------------------------------------------------------------------------
\* No step leaves the invariant.
LEMMA NextInv == OutboxInv /\ [Next]_vars => OutboxInv'
  <1> SUFFICES ASSUME OutboxInv, [Next]_vars PROVE OutboxInv'
    OBVIOUS
  <1>1. ASSUME NEW e \in EventId, Enqueue(e) PROVE OutboxInv'
    BY <1>1, EnqueueInv
  <1>2. ASSUME NEW e \in EventId, NEW n \in 1..MaxAttempts, Arrive(e, n) PROVE OutboxInv'
    BY <1>2, ArriveInv
  <1>3. ASSUME NEW p \in Process, NEW e \in EventId, ClaimOutbox(p, e) PROVE OutboxInv'
    BY <1>3, ClaimInv
  <1>4. ASSUME NEW p \in Process, NEW sent \in {"ok", "error"}, SendReturns(p, sent)
        PROVE  OutboxInv'
    BY <1>4, SendReturnsInv
  <1>5. ASSUME NEW p \in Process, FinishOutbox(p) PROVE OutboxInv'
    BY <1>5, FinishInv
  <1>6. ASSUME NEW p \in Process, LeaseLost(p) \/ StatementFails(p) \/ Exit(p) \/ Crash(p)
        PROVE  OutboxInv'
    BY <1>6, DroppedInv
  <1>7. ASSUME NEW p \in Process, Start(p) \/ Stop(p) PROVE OutboxInv'
    BY <1>7, ModeInv
  <1>8. CASE Tick
    BY <1>8, TickInv
  <1>9. CASE UNCHANGED vars
    BY <1>9 DEF vars, OutboxInv, RowOK, DispatcherOK
  <1>10. QED
    BY <1>1, <1>2, <1>3, <1>4, <1>5, <1>6, <1>7, <1>8, <1>9 DEF Next, Work

\* The invariant holds in every reachable state.
LEMMA Invariant == Spec => []OutboxInv
  BY InitInv, NextInv, PTL DEF Spec

\* Rows and dispatchers are well typed and exactly the running rows have an owner, for
\* any number of events and processes (ClaimOutbox, FinishOutbox).
THEOREM OutboxTypes == Spec => []TypeOK
  <1>1. OutboxInv => TypeOK
    BY DEF OutboxInv, TypeOK, RowOK
  <1>2. QED
    BY <1>1, Invariant, PTL

\* No event is sent by two dispatchers at a time, whatever leases expire.
THEOREM OneSenderHolds == Spec => []OneSender
  <1>1. OutboxInv => OneSender
    BY DEF OutboxInv, OneSender, DispatcherOK
  <1>2. QED
    BY <1>1, Invariant, PTL

\* An event is tried at most max_attempts times and fails at the last one, through any
\* number of crashes, shutdowns and failed statements.
THEOREM AttemptsCountedHolds == Spec => []AttemptsCounted
  <1>1. OutboxInv => AttemptsCounted
    BY DEF OutboxInv, AttemptsCounted, RowOK
  <1>2. QED
    BY <1>1, Invariant, PTL

-----------------------------------------------------------------------------
\* What a step may do to one row: nothing, post it, move it while it is open, or settle
\* it; it is called succeeded only when a request for it was accepted.
LEMMA RowStep ==
  ASSUME OutboxInv, [Next]_vars, NEW e \in EventId
  PROVE  \/ event'[e] = event[e]
         \/ event[e].status = "absent" /\ event'[e].status = "pending"
         \/ /\ event[e].status \in {"pending", "running", "retry"}
            /\ event'[e].status \in {"pending", "running", "retry"}
         \/ /\ event[e].status = "running"
            /\ event'[e].status = "succeeded" => \E r \in accepted : r[1] = e
            /\ event'[e].status \in {"succeeded", "failed"}
  <1> DEFINE Goal ==
         \/ event'[e] = event[e]
         \/ event[e].status = "absent" /\ event'[e].status = "pending"
         \/ /\ event[e].status \in {"pending", "running", "retry"}
            /\ event'[e].status \in {"pending", "running", "retry"}
         \/ /\ event[e].status = "running"
            /\ event'[e].status = "succeeded" => \E r \in accepted : r[1] = e
            /\ event'[e].status \in {"succeeded", "failed"}
  <1>0. event \in [EventId -> OutboxRow] /\ event[e] \in OutboxRow /\ RowOK(e)
    BY DEF OutboxInv
  <1>1. ASSUME NEW i \in EventId, Enqueue(i) PROVE Goal
    BY <1>0, <1>1 DEF Enqueue, OutboxRow
  <1>2. ASSUME NEW p \in Process, NEW i \in EventId, ClaimOutbox(p, i) PROVE Goal
    <2>1. /\ event' = [event EXCEPT ![i] = [event[i] EXCEPT !.status = "running", !.owner = p,
                        !.lease = LeaseDuration, !.attempts = event[i].attempts + 1]]
          /\ event[i].status \in {"pending", "retry"}
      BY <1>2 DEF ClaimOutbox, Claimable
    <2>2. CASE i = e
      <3>1. event'[e].status = "running"
        BY <1>0, <2>1, <2>2 DEF OutboxRow
      <3>2. QED
        BY <2>1, <2>2, <3>1
    <2>3. CASE i # e
      BY <1>0, <2>1, <2>3
    <2>4. QED
      BY <2>2, <2>3
  <1>3. ASSUME NEW p \in Process, FinishOutbox(p) PROVE Goal
    <2> DEFINE i == dispatcher[p].event
    <2>1. i \in EventId /\ event[i].status = "running"
      BY <1>3, Finished
    <2>2. PICK status \in {"succeeded", "retry", "failed"}, wait \in Nat :
            /\ Released(i, status, wait)
            /\ status = "succeeded" => dispatcher[p].sent = "ok"
      BY <1>3, Finished
    <2>3. status = "succeeded" => <<i, dispatcher[p].attempt>> \in accepted
      BY <2>2 DEF OutboxInv, DispatcherOK
    <2> HIDE DEF i
    <2>4. CASE i = e
      <3>1. event'[e].status = status
        BY <1>0, <2>2, <2>4 DEF Released, OutboxRow
      <3>2. status = "succeeded" => \E r \in accepted : r[1] = e
        BY <2>3, <2>4
      <3>3. QED
        BY <2>1, <2>2, <2>4, <3>1, <3>2
    <2>5. CASE i # e
      BY <1>0, <2>2, <2>5 DEF Released
    <2>6. QED
      BY <2>4, <2>5
  <1>4. CASE Tick
    <2>1. event'[e].status = event[e].status
      BY <1>4, TickRows
    <2>2. CASE event[e].status \in {"pending", "running", "retry"}
      BY <2>1, <2>2
    <2>3. CASE event[e].status \notin {"pending", "running", "retry"}
      <3>1. event[e].wait = 0 /\ event[e].lease = 0
        BY <1>0, <2>3 DEF RowOK
      <3>2. event'[e] = [event[e] EXCEPT !.wait = 0, !.lease = 0]
        BY <1>4, <3>1, TickRows DEF Earlier
      <3>3. event'[e] = event[e]
        BY <1>0, <3>1, <3>2 DEF OutboxRow
      <3>4. QED
        BY <3>3
    <2>4. QED
      BY <2>2, <2>3
  <1>5. CASE \/ \E i \in EventId, n \in 1..MaxAttempts : Arrive(i, n)
             \/ \E p \in Process :
                  \/ \E sent \in {"ok", "error"} : SendReturns(p, sent)
                  \/ LeaseLost(p) \/ StatementFails(p) \/ Exit(p) \/ Crash(p)
                  \/ Start(p) \/ Stop(p)
    BY <1>5 DEF Arrive, SendReturns, LeaseLost, StatementFails, Exit, Crash, Start, Stop
  <1>6. CASE UNCHANGED vars
    BY <1>6 DEF vars
  <1>7. QED
    BY <1>1, <1>2, <1>3, <1>4, <1>5, <1>6 DEF Next, Work

\* A succeeded or failed event is never changed again (ClaimOutbox and FinishOutbox of
\* late dispatchers, and time).
THEOREM SettledOnceHolds == Spec => SettledOnce
  <1>1. OutboxInv /\ [Next]_vars => [\A e \in EventId : Settled(e) => event'[e] = event[e]]_vars
    <2> SUFFICES ASSUME OutboxInv, [Next]_vars, NEW e \in EventId, Settled(e)
                 PROVE  event'[e] = event[e]
      OBVIOUS
    <2>1. QED
      BY RowStep DEF Settled
  <1>2. QED
    BY <1>1, Invariant, PTL DEF Spec, SettledOnce

-----------------------------------------------------------------------------
\* A step that accepts a request changes no row, and the request is one for a row that
\* exists; no other step changes what the receiver has seen.
LEMMA SeenStep ==
  ASSUME OutboxInv, [Next]_vars
  PROVE  \/ accepted' = accepted
         \/ /\ event' = event
            /\ \E e \in EventId, n \in Nat :
                 accepted' = accepted \cup {<<e, n>>} /\ event[e].status # "absent"
  <1>1. ASSUME NEW e \in EventId, NEW n \in 1..MaxAttempts, Arrive(e, n)
        PROVE  /\ event' = event
               /\ \E i \in EventId, k \in Nat :
                    accepted' = accepted \cup {<<i, k>>} /\ event[i].status # "absent"
    <2>1. n \in Nat /\ n \in 1..event[e].attempts
      BY <1>1, OutboxAssumption DEF Arrive
    <2>2. event[e].status # "absent"
      BY <2>1 DEF OutboxInv, RowOK
    <2>3. QED
      BY <1>1, <2>1, <2>2 DEF Arrive
  <1>2. QED
    BY <1>1 DEF Next, Work, vars, Enqueue, ClaimOutbox, SendReturns, FinishOutbox, Succeed,
                RetryLater, GiveUp, LeaseLost, StatementFails, DispatchOneReturns, Start,
                Stop, Exit, Crash, Tick

\* A step changes the status of one row at most.
LEMMA OneStatus ==
  ASSUME OutboxInv, [Next]_vars, NEW e \in EventId, event'[e].status # event[e].status,
         NEW i \in EventId, i # e
  PROVE  event'[i].status = event[i].status
  <1>0. event \in [EventId -> OutboxRow]
    BY DEF OutboxInv
  <1>1. ASSUME NEW k \in EventId, Enqueue(k) PROVE event'[i].status = event[i].status
    BY <1>0, <1>1 DEF Enqueue
  <1>2. ASSUME NEW p \in Process, NEW k \in EventId, ClaimOutbox(p, k)
        PROVE  event'[i].status = event[i].status
    BY <1>0, <1>2 DEF ClaimOutbox
  <1>3. ASSUME NEW p \in Process, FinishOutbox(p) PROVE event'[i].status = event[i].status
    BY <1>0, <1>3 DEF FinishOutbox, Succeed, RetryLater, GiveUp, Released
  <1>4. CASE Tick
    BY <1>4, TickRows
  <1>5. CASE event' = event
    BY <1>5
  <1>6. QED
    BY <1>1, <1>2, <1>3, <1>4, <1>5 DEF Next, Work, vars, Arrive, SendReturns, LeaseLost,
       StatementFails, Start, Stop, Exit, Crash

\* The outbox implements Delivery: initial states map to initial states, and every step
\* to a step of Delivery or a stutter.
THEOREM DeliveryImplemented == Spec => ImplementsDelivery
  <1> DEFINE state == [e \in EventId |-> DeliveryState(e)]
             seen == {r[1] : r \in accepted}
  <1>1. Init => D!Init
    <2> SUFFICES ASSUME Init PROVE D!Init
      OBVIOUS
    <2>1. \A e \in EventId : DeliveryState(e) = "absent"
      BY DEF Init, NoEvent, DeliveryState
    <2>2. QED
      BY <2>1 DEF Init, D!Init
  <1>2. OutboxInv /\ [Next]_vars => [D!Next]_(D!vars)
    <2> SUFFICES ASSUME OutboxInv, [Next]_vars, ~(UNCHANGED D!vars) PROVE D!Next
      OBVIOUS
    <2>1. CASE accepted' # accepted
      <3>1. PICK e \in EventId, n \in Nat :
              accepted' = accepted \cup {<<e, n>>} /\ event[e].status # "absent"
        BY <2>1, SeenStep
      <3>2. event' = event
        BY <2>1, SeenStep
      <3>3. seen' = seen \cup {e}
        <4>1. <<e, n>>[1] = e
          OBVIOUS
        <4>2. seen' = {r[1] : r \in accepted \cup {<<e, n>>}}
          BY <3>1
        <4>3. QED
          BY <4>1, <4>2
      <3>4. state' = state
        BY <3>2 DEF DeliveryState
      <3>5. state[e] # "absent"
        BY <3>1 DEF DeliveryState, OutboxInv, OutboxRow
      <3>6. D!Accept(e)
        BY <3>3, <3>4, <3>5 DEF D!Accept
      <3>7. QED
        BY <3>6 DEF D!Next
    <2>2. CASE accepted' = accepted
      <3>1. seen' = seen
        BY <2>2
      <3>2. PICK e \in EventId : state'[e] # state[e]
        BY <3>1 DEF D!vars
      <3>3. state'[e] = DeliveryState(e)' /\ state[e] = DeliveryState(e)
        OBVIOUS
      <3>4. event'[e].status # event[e].status
        BY <3>2, <3>3 DEF DeliveryState
      <3>5. \A i \in EventId \ {e} : event'[i].status = event[i].status
        BY <3>4, OneStatus
      <3>6. \A i \in EventId \ {e} : DeliveryState(i)' = DeliveryState(i)
        BY <3>5 DEF DeliveryState
      <3>7. state' = [state EXCEPT ![e] = DeliveryState(e)']
        BY <3>6
      <3> HIDE DEF state, seen
      <3>8. CASE event[e].status = "absent" /\ event'[e].status = "pending"
        <4>1. D!Post(e)
          BY <3>1, <3>3, <3>7, <3>8 DEF DeliveryState, D!Post, state, seen
        <4>2. QED
          BY <4>1 DEF D!Next
      <3>9. CASE /\ event[e].status = "running" /\ event'[e].status = "failed"
        <4>1. D!GiveUp(e)
          BY <3>1, <3>3, <3>7, <3>9 DEF DeliveryState, D!GiveUp, state, seen
        <4>2. QED
          BY <4>1 DEF D!Next
      <3>10. CASE /\ event[e].status = "running" /\ event'[e].status = "succeeded"
                  /\ \E r \in accepted : r[1] = e
        <4>1. e \in seen
          BY <3>10 DEF seen
        <4>2. D!Confirm(e)
          BY <3>1, <3>3, <3>7, <3>10, <4>1 DEF DeliveryState, D!Confirm, state, seen
        <4>3. QED
          BY <4>2 DEF D!Next
      <3>11. ~(/\ event[e].status \in {"pending", "running", "retry"}
               /\ event'[e].status \in {"pending", "running", "retry"})
        BY <3>2, <3>3 DEF DeliveryState
      <3>12. QED
        BY <3>4, <3>8, <3>9, <3>10, <3>11, RowStep
    <2>3. QED
      BY <2>1, <2>2
  <1>3. QED
    BY <1>1, <1>2, Invariant, PTL DEF Spec, ImplementsDelivery, D!Spec
=============================================================================
