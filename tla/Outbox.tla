------------------------------- MODULE Outbox -------------------------------
(***************************************************************************)
(* The outbox of HeritageGuard: rows with a lease in the database, the     *)
(* dispatchers that claim them, send each event over HTTP and write the    *)
(* outcome, the network, and the receiver.  A dispatcher belongs to one    *)
(* start of the server and draws its owner id then.  It sends one event at *)
(* a time.  Requests and answers may be lost or late, statements may fail, *)
(* and any process may be told to stop or crash.                           *)
(*                                                                         *)
(* Stored times are only compared with the present, so a row keeps what is *)
(* left: wait until available_at, lease until lease_expires_at.            *)
(***************************************************************************)
EXTENDS Naturals

CONSTANTS
  EventId,       \* ids of outbox_events rows
  Process,       \* starts of the server
  NoId,          \* SQL NULL
  MaxAttempts,   \* max_attempts of every event
  LeaseDuration  \* in seconds, like all times here

ASSUME OutboxAssumption ==
  /\ NoId \notin EventId \cup Process
  /\ MaxAttempts \in Nat \ {0}
  /\ LeaseDuration \in Nat \ {0}

VARIABLES
  event,       \* outbox_events rows by id
  dispatcher,  \* the dispatcher of each process
  accepted     \* requests, as <<event, attempt>>, that the receiver has accepted

vars == <<event, dispatcher, accepted>>

-----------------------------------------------------------------------------

JobStatus == {"pending", "running", "succeeded", "retry", "failed"}

OutboxRow == [status : JobStatus \cup {"absent"}, attempts : Nat, wait : Nat,
              owner : Process \cup {NoId}, lease : 0..LeaseDuration]

\* attempt is the one the claimed row was loaded with; sent is what Send returned.
DispatcherState == [mode : {"new", "up", "stopping", "gone"}, event : EventId \cup {NoId},
                    attempt : Nat, sent : {"none", "ok", "error"}]

NoEvent == [status |-> "absent", attempts |-> 0, wait |-> 0, owner |-> NoId, lease |-> 0]

\* A dispatcher between two events.
Polling(mode) == [mode |-> mode, event |-> NoId, attempt |-> 0, sent |-> "none"]

Init ==
  /\ event = [e \in EventId |-> NoEvent]
  /\ dispatcher = [p \in Process |-> Polling("new")]
  /\ accepted = {}

Request(p) == <<dispatcher[p].event, dispatcher[p].attempt>>

\* A mistake: an expired lease lets a second dispatcher in while the first is sending.
ClaimableMutant(e) ==
  /\ event[e].status \in {"pending", "running", "retry"}
  /\ event[e].wait = 0
  /\ event[e].owner = NoId \/ event[e].lease = 0

\* A mistake: an event is tried once.
ClaimableOnce(e) ==
  /\ event[e].status = "pending"
  /\ event[e].wait = 0

\* The rows ClaimOutbox selects.
Claimable(e) ==
  /\ event[e].status \in {"pending", "retry"}
  /\ event[e].wait = 0
  /\ event[e].owner = NoId \/ event[e].lease = 0

\* The WHERE clause of both statements of FinishOutbox.
LeaseValid(p, e) ==
  event[e].status = "running" /\ event[e].owner = p /\ event[e].lease > 0

\* A mistake: the boundary is off by one.
LastAttemptMutant(n) == n > MaxAttempts

\* Whether an error is final.
LastAttempt(n) == n >= MaxAttempts

\* Seconds until the next attempt: 2^(n-1), with n held between 1 and 8.
Backoff(n) ==
  <<1, 2, 4, 8, 16, 32, 64, 128>>[IF n < 1 THEN 1 ELSE IF n > 8 THEN 8 ELSE n]

-----------------------------------------------------------------------------
(* The rows.                                                               *)

\* An incident is opened, and its event is inserted in the same transaction.
Enqueue(e) ==
  /\ event[e].status = "absent"
  /\ event' = [event EXCEPT ![e].status = "pending"]
  /\ UNCHANGED <<dispatcher, accepted>>

\* Process p gets the row and starts to send it.  The order of the queue is left open,
\* since no property depends on it.
ClaimOutbox(p, e) ==
  /\ dispatcher[p].mode = "up"
  /\ dispatcher[p].event = NoId
  /\ Claimable(e)
  /\ event' = [event EXCEPT ![e] = [@ EXCEPT !.status = "running", !.owner = p,
                                             !.lease = LeaseDuration,
                                             !.attempts = event[e].attempts + 1]]
  /\ dispatcher' = [dispatcher EXCEPT ![p] =
       [@ EXCEPT !.event = e, !.attempt = event[e].attempts + 1]]
  /\ UNCHANGED accepted

\* A mistake: any answer is taken for an acceptance.
SendReturnsMutant(p, sent) ==
  /\ dispatcher[p].mode \in {"up", "stopping"}
  /\ dispatcher[p].event # NoId /\ dispatcher[p].sent = "none"
  /\ dispatcher' = [dispatcher EXCEPT ![p].sent = sent]
  /\ UNCHANGED <<event, accepted>>

\* Send returns nil only for a 2xx answer; an error may be a lost answer, the client's
\* timeout, another status, or the cancelled context of a process that stops.
SendReturns(p, sent) ==
  /\ dispatcher[p].mode \in {"up", "stopping"}
  /\ dispatcher[p].event # NoId /\ dispatcher[p].sent = "none"
  /\ sent = "ok" => Request(p) \in accepted
  /\ dispatcher' = [dispatcher EXCEPT ![p].sent = sent]
  /\ UNCHANGED <<event, accepted>>

\* A mistake: the columns of the lease are left alone.
ReleasedMutant(e, status, wait) ==
  event' = [event EXCEPT ![e] = [@ EXCEPT !.status = status, !.wait = wait]]

\* The row after its lease has been given up.
Released(e, status, wait) ==
  event' = [event EXCEPT ![e] = [@ EXCEPT !.status = status, !.wait = wait,
                                          !.owner = NoId, !.lease = 0]]

\* dispatchOne returns: with or without a write, the dispatcher looks for another event.
DispatchOneReturns(p) ==
  /\ dispatcher' = [dispatcher EXCEPT ![p] = Polling(@.mode)]
  /\ UNCHANGED accepted

\* FinishOutbox runs under WithoutCancel, so it writes in a process that stops as well.
\* Nothing but a claim changes the attempts, and nobody claims a running row, so reading
\* them and the UPDATE are one step.
Succeed(p) ==
  LET e == dispatcher[p].event IN
  /\ dispatcher[p].mode \in {"up", "stopping"} /\ dispatcher[p].sent = "ok"
  /\ LeaseValid(p, e)
  /\ Released(e, "succeeded", event[e].wait)
  /\ DispatchOneReturns(p)

RetryLater(p) ==
  LET e == dispatcher[p].event IN
  /\ dispatcher[p].mode \in {"up", "stopping"} /\ dispatcher[p].sent = "error"
  /\ ~LastAttempt(event[e].attempts)
  /\ LeaseValid(p, e)
  /\ Released(e, "retry", Backoff(event[e].attempts))
  /\ DispatchOneReturns(p)

GiveUp(p) ==
  LET e == dispatcher[p].event IN
  /\ dispatcher[p].mode \in {"up", "stopping"} /\ dispatcher[p].sent = "error"
  /\ LastAttempt(event[e].attempts)
  /\ LeaseValid(p, e)
  /\ Released(e, "failed", 0)
  /\ DispatchOneReturns(p)

FinishOutbox(p) == Succeed(p) \/ RetryLater(p) \/ GiveUp(p)

\* The lease has expired: no row is changed (ErrLeaseLost), and the error is only logged.
LeaseLost(p) ==
  /\ dispatcher[p].mode \in {"up", "stopping"} /\ dispatcher[p].sent # "none"
  /\ ~LeaseValid(p, dispatcher[p].event)
  /\ DispatchOneReturns(p)
  /\ UNCHANGED event

\* The statement fails: SQLITE_BUSY, an I/O error, its timeout of two seconds.
StatementFails(p) ==
  /\ dispatcher[p].mode \in {"up", "stopping"} /\ dispatcher[p].sent # "none"
  /\ DispatchOneReturns(p)
  /\ UNCHANGED event

-----------------------------------------------------------------------------
(* The network and the receiver, the processes, and time.                  *)

\* The receiver accepts a request: before, while or long after its sender waits for the
\* answer.  A request that is lost, refused or never written is one that does not arrive;
\* one that arrives twice changes nothing more.
Arrive(e, n) ==
  /\ n \in 1..event[e].attempts /\ <<e, n>> \notin accepted
  /\ accepted' = accepted \cup {<<e, n>>}
  /\ UNCHANGED <<event, dispatcher>>

Start(p) ==
  /\ dispatcher[p].mode = "new"
  /\ dispatcher' = [dispatcher EXCEPT ![p].mode = "up"]
  /\ UNCHANGED <<event, accepted>>

Stop(p) ==
  /\ dispatcher[p].mode = "up"
  /\ dispatcher' = [dispatcher EXCEPT ![p].mode = "stopping"]
  /\ UNCHANGED <<event, accepted>>

\* Run returns once dispatchOne has.
Exit(p) ==
  /\ dispatcher[p].mode = "stopping" /\ dispatcher[p].event = NoId
  /\ dispatcher' = [dispatcher EXCEPT ![p] = Polling("gone")]
  /\ UNCHANGED <<event, accepted>>

Crash(p) ==
  /\ dispatcher[p].mode \in {"up", "stopping"}
  /\ dispatcher' = [dispatcher EXCEPT ![p] = Polling("gone")]
  /\ UNCHANGED <<event, accepted>>

Earlier(n) == IF n = 0 THEN 0 ELSE n - 1

\* A second passes.
Tick ==
  /\ \E e \in EventId : event[e].wait > 0 \/ event[e].lease > 0
  /\ event' = [e \in EventId |-> [event[e] EXCEPT !.wait = Earlier(@), !.lease = Earlier(@)]]
  /\ UNCHANGED <<dispatcher, accepted>>

\* What a dispatcher does by itself.
Work(p) ==
  \/ \E e \in EventId : ClaimOutbox(p, e)
  \/ \E sent \in {"ok", "error"} : SendReturns(p, sent)
  \/ FinishOutbox(p)
  \/ LeaseLost(p)
  \/ Exit(p)

Next ==
  \/ \E e \in EventId : Enqueue(e) \/ \E n \in 1..MaxAttempts : Arrive(e, n)
  \/ \E p \in Process : Work(p) \/ StatementFails(p) \/ Start(p) \/ Stop(p) \/ Crash(p)
  \/ Tick

Spec == Init /\ [][Next]_vars

\* A dispatcher polls as long as it runs, Send and FinishOutbox have timeouts, and time
\* passes.  The receiver and the network owe nothing.
Fairness == WF_vars(Tick) /\ \A p \in Process : WF_vars(Work(p))

FairSpec == Spec /\ Fairness

-----------------------------------------------------------------------------
(* Properties.                                                             *)

\* Rows, dispatchers and requests are well typed, and exactly the running rows have an
\* owner (FinishOutbox clears status and lease together).
TypeOK ==
  /\ event \in [EventId -> OutboxRow]
  /\ dispatcher \in [Process -> DispatcherState]
  /\ accepted \subseteq EventId \X Nat
  /\ \A e \in EventId : event[e].owner # NoId <=> event[e].status = "running"

\* An event that a dispatcher is sending is running in its name with the attempt it
\* loaded, expired lease or not: no event is sent by two dispatchers at a time
\* (ClaimOutbox against dispatchOne of another process).
OneSender ==
  \A p \in Process : dispatcher[p].event # NoId =>
    LET row == event[dispatcher[p].event] IN
    /\ row.status = "running"
    /\ row.owner = p
    /\ row.attempts = dispatcher[p].attempt

\* An event is tried at most max_attempts times, through crashes and shutdowns too, and it
\* fails at the last attempt and no earlier (ClaimOutbox counts, FinishOutbox compares).
AttemptsCounted ==
  \A e \in EventId :
    /\ event[e].attempts <= MaxAttempts
    /\ event[e].status = "failed" => event[e].attempts = MaxAttempts
    /\ event[e].status \in {"pending", "retry"} => event[e].attempts < MaxAttempts

Settled(e) == event[e].status \in {"succeeded", "failed"}

\* A settled event stays as it is, whatever late answers and late dispatchers do.
SettledOnce == [][\A e \in EventId : Settled(e) => event'[e] = event[e]]_vars

\* Running, with no dispatcher at work on it.
Stranded(e) == event[e].status = "running" /\ \A p \in Process : dispatcher[p].event # e

Served == \E p \in Process : <>[](dispatcher[p].mode = "up")

\* While some process stays up, an event is settled through any number of lost requests,
\* retries, waits and restarts, unless its dispatcher is lost with it or cannot write, as
\* the lease expired or the statement failed, and it is left running
\* (dispatchOne, FinishOutbox and ClaimOutbox together).
EventuallySettled ==
  Served => \A e \in EventId : (event[e].status # "absent") ~> (Settled(e) \/ Stranded(e))

-----------------------------------------------------------------------------
(* What the outbox promises.                                               *)

DeliveryState(e) ==
  IF event[e].status \in {"absent", "succeeded", "failed"} THEN event[e].status ELSE "open"

D == INSTANCE Delivery WITH state <- [e \in EventId |-> DeliveryState(e)],
                            seen <- {r[1] : r \in accepted}

\* The outbox delivers at least once: what it calls succeeded the receiver has accepted,
\* a request exists only for an event that was posted, and what is settled stays so.
ImplementsDelivery == D!Spec
=============================================================================
