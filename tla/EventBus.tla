------------------------------ MODULE EventBus ------------------------------
(***************************************************************************)
(* The in-process event bus of HeritageGuard, for one topic: subscriptions *)
(* with a channel of bounded capacity, and publishers that hand an event   *)
(* to one subscriber after the other and wait for room.  Publishers,       *)
(* subscribers and the one that closes the bus are goroutines; the lock    *)
(* covers the map of subscribers and the flag closed, and nothing is sent  *)
(* while it is held.                                                       *)
(*                                                                         *)
(* Events carry nothing here: a queue is its length.                       *)
(***************************************************************************)
EXTENDS Naturals

CONSTANTS
  Sub,        \* subscriptions
  Publisher,  \* goroutines that publish
  NoSub,
  Capacity    \* of every channel

ASSUME EventBusAssumption ==
  /\ NoSub \notin Sub
  /\ Capacity \in Nat \ {0}

VARIABLES
  closed,     \* the bus is closed
  sub,        \* the state of each subscription
  queued,     \* events in the channel of each subscription
  publisher   \* what each publisher is doing

busVars == <<closed, sub, queued, publisher>>

-----------------------------------------------------------------------------

\* "open" is in the map; "closing" is out of it, with done still to be closed.
SubState == {"new", "open", "closing", "closed"}

\* targets is the snapshot, left what remains of it, at whom the publisher waits for;
\* given, who got the event of this call (not in the program).
PublisherState == [step : {"idle", "sending"}, result : {"none", "ok", "error"},
                   targets : SUBSET Sub, left : SUBSET Sub, at : Sub \cup {NoSub},
                   given : SUBSET Sub]

Quiet == [step |-> "idle", result |-> "none", targets |-> {}, left |-> {},
          at |-> NoSub, given |-> {}]

BusInit ==
  /\ closed = FALSE
  /\ sub = [s \in Sub |-> "new"]
  /\ queued = [s \in Sub |-> 0]
  /\ publisher = [p \in Publisher |-> Quiet]

SetPublisher(p, value) ==
  /\ publisher' = [publisher EXCEPT ![p] = value]
  /\ UNCHANGED <<closed, sub>>

-----------------------------------------------------------------------------
(* Publish.                                                                *)

\* The snapshot is taken under the lock.  The caller's context has not been cancelled; a
\* closed bus returns an error and nothing happens.
Publish(p) ==
  /\ publisher[p].step = "idle" /\ ~closed
  /\ LET open == {s \in Sub : sub[s] = "open"} IN
     SetPublisher(p, [Quiet EXCEPT !.step = "sending", !.targets = open, !.left = open])
  /\ UNCHANGED queued

\* The loop turns to its next target.  The order is that of a Go map: any.
Turn(p, s) ==
  /\ publisher[p].step = "sending" /\ publisher[p].at = NoSub /\ s \in publisher[p].left
  /\ SetPublisher(p, [publisher[p] EXCEPT !.at = s, !.left = @ \ {s}])
  /\ UNCHANGED queued

\* A mistake: the channel is taken to have room.
SendUnbounded(p) ==
  LET s == publisher[p].at IN
  /\ s # NoSub
  /\ queued' = [queued EXCEPT ![s] = @ + 1]
  /\ SetPublisher(p, [publisher[p] EXCEPT !.at = NoSub, !.given = @ \cup {s}])

\* A mistake: the select has a default, and an event without room is dropped.
SendMutant(p) ==
  LET s == publisher[p].at IN
  /\ s # NoSub
  /\ IF queued[s] < Capacity
     THEN /\ queued' = [queued EXCEPT ![s] = @ + 1]
          /\ SetPublisher(p, [publisher[p] EXCEPT !.at = NoSub, !.given = @ \cup {s}])
     ELSE /\ SetPublisher(p, [publisher[p] EXCEPT !.at = NoSub])
          /\ UNCHANGED queued

\* The channel has room; done may be closed already, for select takes either case.
Send(p) ==
  LET s == publisher[p].at IN
  /\ s # NoSub /\ queued[s] < Capacity
  /\ queued' = [queued EXCEPT ![s] = @ + 1]
  /\ SetPublisher(p, [publisher[p] EXCEPT !.at = NoSub, !.given = @ \cup {s}])

\* The subscription is gone.
Skip(p) ==
  LET s == publisher[p].at IN
  /\ s # NoSub /\ sub[s] = "closed"
  /\ SetPublisher(p, [publisher[p] EXCEPT !.at = NoSub])
  /\ UNCHANGED queued

\* A mistake: a cancelled publisher goes on waiting while the subscription is there.
AbortMutant(p, cancelled) ==
  /\ cancelled /\ publisher[p].at # NoSub /\ sub[publisher[p].at] = "closed"
  /\ SetPublisher(p, [publisher[p] EXCEPT !.step = "idle", !.result = "error", !.at = NoSub])
  /\ UNCHANGED queued

\* The context is cancelled while the publisher waits: the other targets get nothing.
Abort(p, cancelled) ==
  /\ cancelled /\ publisher[p].at # NoSub
  /\ SetPublisher(p, [publisher[p] EXCEPT !.step = "idle", !.result = "error", !.at = NoSub])
  /\ UNCHANGED queued

PublishReturns(p) ==
  /\ publisher[p].step = "sending" /\ publisher[p].at = NoSub /\ publisher[p].left = {}
  /\ SetPublisher(p, [publisher[p] EXCEPT !.step = "idle", !.result = "ok"])
  /\ UNCHANGED queued

\* What a publisher does by itself.
Advance(p, cancelled) ==
  \/ \E s \in Sub : Turn(p, s)
  \/ Send(p) \/ Skip(p) \/ Abort(p, cancelled) \/ PublishReturns(p)

-----------------------------------------------------------------------------
(* Subscriptions.                                                          *)

Subscribe(s) ==
  /\ sub[s] = "new" /\ ~closed
  /\ sub' = [sub EXCEPT ![s] = "open"]
  /\ UNCHANGED <<closed, queued, publisher>>

Receive(s) ==
  /\ queued[s] > 0
  /\ queued' = [queued EXCEPT ![s] = @ - 1]
  /\ UNCHANGED <<closed, sub, publisher>>

\* The subscription is taken out of the map, and its done is closed after the unlock.
Unsubscribe(s) ==
  /\ sub[s] = "open"
  /\ sub' = [sub EXCEPT ![s] = "closing"]
  /\ UNCHANGED <<closed, queued, publisher>>

CloseDone(s) ==
  /\ sub[s] = "closing"
  /\ sub' = [sub EXCEPT ![s] = "closed"]
  /\ UNCHANGED <<closed, queued, publisher>>

\* Close: the map is emptied under the lock, and every done is closed after it.
CloseBus ==
  /\ closed' = TRUE
  /\ sub' = [s \in Sub |-> IF sub[s] = "open" THEN "closing" ELSE sub[s]]
  /\ UNCHANGED <<queued, publisher>>

-----------------------------------------------------------------------------
(* Properties.                                                             *)

\* The channels hold no more than their capacity, and a publisher waits for a subscription
\* only while it sends.
BusTypeOK ==
  /\ closed \in BOOLEAN
  /\ sub \in [Sub -> SubState]
  /\ queued \in [Sub -> 0..Capacity]
  /\ publisher \in [Publisher -> PublisherState]
  /\ \A p \in Publisher : publisher[p].at # NoSub => publisher[p].step = "sending"

\* A call of Publish that returned no error has given the event to every subscription
\* that was open when it began, but for those that were closed meanwhile: a full channel
\* delays an event and never drops it (the three cases of the select).
NoneLeftOut ==
  \A p \in Publisher : publisher[p].result = "ok" =>
    \A s \in publisher[p].targets : s \in publisher[p].given \/ sub[s] = "closed"
=============================================================================
