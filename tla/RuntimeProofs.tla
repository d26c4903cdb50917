---------------------------- MODULE RuntimeProofs ----------------------------
(***************************************************************************)
(* The runtime and its event bus: types, what a call of Publish that       *)
(* succeeded has done, and the order of the shutdown.                      *)
(***************************************************************************)
EXTENDS Runtime, TLAPS

\* While it sends, a publisher has every target behind it, with it, or ahead of it, but
\* for those that were closed; one that is not sending waits for nobody.
Sending ==
  \A p \in Publisher :
    publisher[p].step = "sending" =>
      /\ publisher[p].result = "none"
      /\ \A s \in publisher[p].targets :
           \/ s \in publisher[p].given \/ s \in publisher[p].left
           \/ s = publisher[p].at \/ sub[s] = "closed"

\* What each step of Run knows of the components, the requests and the bus.
RunOrder ==
  /\ run = "new" => /\ \A c \in Component : component[c] \in {"new", "absent"}
                    /\ ~Busy
  /\ run \in {"waiting", "closing", "returned"} => (Busy => timedOut)
  /\ run \in {"closing", "returned"} =>
       \A c \in Component : component[c] # "running" /\ component[c] # "failing"
  /\ closed \/ store = "closed" => run \in {"closing", "returned"}
  /\ publisher[Worker].step # "idle" => component[Worker] = "running"

IInv == TypeOK /\ Sending /\ NoneLeftOut /\ RunOrder

-----------------------------------------------------------------------------
(* What the steps of a publisher do to its record.                         *)

LEMMA QuietType ==
  /\ Quiet \in PublisherState
  /\ Quiet.step = "idle" /\ Quiet.result = "none" /\ Quiet.at = NoSub
BY DEF Quiet, PublisherState

LEMMA Publishers == Worker \in Publisher /\ Worker \in Component
BY RuntimeAssumption DEF Component, Worker

LEMMA SetFields ==
  ASSUME BusTypeOK, NEW p \in Publisher, NEW k \in PublisherState, SetPublisher(p, k)
  PROVE  /\ publisher' \in [Publisher -> PublisherState] /\ publisher'[p] = k
         /\ \A q \in Publisher \ {p} : publisher'[q] = publisher[q]
         /\ closed' = closed /\ sub' = sub
BY DEF SetPublisher, BusTypeOK

LEMMA PublishFields ==
  ASSUME BusTypeOK, NEW p \in Publisher, Publish(p)
  PROVE  /\ publisher' \in [Publisher -> PublisherState]
         /\ publisher'[p].step = "sending" /\ publisher'[p].result = "none"
         /\ publisher'[p].targets = publisher'[p].left /\ publisher'[p].at = NoSub
         /\ \A q \in Publisher \ {p} : publisher'[q] = publisher[q]
         /\ closed' = closed /\ sub' = sub /\ queued' = queued /\ ~closed
<1> DEFINE open == {s \in Sub : sub[s] = "open"}
           k == [Quiet EXCEPT !.step = "sending", !.targets = open, !.left = open]
<1>1. SetPublisher(p, k) /\ queued' = queued /\ ~closed
  BY DEF Publish
<1>2. open \in SUBSET Sub
  OBVIOUS
<1> HIDE DEF open
<1>3. k \in PublisherState /\ k.step = "sending" /\ k.result = "none"
      /\ k.targets = k.left /\ k.at = NoSub
  BY <1>2 DEF Quiet, PublisherState
<1> HIDE DEF k
<1> QED BY <1>1, <1>3, SetFields

LEMMA TurnFields ==
  ASSUME BusTypeOK, NEW p \in Publisher, NEW s \in Sub, Turn(p, s)
  PROVE  /\ publisher' \in [Publisher -> PublisherState]
         /\ publisher[p].step = "sending" /\ publisher'[p].step = "sending"
         /\ publisher'[p].result = publisher[p].result
         /\ publisher'[p].targets = publisher[p].targets
         /\ publisher'[p].given = publisher[p].given
         /\ publisher'[p].left = publisher[p].left \ {s} /\ publisher'[p].at = s
         /\ publisher[p].at = NoSub
         /\ \A q \in Publisher \ {p} : publisher'[q] = publisher[q]
         /\ closed' = closed /\ sub' = sub /\ queued' = queued
<1> DEFINE k == [publisher[p] EXCEPT !.at = s, !.left = publisher[p].left \ {s}]
<1>1. SetPublisher(p, k) /\ queued' = queued /\ publisher[p].step = "sending"
      /\ publisher[p].at = NoSub
  BY DEF Turn
<1>2. publisher[p] \in PublisherState
  BY DEF BusTypeOK
<1>3. k \in PublisherState /\ k.step = publisher[p].step /\ k.result = publisher[p].result
      /\ k.targets = publisher[p].targets /\ k.given = publisher[p].given
      /\ k.left = publisher[p].left \ {s} /\ k.at = s
  BY <1>2 DEF PublisherState
<1> HIDE DEF k
<1> QED BY <1>1, <1>3, SetFields

\* Whoever waits for a subscription is sending.
LEMMA Waits ==
  ASSUME BusTypeOK, NEW p \in Publisher, publisher[p].at # NoSub
  PROVE  /\ publisher[p].step = "sending" /\ publisher[p].at \in Sub
         /\ publisher[p] \in PublisherState
<1>1. publisher[p] \in PublisherState
  BY DEF BusTypeOK
<1> QED BY <1>1 DEF BusTypeOK, PublisherState

LEMMA SendFields ==
  ASSUME BusTypeOK, NEW p \in Publisher, Send(p)
  PROVE  /\ publisher' \in [Publisher -> PublisherState]
         /\ publisher[p].step = "sending" /\ publisher'[p].step = "sending"
         /\ publisher'[p].result = publisher[p].result
         /\ publisher'[p].targets = publisher[p].targets
         /\ publisher'[p].given = publisher[p].given \cup {publisher[p].at}
         /\ publisher'[p].left = publisher[p].left /\ publisher'[p].at = NoSub
         /\ \A q \in Publisher \ {p} : publisher'[q] = publisher[q]
         /\ closed' = closed /\ sub' = sub /\ queued' \in [Sub -> 0..Capacity]
<1> DEFINE s == publisher[p].at
           k == [publisher[p] EXCEPT !.at = NoSub, !.given = publisher[p].given \cup {s}]
<1>1. SetPublisher(p, k) /\ s # NoSub /\ queued[s] < Capacity
      /\ queued' = [queued EXCEPT ![s] = queued[s] + 1]
  BY DEF Send
<1>2. publisher[p] \in PublisherState /\ s \in Sub /\ publisher[p].step = "sending"
  BY <1>1, Waits
<1>3. k \in PublisherState /\ k.step = publisher[p].step /\ k.result = publisher[p].result
      /\ k.targets = publisher[p].targets /\ k.given = publisher[p].given \cup {s}
      /\ k.left = publisher[p].left /\ k.at = NoSub
  BY <1>2 DEF PublisherState
<1> HIDE DEF k
<1>4. queued' \in [Sub -> 0..Capacity]
  <2>1. queued \in [Sub -> 0..Capacity] /\ Capacity \in Nat
    BY EventBusAssumption DEF BusTypeOK
  <2> HIDE DEF s
  <2>2. queued[s] + 1 \in 0..Capacity
    BY <1>1, <1>2, <2>1
  <2> QED BY <1>1, <2>1, <2>2
<1> QED BY <1>1, <1>2, <1>3, <1>4, SetFields

LEMMA SkipFields ==
  ASSUME BusTypeOK, NEW p \in Publisher, Skip(p)
  PROVE  /\ publisher' \in [Publisher -> PublisherState]
         /\ publisher[p].step = "sending" /\ publisher'[p].step = "sending"
         /\ publisher'[p].result = publisher[p].result
         /\ publisher'[p].targets = publisher[p].targets
         /\ publisher'[p].given = publisher[p].given
         /\ publisher'[p].left = publisher[p].left /\ publisher'[p].at = NoSub
         /\ sub[publisher[p].at] = "closed"
         /\ \A q \in Publisher \ {p} : publisher'[q] = publisher[q]
         /\ closed' = closed /\ sub' = sub /\ queued' = queued
<1> DEFINE k == [publisher[p] EXCEPT !.at = NoSub]
<1>1. SetPublisher(p, k) /\ queued' = queued /\ publisher[p].at # NoSub
      /\ sub[publisher[p].at] = "closed"
  BY DEF Skip
<1>2. publisher[p] \in PublisherState /\ publisher[p].step = "sending"
  BY <1>1, Waits
<1>3. k \in PublisherState /\ k.step = publisher[p].step /\ k.result = publisher[p].result
      /\ k.targets = publisher[p].targets /\ k.given = publisher[p].given
      /\ k.left = publisher[p].left /\ k.at = NoSub
  BY <1>2 DEF PublisherState
<1> HIDE DEF k
<1> QED BY <1>1, <1>2, <1>3, SetFields

\* The two ways in which a call of Publish ends.
LEMMA EndFields ==
  ASSUME BusTypeOK, NEW p \in Publisher, NEW cancelled,
         Abort(p, cancelled) \/ PublishReturns(p)
  PROVE  /\ publisher' \in [Publisher -> PublisherState]
         /\ publisher[p].step = "sending" /\ publisher'[p].step = "idle"
         /\ publisher'[p].at = NoSub
         /\ publisher'[p].targets = publisher[p].targets
         /\ publisher'[p].given = publisher[p].given
         /\ publisher'[p].result = "ok" => publisher[p].at = NoSub /\ publisher[p].left = {}
         /\ \A q \in Publisher \ {p} : publisher'[q] = publisher[q]
         /\ closed' = closed /\ sub' = sub /\ queued' = queued
<1>1. publisher[p] \in PublisherState
  BY DEF BusTypeOK
<1>2. CASE Abort(p, cancelled)
  <2> DEFINE k == [publisher[p] EXCEPT !.step = "idle", !.result = "error", !.at = NoSub]
  <2>1. SetPublisher(p, k) /\ queued' = queued /\ publisher[p].at # NoSub
    BY <1>2 DEF Abort
  <2>2. publisher[p].step = "sending"
    BY <2>1, Waits
  <2>3. k \in PublisherState /\ k.step = "idle" /\ k.result = "error" /\ k.at = NoSub
        /\ k.targets = publisher[p].targets /\ k.given = publisher[p].given
    BY <1>1 DEF PublisherState
  <2> HIDE DEF k
  <2> QED BY <2>1, <2>2, <2>3, SetFields
<1>3. CASE PublishReturns(p)
  <2> DEFINE k == [publisher[p] EXCEPT !.step = "idle", !.result = "ok"]
  <2>1. SetPublisher(p, k) /\ queued' = queued /\ publisher[p].at = NoSub
        /\ publisher[p].left = {} /\ publisher[p].step = "sending"
    BY <1>3 DEF PublishReturns
  <2>2. k \in PublisherState /\ k.step = "idle" /\ k.result = "ok" /\ k.at = publisher[p].at
        /\ k.targets = publisher[p].targets /\ k.given = publisher[p].given
    BY <1>1 DEF PublisherState
  <2> HIDE DEF k
  <2> QED BY <2>1, <2>2, SetFields
<1> QED BY <1>2, <1>3

-----------------------------------------------------------------------------
(* The bus.                                                                *)

BusInv == BusTypeOK /\ Sending /\ NoneLeftOut

\* One publisher moves, its record keeping what it promises; the subscriptions stay.
LEMMA OnePublisher ==
  ASSUME BusInv, NEW p \in Publisher,
         publisher' \in [Publisher -> PublisherState],
         \A q \in Publisher \ {p} : publisher'[q] = publisher[q],
         closed' = closed, sub' = sub, queued' \in [Sub -> 0..Capacity],
         publisher'[p].at # NoSub => publisher'[p].step = "sending",
         publisher'[p].step = "sending" =>
           /\ publisher'[p].result = "none"
           /\ \A s \in publisher'[p].targets :
                \/ s \in publisher'[p].given \/ s \in publisher'[p].left
                \/ s = publisher'[p].at \/ sub[s] = "closed",
         publisher'[p].result = "ok" =>
           \A s \in publisher'[p].targets : s \in publisher'[p].given \/ sub[s] = "closed"
  PROVE  BusInv'
<1>1. BusTypeOK'
  BY DEF BusInv, BusTypeOK
<1>2. Sending'
  BY DEF BusInv, Sending
<1>3. NoneLeftOut'
  BY DEF BusInv, NoneLeftOut
<1> QED BY <1>1, <1>2, <1>3 DEF BusInv

\* The publishers stay, and a subscription that was closed stays closed.
LEMMA NoPublisher ==
  ASSUME BusInv, publisher' = publisher, closed' \in BOOLEAN, sub' \in [Sub -> SubState],
         queued' \in [Sub -> 0..Capacity],
         \A s \in Sub : sub[s] = "closed" => sub'[s] = "closed"
  PROVE  BusInv'
<1>1. \A p \in Publisher : publisher[p].targets \subseteq Sub
  BY DEF BusInv, BusTypeOK, PublisherState
<1>2. BusTypeOK'
  BY DEF BusInv, BusTypeOK
<1>3. Sending'
  BY <1>1 DEF BusInv, Sending
<1>4. NoneLeftOut'
  BY <1>1 DEF BusInv, NoneLeftOut
<1> QED BY <1>2, <1>3, <1>4 DEF BusInv

LEMMA PublisherStep ==
  ASSUME BusInv, NEW p \in Publisher, NEW cancelled,
         Publish(p) \/ Advance(p, cancelled)
  PROVE  BusInv'
<1>0. /\ BusTypeOK /\ Sending /\ NoneLeftOut
      /\ queued \in [Sub -> 0..Capacity]
  BY DEF BusInv, BusTypeOK
<1>1. CASE Publish(p)
  BY <1>0, <1>1, PublishFields, OnePublisher
<1>2. ASSUME NEW s \in Sub, Turn(p, s) PROVE BusInv'
  <2>1. /\ publisher' \in [Publisher -> PublisherState]
        /\ publisher[p].step = "sending" /\ publisher'[p].step = "sending"
        /\ publisher'[p].result = publisher[p].result
        /\ publisher'[p].targets = publisher[p].targets
        /\ publisher'[p].given = publisher[p].given
        /\ publisher'[p].left = publisher[p].left \ {s} /\ publisher'[p].at = s
        /\ publisher[p].at = NoSub
        /\ \A q \in Publisher \ {p} : publisher'[q] = publisher[q]
        /\ closed' = closed /\ sub' = sub /\ queued' = queued
    BY <1>0, <1>2, TurnFields
  <2>2. /\ publisher[p].targets \subseteq Sub /\ publisher[p].result = "none"
        /\ \A t \in publisher[p].targets :
             \/ t \in publisher[p].given \/ t \in publisher[p].left
             \/ t = publisher[p].at \/ sub[t] = "closed"
    BY <1>0, <2>1 DEF Sending, BusTypeOK, PublisherState
  <2>3. \A t \in publisher'[p].targets :
          \/ t \in publisher'[p].given \/ t \in publisher'[p].left
          \/ t = publisher'[p].at \/ sub[t] = "closed"
    BY <2>1, <2>2, EventBusAssumption
  <2> QED BY <1>0, <2>1, <2>2, <2>3, OnePublisher
<1>3. CASE Send(p)
  <2>1. /\ publisher' \in [Publisher -> PublisherState]
        /\ publisher[p].step = "sending" /\ publisher'[p].step = "sending"
        /\ publisher'[p].result = publisher[p].result
        /\ publisher'[p].targets = publisher[p].targets
        /\ publisher'[p].given = publisher[p].given \cup {publisher[p].at}
        /\ publisher'[p].left = publisher[p].left /\ publisher'[p].at = NoSub
        /\ \A q \in Publisher \ {p} : publisher'[q] = publisher[q]
        /\ closed' = closed /\ sub' = sub /\ queued' \in [Sub -> 0..Capacity]
    BY <1>0, <1>3, SendFields
  <2>2. /\ publisher[p].result = "none"
        /\ \A t \in publisher[p].targets :
             \/ t \in publisher[p].given \/ t \in publisher[p].left
             \/ t = publisher[p].at \/ sub[t] = "closed"
    BY <1>0, <2>1 DEF Sending
  <2>3. \A t \in publisher'[p].targets :
          \/ t \in publisher'[p].given \/ t \in publisher'[p].left
          \/ t = publisher'[p].at \/ sub[t] = "closed"
    BY <2>1, <2>2
  <2> QED BY <1>0, <2>1, <2>2, <2>3, OnePublisher
<1>4. CASE Skip(p)
  <2>1. /\ publisher' \in [Publisher -> PublisherState]
        /\ publisher[p].step = "sending" /\ publisher'[p].step = "sending"
        /\ publisher'[p].result = publisher[p].result
        /\ publisher'[p].targets = publisher[p].targets
        /\ publisher'[p].given = publisher[p].given
        /\ publisher'[p].left = publisher[p].left /\ publisher'[p].at = NoSub
        /\ sub[publisher[p].at] = "closed"
        /\ \A q \in Publisher \ {p} : publisher'[q] = publisher[q]
        /\ closed' = closed /\ sub' = sub /\ queued' = queued
    BY <1>0, <1>4, SkipFields
  <2>2. /\ publisher[p].result = "none"
        /\ \A t \in publisher[p].targets :
             \/ t \in publisher[p].given \/ t \in publisher[p].left
             \/ t = publisher[p].at \/ sub[t] = "closed"
    BY <1>0, <2>1 DEF Sending
  <2>3. \A t \in publisher'[p].targets :
          \/ t \in publisher'[p].given \/ t \in publisher'[p].left
          \/ t = publisher'[p].at \/ sub[t] = "closed"
    BY <2>1, <2>2
  <2> QED BY <1>0, <2>1, <2>2, <2>3, OnePublisher
<1>5. CASE Abort(p, cancelled) \/ PublishReturns(p)
  <2>1. /\ publisher' \in [Publisher -> PublisherState]
        /\ publisher[p].step = "sending" /\ publisher'[p].step = "idle"
        /\ publisher'[p].at = NoSub
        /\ publisher'[p].targets = publisher[p].targets
        /\ publisher'[p].given = publisher[p].given
        /\ publisher'[p].result = "ok" => publisher[p].at = NoSub /\ publisher[p].left = {}
        /\ \A q \in Publisher \ {p} : publisher'[q] = publisher[q]
        /\ closed' = closed /\ sub' = sub /\ queued' = queued
    BY <1>0, <1>5, EndFields
  <2>2. /\ publisher[p].targets \subseteq Sub
        /\ \A t \in publisher[p].targets :
             \/ t \in publisher[p].given \/ t \in publisher[p].left
             \/ t = publisher[p].at \/ sub[t] = "closed"
    BY <1>0, <2>1 DEF Sending, BusTypeOK, PublisherState
  <2>3. publisher'[p].result = "ok" =>
          \A t \in publisher'[p].targets : t \in publisher'[p].given \/ sub[t] = "closed"
    BY <2>1, <2>2, EventBusAssumption
  <2> QED BY <1>0, <2>1, <2>3, OnePublisher
<1> QED BY <1>1, <1>2, <1>3, <1>4, <1>5 DEF Advance

\* What the owners of subscriptions do, and the end of the bus.
LEMMA SubStep ==
  ASSUME BusInv,
         \/ \E s \in Sub : Subscribe(s) \/ Receive(s) \/ Unsubscribe(s) \/ CloseDone(s)
         \/ CloseBus
  PROVE  BusInv'
<1>0. /\ closed \in BOOLEAN /\ sub \in [Sub -> SubState] /\ queued \in [Sub -> 0..Capacity]
  BY DEF BusInv, BusTypeOK
<1>1. ASSUME NEW s \in Sub, Subscribe(s) \/ Unsubscribe(s) \/ CloseDone(s) PROVE BusInv'
  <2>1. /\ publisher' = publisher /\ closed' = closed /\ queued' = queued
        /\ sub' \in [Sub -> SubState]
        /\ \A t \in Sub : sub[t] = "closed" => sub'[t] = "closed"
    BY <1>0, <1>1 DEF Subscribe, Unsubscribe, CloseDone, SubState
  <2> QED BY <1>0, <2>1, NoPublisher
<1>2. ASSUME NEW s \in Sub, Receive(s) PROVE BusInv'
  <2>1. /\ publisher' = publisher /\ closed' = closed /\ sub' = sub
        /\ queued[s] > 0 /\ queued' = [queued EXCEPT ![s] = queued[s] - 1]
    BY <1>2 DEF Receive
  <2>2. queued[s] - 1 \in 0..Capacity
    BY <1>0, <2>1, EventBusAssumption
  <2>3. queued' \in [Sub -> 0..Capacity]
    BY <1>0, <2>1, <2>2
  <2> QED BY <1>0, <2>1, <2>3, NoPublisher
<1>3. CASE CloseBus
  <2>1. /\ publisher' = publisher /\ closed' = TRUE /\ queued' = queued
        /\ sub' = [s \in Sub |-> IF sub[s] = "open" THEN "closing" ELSE sub[s]]
    BY <1>3 DEF CloseBus
  <2>2. /\ sub' \in [Sub -> SubState]
        /\ \A t \in Sub : sub[t] = "closed" => sub'[t] = "closed"
    BY <1>0, <2>1 DEF SubState
  <2> QED BY <1>0, <2>1, <2>2, NoPublisher
<1> QED BY <1>1, <1>2, <1>3

LEMMA InitBus == Init => BusInv
<1> SUFFICES ASSUME Init PROVE BusInv
  OBVIOUS
<1>1. /\ closed = FALSE /\ sub = [s \in Sub |-> "new"] /\ queued = [s \in Sub |-> 0]
      /\ publisher = [p \in Publisher |-> Quiet]
  BY DEF Init, BusInit
<1>2. 0 \in 0..Capacity
  BY EventBusAssumption
<1>3. BusTypeOK
  BY <1>1, <1>2, QuietType DEF BusTypeOK, SubState
<1>4. Sending /\ NoneLeftOut
  BY <1>1, QuietType DEF Sending, NoneLeftOut
<1> QED BY <1>3, <1>4 DEF BusInv

\* The steps of the runtime, as the bus sees them.
LEMMA BusStep == BusInv /\ [Next]_vars => BusInv'
<1> SUFFICES ASSUME BusInv, [Next]_vars PROVE BusInv'
  OBVIOUS
<1>1. ASSUME UNCHANGED busVars PROVE BusInv'
  BY <1>1 DEF busVars, BusInv, BusTypeOK, Sending, NoneLeftOut
<1>2. CASE CloseBus
  BY <1>2, SubStep
<1>3. CASE JobPublishes
  BY <1>3, Publishers, PublisherStep DEF JobPublishes
<1>4. CASE WorkerAdvances
  <2>1. PICK cancelled : Advance(Worker, cancelled)
    BY <1>4 DEF WorkerAdvances
  <2> QED BY <2>1, Publishers, PublisherStep
<1>5. ASSUME NEW s \in Sub, Subscriber(s) \/ DoneClosed(s) PROVE BusInv'
  BY <1>5, SubStep DEF Subscriber, DoneClosed
<1>6. CASE UNCHANGED vars
  BY <1>1, <1>6 DEF vars
<1>7. CASE Next
  <2>1. CASE Serve \/ ListenFails \/ Main \/ ServerFails \/ Report \/ Signal
    BY <1>1, <1>2, <2>1 DEF Serve, ListenFails, Main, Wake, Shutdown, ShutdownReturns,
       WaitReturns, CloseStore, ServerFails, Report, SetComponent, Signal
  <2>2. ASSUME NEW c \in Component, Returns(c) PROVE BusInv'
    BY <1>1, <2>2 DEF Returns, SetComponent
  <2>3. ASSUME NEW h \in Handler, Accept(h) \/ HandlerReturns(h) PROVE BusInv'
    BY <1>1, <2>3 DEF Accept, HandlerReturns
  <2> QED BY <1>3, <1>4, <1>5, <1>7, <2>1, <2>2, <2>3 DEF Next
<1> QED BY <1>6, <1>7

\* A call of Publish that returned no error has given the event to every subscription that
\* was open when it began and has not been closed: for any number of subscriptions, any
\* capacity, and whoever subscribes, leaves or closes the bus meanwhile.
THEOREM NoneLeftOutHolds == Spec => []NoneLeftOut
<1>1. BusInv => NoneLeftOut
  BY DEF BusInv
<1> QED BY <1>1, InitBus, BusStep, PTL DEF Spec

-----------------------------------------------------------------------------
(* Types.                                                                  *)

\* The types of what the runtime keeps beside the bus.
RunTypes ==
  /\ run \in RunStep
  /\ told \in BOOLEAN /\ timedOut \in BOOLEAN
  /\ component \in [Component -> ComponentState]
  /\ errors \in 0..ErrorRoom
  /\ handler \in [Handler -> {"none", "running"}]
  /\ store \in {"open", "closed"}

LEMMA Types == TypeOK <=> BusTypeOK /\ RunTypes
BY DEF TypeOK, RunTypes

LEMMA InitRunTypes == Init => RunTypes
<1> SUFFICES ASSUME Init PROVE RunTypes
  OBVIOUS
<1>1. 0 \in 0..ErrorRoom
  BY DEF ErrorRoom
<1>2. component \in [Component -> ComponentState]
  <2>1. [c \in Component |-> "new"] \in [Component -> ComponentState]
    BY DEF ComponentState
  <2>2. [[c \in Component |-> "new"] EXCEPT !["dispatcher"] = "absent"]
          \in [Component -> ComponentState]
    BY DEF ComponentState
  <2> QED BY <2>1, <2>2 DEF Init
<1> QED BY <1>1, <1>2 DEF Init, RunTypes, RunStep

\* What a component does changes its own state and, when it reports, errCh.
LEMMA ComponentStep ==
  ASSUME RunTypes, NEW c \in Component, NEW state \in ComponentState, SetComponent(c, state)
  PROVE  /\ component' \in [Component -> ComponentState] /\ component'[c] = state
         /\ \A d \in Component \ {c} : component'[d] = component[d]
         /\ UNCHANGED <<run, told, handler, timedOut, store>>
         /\ closed' = closed /\ publisher' = publisher
BY DEF SetComponent, RunTypes, busVars

\* A dispatcher is there from the beginning or never, and with it the room in errCh.
LEMMA ErrorRoomStays ==
  ASSUME RunTypes, [Next]_vars
  PROVE  ErrorRoom' = ErrorRoom
<1> SUFFICES (component'["dispatcher"] = "absent") <=> (component["dispatcher"] = "absent")
  BY DEF ErrorRoom
<1>1. "dispatcher" \in Component /\ "server" \in Component /\ "server" # "dispatcher"
  BY DEF Component
<1>2. CASE UNCHANGED component
  BY <1>2
<1>3. CASE Serve
  BY <1>1, <1>3 DEF Serve
<1>4. CASE ServerFails
  BY <1>1, <1>4 DEF ServerFails, SetComponent, RunTypes
<1>5. CASE Report
  BY <1>1, <1>5 DEF Report, SetComponent, RunTypes
<1>6. ASSUME NEW c \in Component, Returns(c)
      PROVE  (component'["dispatcher"] = "absent") <=> (component["dispatcher"] = "absent")
  <2>1. component[c] = "running" /\ component' = [component EXCEPT ![c] = "returned"]
    BY <1>6 DEF Returns, SetComponent
  <2> QED BY <1>1, <2>1 DEF RunTypes
<1>7. ASSUME ListenFails \/ Main \/ Signal \/ JobPublishes \/ WorkerAdvances
      PROVE  UNCHANGED component
  BY <1>7 DEF ListenFails, Main, Wake, Shutdown, ShutdownReturns, WaitReturns, CloseStore,
     Signal, JobPublishes, WorkerAdvances, runVars
<1>8. ASSUME NEW h \in Handler, Accept(h) \/ HandlerReturns(h) PROVE UNCHANGED component
  BY <1>8 DEF Accept, HandlerReturns
<1>9. ASSUME NEW s \in Sub, Subscriber(s) \/ DoneClosed(s) PROVE UNCHANGED component
  BY <1>9 DEF Subscriber, DoneClosed, runVars
<1> QED BY <1>2, <1>3, <1>4, <1>5, <1>6, <1>7, <1>8, <1>9 DEF Next, vars, runVars

LEMMA RunTypeStep == RunTypes /\ [Next]_vars => RunTypes'
<1> SUFFICES ASSUME RunTypes, [Next]_vars PROVE RunTypes'
  OBVIOUS
<1>a. ErrorRoom' = ErrorRoom
  BY ErrorRoomStays
<1>0. errors \in Nat /\ errors <= ErrorRoom /\ ErrorRoom \in Nat
  BY DEF RunTypes, ErrorRoom
<1>1. ASSUME UNCHANGED runVars PROVE RunTypes'
  BY <1>a, <1>1 DEF runVars, RunTypes
<1>2. CASE Serve
  <2>1. component' \in [Component -> ComponentState]
    BY <1>2 DEF Serve, ComponentState
  <2> QED BY <1>a, <1>2, <2>1 DEF Serve, RunTypes, RunStep
<1>3. CASE ListenFails
  BY <1>a, <1>3 DEF ListenFails, RunTypes, RunStep
<1>4. CASE Wake
  <2>1. errors' \in 0..ErrorRoom
    BY <1>0, <1>4 DEF Wake
  <2> QED BY <1>a, <1>4, <2>1 DEF Wake, RunTypes, RunStep
<1>5. CASE Shutdown
  BY <1>a, <1>5 DEF Shutdown, RunTypes, RunStep
<1>6. CASE ShutdownReturns
  BY <1>a, <1>6 DEF ShutdownReturns, RunTypes, RunStep, Busy
<1>7. CASE WaitReturns
  BY <1>a, <1>7 DEF WaitReturns, RunTypes, RunStep
<1>8. CASE CloseStore
  BY <1>a, <1>8 DEF CloseStore, RunTypes, RunStep
<1>9. CASE ServerFails
  <2>1. "server" \in Component /\ "failing" \in ComponentState
    BY DEF Component, ComponentState
  <2>2. SetComponent("server", "failing") /\ errors' = errors
    BY <1>9 DEF ServerFails
  <2> QED BY <1>a, <2>1, <2>2, ComponentStep DEF RunTypes
<1>10. CASE Report
  <2>1. "server" \in Component /\ "returned" \in ComponentState
    BY DEF Component, ComponentState
  <2>2. SetComponent("server", "returned") /\ errors < ErrorRoom /\ errors' = errors + 1
    BY <1>10 DEF Report
  <2>3. errors' \in 0..ErrorRoom
    BY <1>0, <2>2
  <2> QED BY <1>a, <2>1, <2>2, <2>3, ComponentStep DEF RunTypes
<1>11. ASSUME NEW c \in Component, Returns(c) PROVE RunTypes'
  <2>1. SetComponent(c, "returned") /\ errors' = errors /\ "returned" \in ComponentState
    BY <1>11 DEF Returns, ComponentState
  <2> QED BY <1>a, <2>1, ComponentStep DEF RunTypes
<1>12. ASSUME NEW h \in Handler, Accept(h) \/ HandlerReturns(h) PROVE RunTypes'
  BY <1>a, <1>12 DEF Accept, HandlerReturns, RunTypes
<1>13. CASE Signal
  BY <1>a, <1>13 DEF Signal, RunTypes
<1>14. CASE JobPublishes \/ WorkerAdvances
  BY <1>1, <1>14 DEF JobPublishes, WorkerAdvances
<1>15. ASSUME NEW s \in Sub, Subscriber(s) \/ DoneClosed(s) PROVE RunTypes'
  BY <1>1, <1>15 DEF Subscriber, DoneClosed
<1>16. CASE UNCHANGED vars
  BY <1>1, <1>16 DEF vars
<1> QED
  BY <1>2, <1>3, <1>4, <1>5, <1>6, <1>7, <1>8, <1>9, <1>10, <1>11, <1>12, <1>13, <1>14,
     <1>15, <1>16 DEF Next, Main

\* The channels of the bus never hold more than their capacity, errCh never more than its
\* own, and every part of the runtime keeps its type.
THEOREM TypeCorrect == Spec => []TypeOK
<1>1. Init => BusInv /\ RunTypes
  BY InitBus, InitRunTypes
<1>2. BusInv /\ RunTypes /\ [Next]_vars => BusInv' /\ RunTypes'
  BY BusStep, RunTypeStep
<1>3. BusInv /\ RunTypes => TypeOK
  BY Types DEF BusInv
<1> QED BY <1>1, <1>2, <1>3, PTL DEF Spec

-----------------------------------------------------------------------------
(* The order of the shutdown.                                              *)

\* What the worker does while it publishes: only a running worker begins, and nothing
\* else moves it.
LEMMA WorkerPublishes ==
  ASSUME BusInv, RunOrder, JobPublishes \/ WorkerAdvances
  PROVE  component[Worker] = "running" /\ closed' = closed /\ UNCHANGED runVars
<1>1. CASE JobPublishes
  BY <1>1, Publishers, PublishFields DEF JobPublishes, BusInv
<1>2. CASE WorkerAdvances
  <2>1. PICK cancelled : Advance(Worker, cancelled)
    BY <1>2 DEF WorkerAdvances
  <2>2. publisher[Worker].step = "sending" /\ closed' = closed
    <3>1. BusTypeOK
      BY DEF BusInv
    <3>2. CASE \E s \in Sub : Turn(Worker, s)
      BY <3>1, <3>2, Publishers, TurnFields
    <3>3. CASE Send(Worker)
      BY <3>1, <3>3, Publishers, SendFields
    <3>4. CASE Skip(Worker)
      BY <3>1, <3>4, Publishers, SkipFields
    <3>5. CASE Abort(Worker, cancelled) \/ PublishReturns(Worker)
      BY <3>1, <3>5, Publishers, EndFields
    <3> QED BY <2>1, <3>2, <3>3, <3>4, <3>5 DEF Advance
  <2> QED BY <1>2, <2>2 DEF WorkerAdvances, RunOrder
<1> QED BY <1>1, <1>2

LEMMA OrderStep == BusInv /\ RunTypes /\ RunOrder /\ [Next]_vars => RunOrder'
<1> SUFFICES ASSUME BusInv, RunTypes, RunOrder, [Next]_vars PROVE RunOrder'
  OBVIOUS
<1>0. /\ component \in [Component -> ComponentState]
      /\ handler \in [Handler -> {"none", "running"}]
  BY DEF RunTypes
<1>1. ASSUME UNCHANGED <<run, component, handler, timedOut, store, closed, publisher>>
      PROVE  RunOrder'
  BY <1>1 DEF RunOrder, Busy
<1>2. CASE Serve
  <2>1. /\ run = "new" /\ run' = "serving"
        /\ UNCHANGED <<handler, timedOut, store, closed, publisher>>
    BY <1>2 DEF Serve, busVars
  <2>2. component[Worker] \in {"new", "absent"}
    BY <2>1, Publishers DEF RunOrder
  <2>3. publisher[Worker].step = "idle"
    BY <2>2 DEF RunOrder
  <2>4. ~closed /\ store # "closed"
    BY <2>1 DEF RunOrder
  <2> QED BY <2>1, <2>3, <2>4 DEF RunOrder
<1>3. CASE ListenFails
  <2>1. /\ run = "new" /\ run' = "closing"
        /\ UNCHANGED <<component, handler, timedOut, store, publisher>>
    BY <1>3 DEF ListenFails, CloseBus
  <2> QED BY <2>1 DEF RunOrder, Busy
<1>4. CASE Wake \/ Shutdown
  BY <1>4 DEF Wake, Shutdown, busVars, RunOrder
<1>5. CASE ShutdownReturns
  <2>1. /\ run = "shutdown" /\ run' = "waiting" /\ timedOut' = Busy
        /\ UNCHANGED <<component, handler, store, closed, publisher>>
    BY <1>5 DEF ShutdownReturns, busVars
  <2> QED BY <2>1 DEF RunOrder, Busy
<1>6. CASE WaitReturns
  <2>1. /\ run = "waiting" /\ run' = "closing"
        /\ \A c \in Component : component[c] \in {"returned", "absent"}
        /\ UNCHANGED <<component, handler, timedOut, store, publisher>>
    BY <1>6 DEF WaitReturns, CloseBus
  <2> QED BY <2>1 DEF RunOrder, Busy
<1>7. CASE CloseStore
  BY <1>7 DEF CloseStore, busVars, RunOrder, Busy
<1>8. CASE ServerFails \/ Report
  <2>1. /\ component["server"] \in {"running", "failing"}
        /\ \E state \in ComponentState : SetComponent("server", state)
    BY <1>8 DEF ServerFails, Report, ComponentState
  <2>2. "server" \in Component /\ "server" # Worker
    BY DEF Component, Worker
  <2>3. /\ \A d \in Component \ {"server"} : component'[d] = component[d]
        /\ UNCHANGED <<run, handler, timedOut, store, closed, publisher>>
    BY <2>1, <2>2, ComponentStep
  <2>4. run \notin {"new", "closing", "returned"}
    BY <2>1, <2>2 DEF RunOrder
  <2> QED BY <2>2, <2>3, <2>4, Publishers DEF RunOrder, Busy
<1>9. ASSUME NEW c \in Component, Returns(c) PROVE RunOrder'
  <2>1. /\ component[c] = "running" /\ SetComponent(c, "returned")
        /\ "returned" \in ComponentState
    BY <1>9 DEF Returns, ComponentState
  <2>2. /\ \A d \in Component \ {c} : component'[d] = component[d]
        /\ UNCHANGED <<run, handler, timedOut, store, closed, publisher>>
    BY <2>1, ComponentStep
  <2>3. run \notin {"new", "closing", "returned"}
    BY <2>1 DEF RunOrder
  <2>4. c = Worker => publisher[Worker].step = "idle"
    BY <1>9 DEF Returns, Worker
  <2> QED BY <2>2, <2>3, <2>4, Publishers DEF RunOrder, Busy
<1>10. ASSUME NEW h \in Handler, Accept(h) PROVE RunOrder'
  BY <1>10 DEF Accept, busVars, RunOrder
<1>11. ASSUME NEW h \in Handler, HandlerReturns(h) PROVE RunOrder'
  <2>1. /\ handler' = [handler EXCEPT ![h] = "none"]
        /\ UNCHANGED <<run, component, timedOut, store, closed, publisher>>
    BY <1>11 DEF HandlerReturns, busVars
  <2>2. Busy' => Busy
    BY <1>0, <2>1 DEF Busy
  <2> QED BY <2>1, <2>2 DEF RunOrder
<1>12. CASE Signal
  BY <1>1, <1>12 DEF Signal, busVars
<1>13. CASE JobPublishes \/ WorkerAdvances
  <2>1. /\ component[Worker] = "running" /\ closed' = closed
        /\ UNCHANGED <<run, component, handler, timedOut, store>>
    BY <1>13, WorkerPublishes DEF runVars
  <2> QED BY <2>1 DEF RunOrder, Busy
<1>14. ASSUME NEW s \in Sub, Subscriber(s) \/ DoneClosed(s) PROVE RunOrder'
  BY <1>1, <1>14 DEF Subscriber, DoneClosed, Subscribe, Receive, Unsubscribe, CloseDone, runVars
<1>15. CASE UNCHANGED vars
  BY <1>1, <1>15 DEF vars, busVars, runVars
<1> QED
  BY <1>2, <1>3, <1>4, <1>5, <1>6, <1>7, <1>8, <1>9, <1>10, <1>11, <1>12, <1>13, <1>14,
     <1>15 DEF Next, Main

LEMMA InitOrder == Init => RunOrder
<1> SUFFICES ASSUME Init PROVE RunOrder
  OBVIOUS
<1>1. run = "new" /\ closed = FALSE /\ store = "open"
  BY DEF Init, BusInit
<1>2. \A c \in Component : component[c] \in {"new", "absent"}
  BY DEF Init
<1>3. ~Busy
  BY DEF Init, Busy
<1>4. publisher[Worker].step = "idle"
  BY Publishers, QuietType DEF Init, BusInit
<1> QED BY <1>1, <1>2, <1>3, <1>4 DEF RunOrder

LEMMA Invariance == Spec => []IInv
<1>1. Init => BusInv /\ RunTypes /\ RunOrder
  BY InitBus, InitRunTypes, InitOrder
<1>2. BusInv /\ RunTypes /\ RunOrder /\ [Next]_vars => BusInv' /\ RunTypes' /\ RunOrder'
  BY BusStep, RunTypeStep, OrderStep
<1>3. BusInv /\ RunTypes /\ RunOrder => IInv
  BY Types DEF BusInv, IInv
<1> QED BY <1>1, <1>2, <1>3, PTL DEF Spec

\* The bus and the store are closed last, whichever way Run ends: by then no component
\* runs, no job waits in Publish, and a request is still served only if Shutdown ran into
\* its timeout.
THEOREM ClosedLastHolds == Spec => []ClosedLast
<1>1. IInv => ClosedLast
  <2> SUFFICES ASSUME IInv, closed \/ store = "closed"
               PROVE  /\ \A c \in Component : component[c] # "running" /\ component[c] # "failing"
                      /\ publisher[Worker].step = "idle"
                      /\ Busy => timedOut
    BY DEF ClosedLast
  <2>1. run \in {"closing", "returned"}
    BY DEF IInv, RunOrder
  <2>2. /\ \A c \in Component : component[c] # "running" /\ component[c] # "failing"
        /\ Busy => timedOut
    BY <2>1 DEF IInv, RunOrder
  <2>3. publisher[Worker].step = "idle"
    BY <2>2, Publishers DEF IInv, RunOrder
  <2> QED BY <2>2, <2>3
<1> QED BY <1>1, Invariance, PTL
=============================================================================
