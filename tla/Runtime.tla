------------------------------ MODULE Runtime ------------------------------
(***************************************************************************)
(* Runtime.Run of HeritageGuard: the goroutines of the HTTP server, the    *)
(* worker and the outbox dispatcher, the channel on which they report a    *)
(* failure, the requests in flight, and the order of the shutdown.  The    *)
(* worker publishes on the event bus from its jobs' handlers.              *)
(***************************************************************************)
EXTENDS EventBus

CONSTANT
  Handler           \* HTTP requests

Worker == "worker"

Component == {"server", "worker", "dispatcher"}

ASSUME RuntimeAssumption == Publisher = {Worker}

VARIABLES
  run,         \* where Run is
  told,        \* the context of Run is cancelled: a signal came
  component,   \* the goroutine of each component
  errors,      \* errors in errCh
  handler,     \* the requests
  timedOut,    \* Shutdown returned because of its timeout
  store        \* "open" or "closed"

runVars == <<run, told, component, errors, handler, timedOut, store>>

vars == <<busVars, runVars>>

-----------------------------------------------------------------------------

\* The capacity of errCh: one for each component.
ErrorRoom == IF component["dispatcher"] = "absent" THEN 2 ELSE 3

RunStep == {"new", "serving", "cancelled", "shutdown", "waiting", "closing", "returned"}

\* "failing" has an error to report, "absent" is a dispatcher that is not configured.
ComponentState == {"new", "running", "failing", "returned", "absent"}

Init ==
  /\ BusInit
  /\ run = "new" /\ told = FALSE /\ errors = 0 /\ timedOut = FALSE /\ store = "open"
  /\ component \in {[c \in Component |-> "new"],
                    [[c \in Component |-> "new"] EXCEPT !["dispatcher"] = "absent"]}
  /\ handler = [h \in Handler |-> "none"]

\* runCtx: cancelled by Run, or with the context it is derived from.
Cancelled == told \/ run \notin {"new", "serving"}

-----------------------------------------------------------------------------
(* Run.                                                                    *)

\* The address is bound and the components are started.
Serve ==
  /\ run = "new"
  /\ run' = "serving"
  /\ component' = [c \in Component |->
       IF component[c] = "absent" THEN "absent" ELSE "running"]
  /\ UNCHANGED <<busVars, told, errors, handler, timedOut, store>>

\* The address cannot be bound: everything is closed and nothing was started.
ListenFails ==
  /\ run = "new"
  /\ run' = "closing"
  /\ CloseBus
  /\ UNCHANGED <<told, component, errors, handler, timedOut, store>>

\* The select of Run: the context is done or a component has failed.  Then cancel().
Wake ==
  /\ run = "serving"
  /\ \/ told /\ UNCHANGED errors
     \/ errors > 0 /\ errors' = errors - 1
  /\ run' = "cancelled"
  /\ UNCHANGED <<busVars, told, component, handler, timedOut, store>>

\* Server.Shutdown closes the listener and then waits for the requests.
Shutdown ==
  /\ run = "cancelled"
  /\ run' = "shutdown"
  /\ UNCHANGED <<busVars, told, component, errors, handler, timedOut, store>>

Busy == \E h \in Handler : handler[h] = "running"

ShutdownReturns ==
  /\ run = "shutdown"
  /\ run' = "waiting"
  /\ timedOut' = Busy
  /\ UNCHANGED <<busVars, told, component, errors, handler, store>>

\* A mistake: Run does not wait for its goroutines.
WaitReturnsMutant ==
  /\ run = "waiting"
  /\ run' = "closing"
  /\ CloseBus
  /\ UNCHANGED <<told, component, errors, handler, timedOut, store>>

\* wg.Wait, and the first half of Close.
WaitReturns ==
  /\ run = "waiting"
  /\ \A c \in Component : component[c] \in {"returned", "absent"}
  /\ run' = "closing"
  /\ CloseBus
  /\ UNCHANGED <<told, component, errors, handler, timedOut, store>>

\* The second half: the bus has closed every subscription it still had.
CloseStore ==
  /\ run = "closing"
  /\ \A s \in Sub : sub[s] # "closing"
  /\ run' = "returned"
  /\ store' = "closed"
  /\ UNCHANGED <<busVars, told, component, errors, handler, timedOut>>

-----------------------------------------------------------------------------
(* The components, the requests, and the bus.                              *)

SetComponent(c, state) ==
  /\ component' = [component EXCEPT ![c] = state]
  /\ UNCHANGED <<busVars, run, told, handler, timedOut, store>>

\* Serve returns something else than ErrServerClosed.
ServerFails ==
  /\ component["server"] = "running"
  /\ SetComponent("server", "failing")
  /\ UNCHANGED errors

\* The send on errCh, which blocks when there is no room.
Report ==
  /\ component["server"] = "failing" /\ errors < ErrorRoom
  /\ errors' = errors + 1
  /\ SetComponent("server", "returned")

\* Serve returns ErrServerClosed once Shutdown has begun, the worker and the dispatcher
\* return the error of the cancelled context once their job or event is done with.
Returns(c) ==
  /\ component[c] = "running"
  /\ IF c = "server" THEN run \notin {"serving", "cancelled"}
     ELSE Cancelled /\ (c = Worker => publisher[Worker].step = "idle")
  /\ SetComponent(c, "returned")
  /\ UNCHANGED errors

\* Requests come until Shutdown: when Serve has failed, on the connections it has accepted.
Accept(h) ==
  /\ run \in {"serving", "cancelled"}
  /\ handler[h] = "none"
  /\ handler' = [handler EXCEPT ![h] = "running"]
  /\ UNCHANGED <<busVars, run, told, component, errors, timedOut, store>>

\* Nothing tells a request in flight to stop, and the store may be closed before it ends.
HandlerReturns(h) ==
  /\ handler[h] = "running"
  /\ handler' = [handler EXCEPT ![h] = "none"]
  /\ UNCHANGED <<busVars, run, told, component, errors, timedOut, store>>

Signal ==
  /\ ~told /\ run # "returned"
  /\ told' = TRUE
  /\ UNCHANGED <<busVars, run, component, errors, handler, timedOut, store>>

\* A handler of the worker publishes; Publish looks at the context first.
JobPublishes ==
  /\ component[Worker] = "running" /\ ~Cancelled
  /\ Publish(Worker)
  /\ UNCHANGED runVars

WorkerAdvances == Advance(Worker, Cancelled) /\ UNCHANGED runVars

\* What the owners of subscriptions do: they owe the bus nothing.
Subscriber(s) == (Subscribe(s) \/ Receive(s) \/ Unsubscribe(s)) /\ UNCHANGED runVars

DoneClosed(s) == CloseDone(s) /\ UNCHANGED runVars

Main == Wake \/ Shutdown \/ ShutdownReturns \/ WaitReturns \/ CloseStore

Next ==
  \/ Serve \/ ListenFails \/ Main
  \/ ServerFails \/ Report \/ \E c \in Component : Returns(c)
  \/ \E h \in Handler : Accept(h) \/ HandlerReturns(h)
  \/ Signal
  \/ JobPublishes \/ WorkerAdvances
  \/ \E s \in Sub : Subscriber(s) \/ DoneClosed(s)

Spec == Init /\ [][Next]_vars

\* Goroutines that can go on do; Shutdown has a timeout.  Neither the requests nor the
\* subscribers owe anything.
Fairness ==
  /\ WF_vars(Main) /\ WF_vars(Report) /\ WF_vars(WorkerAdvances)
  /\ \A c \in Component : WF_vars(Returns(c))
  /\ \A s \in Sub : WF_vars(DoneClosed(s))

FairSpec == Spec /\ Fairness

-----------------------------------------------------------------------------
(* Properties.                                                             *)

\* The variables are well typed; what the bus keeps is well typed too.
TypeOK ==
  /\ BusTypeOK
  /\ run \in RunStep
  /\ told \in BOOLEAN /\ timedOut \in BOOLEAN
  /\ component \in [Component -> ComponentState]
  /\ errors \in 0..ErrorRoom
  /\ handler \in [Handler -> {"none", "running"}]
  /\ store \in {"open", "closed"}

\* The bus and the store are closed last: by then no component runs, no job waits in
\* Publish, and no request is served unless Shutdown ran into its timeout (Run, Close).
ClosedLast ==
  (closed \/ store = "closed") =>
    /\ \A c \in Component : component[c] # "running" /\ component[c] # "failing"
    /\ publisher[Worker].step = "idle"
    /\ Busy => timedOut

\* Run returns after a signal or a failure of the server, though a subscriber never
\* reads, a request never ends and the failure is one nobody waits for any more.
EventuallyReturns ==
  (run = "serving" /\ (told \/ component["server"] = "failing")) ~> (run = "returned")
=============================================================================
