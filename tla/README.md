# Formal models of HeritageGuard

TLA+ modules, TLC runs and TLAPS proofs for the HeritageGuard service in `src/`,
a Go program that keeps a museum's artifacts, quarantine slots, display cases,
incidents and loans in one SQLite database.

## 1. The system

### Components

| Component | Code | State | Operations that write | Here |
|---|---|---|---|---|
| Conservation | `internal/conservation`, `storage/sqlite/{artifacts,conservation}.go` | artifacts, condition reports, quarantine zones and cases, treatment plans | register, record condition, release, open quarantine, draft and advance treatment | `Conservation` |
| Lending | `internal/loan`, `storage/sqlite/loans.go` | loan requests, custody events, `artifacts.active_loan_id` | create, submit, approve, record custody | `Lending`, `Holding` |
| Exhibition | `internal/exhibition/service.go`, `storage/sqlite/exhibition.go` | display cases, installations, incidents | reserve, activate, open and advance incident | `Exhibition` |
| Environment assessment | `internal/exhibition/{service,jobs}.go`, `storage/sqlite/exhibition.go` | readings, incidents by window | record reading, assess, open incident with its outbox event | `Assessment` |
| Transactions | `storage/sqlite/store.go`, `identity.go` | the database | begin, commit, rollback; row versions | `Collection` |
| Worker | `internal/worker`, `storage/sqlite/worker.go` | jobs with leases | claim, complete, retry, fail, release | `Jobs`, `Work` |
| Outbox | `internal/outbox`, `storage/sqlite/outbox.go` | events with leases | claim, send, finish | `Outbox`, `Delivery` |
| Idempotency | `internal/idempotency`, `httpapi/idempotency.go` | keys with status, TTL and stored answer | begin, complete, forget | `Idempotency` |
| Users, sessions | `internal/auth`, `internal/bootstrap`, `storage/sqlite/identity.go` | users, sessions | create, login, authenticate, logout, deactivate | `Sessions` |
| Event bus | `internal/eventbus` | subscriptions, channels | subscribe, publish, unsubscribe, close | `EventBus` |
| Runtime | `internal/app`, `cmd/server` | goroutines, the error channel, the store | start, shutdown | `Runtime` |
| HTTP, configuration, ids, audit | `internal/httpapi`, `internal/config`, `internal/service/ids.go`, `storage/sqlite/audit.go` | none, or write-only | - | section 6 |

### How they interact

The three museum services share no memory. They meet in the rows of the database: the
artifact row carries the columns of all three (`status`, `current_case_id` for a
quarantine *or* a display case, `active_loan_id`, `last_report_id`). A service
method loads rows outside any transaction, decides from what it loaded, and then
runs one serialisable SQLite transaction whose UPDATEs repeat in their WHERE
clause the version, and sometimes the status, that was loaded. HTTP handlers run
concurrently, one goroutine each, behind two middlewares that read and write rows of
their own: authentication (users and sessions) and idempotency keys. A recorded reading
enqueues a job; a worker goroutine claims it, assesses the readings of a window and
opens an incident; the incident is inserted with an outbox event, and a dispatcher goroutine
sends the event to a receiver. The worker also publishes on the in-process event bus.
The runtime starts and stops all of it.

So the hard behaviour is what happens *between the load and the commit* of one
call while others commit, what happens between two statements of a middleware, a worker or a
dispatcher while time passes or the process dies, and what happens between two calls that are each
correct but were never meant to follow each other.

### What makes each part correct

* Conservation: no slot is lost or sold twice; a case is resolved once; a
  decision to release rests on the report that is current when it is written.
* Lending: an artifact is promised to one loan at a time; the chain of custody
  records each phase once and in order; the artifact is out of the house exactly
  while its loan says so.
* Exhibition: a case that shows an artifact was installed with a complete
  checklist; incidents move the case and never make it look free; a closed
  incident stays closed.
* Assessment: a reading out of range is not passed over, and an incident is posted once.
* Worker and outbox: one process at a time has a row in hand; attempts are counted; a row is
  settled once, and in the end; an event called succeeded was accepted.
* Idempotency: one effect and one answer for a key, while the key lasts.
* Sessions: who is deactivated or logged out is shut out in the end.
* Bus and runtime: no event is dropped silently; the store is closed last; shutdown ends.
* All: what a call relied on still holds when it commits.

`PROJECT.json` lists the hazards, each at its line, with the properties that
cover it or the reason why none does.

## 2. The modules

| Module | Contents |
|---|---|
| `Collection` | artifact rows, incident rows, calls in flight; `Load`, `Current` (the version check), `UpdateArtifact` (a write moves the version), `FailCall` |
| `Conservation`, `Lending`, `Exhibition` | the tables and the operations of one service; the properties of that service |
| `Museum` | the three services on the same artifact rows; properties across services |
| `Holding` | what lending promises, without requests, versions or transactions |
| `Jobs` | worker jobs with their leases, the processes that run them, and time |
| `Work` | what the jobs promise, without rows, leases or processes |
| `Assessment` | readings, assessment and incidents on top of `Work` |
| `Outbox` | outbox events with their leases, dispatchers, the network and the receiver |
| `Delivery` | what the outbox promises: delivery at least once |
| `Idempotency` | keys, the requests under them, and time |
| `Sessions` | users, sessions, and the requests that log in, authenticate and act |
| `EventBus` | one topic of the bus, its publishers and subscriptions |
| `Runtime` | `Runtime.Run` and its goroutines, composed with `EventBus` |
| `MCMuseum`, `MCIdempotency` | values for the constants and symmetry sets, for TLC |
| `MuseumProofs` | type correctness of `Museum`, the lemmas about steps, and optimistic locking |
| `ServiceProofs` | the safety of lending, conservation and exhibition inside `Museum`; lending implements `Holding` |
| `JobsProofs` | one runner per job, attempts, settled jobs; `Jobs` implements `Work` |
| `OutboxProofs` | one sender per event, attempts, settled events; `Outbox` implements `Delivery` |
| `IdempotencyProofs` | one effect, one answer, kept answers |
| `AssessmentProofs` | one event per incident, no bad reading passed over |
| `SessionsProofs` | how a tenant loses its last supervisor |
| `RuntimeProofs` | publication on the bus, and the order of the shutdown |

`Museum` composes the services through the artifact rows. `Assessment` takes the actions of `Work`, which
`Jobs` implements, so that what it shows does not depend on leases and processes; its incidents are those that
`Exhibition` opens at any time. `Runtime` takes the actions of `EventBus`. The rest stand alone, because the
code shares no row between them.

### The museum services

Rows are records in functions over ids (`artifact[a]`, `loan[l]`, ...); an id
that is not in use has the status `"absent"` and version 0. A service method is two actions:

* a *load* action, with the guards of the service method (`Approve(c, l)`,
  `RecordCondition(c, a)`, ...), which records in `call[c]` what the Go code keeps
  in its locals: row ids, the versions it loaded, and its input;
* a *commit* action, named for the store method (`ApproveLoanAtomically(c)`,
  `SaveConditionReport(c)`, ...), with the WHERE clauses of the transaction as
  guards and all of its UPDATEs as one step.

Any other step may happen in between. A method that reads in several moments
whose difference matters has more steps: `CreateLoan` (artifact), `CheckCommitments`
(incidents and overlaps), `InsertLoan`; `ReserveArtifact`, `ReserveCase`,
`ReserveDisplayCase`. Where the transaction checks the versions of all rows that
were read (approval, custody, activation) one load action stands for both reads:
a pair of rows that was read at two moments commits only if both versions are still current, and then it
existed when the second was read; a call that does
not commit writes nothing. `Register`, `DraftTreatment` and `OpenIncident` decide
everything inside their transaction and are one step.

A transaction that fails (a stale version, a condition that does not hold,
`SQLITE_BUSY`, a cancelled request, a crash of the process before commit) rolls
back. `Fail` is that step: any call in flight may end without an effect, at any
time. A crash ends every call in flight; that is several `Fail` steps, since
nothing but the database outlives the process in these components.

Abstractions: one tenant (every statement is scoped by `tenant_id`); names, reasons,
payloads and audit rows are left out; a condition report is its `Verdict`, whether
`ReleaseAssessment` would accept it; a plan's steps and evidence are left out, so any
plan that may advance by its status may advance; loan periods are intervals of
small numbers; authorisation is left out, so any caller may call anything; an
assessment that finds a case in order does nothing, and one that does not is
`OpenIncident` at any time for any case and window. `occupied`, `quarantine`,
`plan`, `displayCase` and the rest are the columns that some guard or property reads.

### The worker

`job[j]` is a row of `worker_jobs`;
`process[p]` is one start of the server: whether it is up, stopping or gone, and the
locals of `runOne` (the job, the attempts it loaded, the result of the handler). Every start draws a new
owner id, so the process is the owner. `Claimable` and `LeaseValid` are the WHERE clauses of `ClaimJob` and of the
statements that end a job; `Finish` is the rest of `runOne`: `CompleteJob`, `FailJob`, `RetryJob`,
`ReleaseLease`, or no row changed. Reading the clock and running the statement it is
for are one step: nothing that happens in between can change which rows the statement finds,
except a shutdown, which is the action `Stop` before it.

A signal (`Stop`) cancels the context of the runner and of the handler. The handler may still return a result, and the
statement that would record it then fails with the context; only `ReleaseLease` runs
without it. The wired handler sets no deadline, so a cancelled result appears in stopping
processes only. `Crash` may happen anywhere. `StatementFails` is an error of the
database. Times are kept as what is left of them, in seconds, and `Tick` takes one off
all of them, so that a handler may take any time relative to the lease. The order
of the queue is left open; payloads, errors and timestamps nobody compares are left out.

### The outbox

The shape is that of the worker, with the differences of the code: `FinishOutbox` runs without the
cancelled context, so a stopping process still writes its outcome; it reads the attempts from the row and
not from its locals; nothing gives a lease back early. The network and the receiver are the set
`accepted` of requests, an event with its attempt: `Arrive` may happen before, while or after its sender waits, and for
attempts whose sender has died; `SendReturns` gives `"ok"` only for a request that was accepted and may give
`"error"` for any. The receiver keeps no state of the program, so a duplicate is the same event accepted
under two attempts, and `Delivery` sees events only.

### Assessment

One display case. `reading[j]` is the reading that job `j` came with: when the device says it was taken, which
`RecordReading` chooses early or late, and whether it is out of range. `handler[j]` is where
`ProcessAssessmentJob` is: the time it read (`ReadClock`), what it found (`Assess`), the incident
(`OpenIncident`, with the outbox event in the same transaction, which fails as a whole when the outbox has the idempotency key of
the window), the publication. An error may come from anywhere, and then
`Work` decides whether the job runs again. `WindowKey` is the window number; time is counted in steps of which `Window` make a window.

### Idempotency keys

`row[k]` is a row of `idempotency_keys`: absent, started or completed, the body hash it was begun with, whose answer it holds, and the
time left. `request[r]` is a request under a key in the middleware `idempotent`: the DELETE and the INSERT of `Begin` and its
`Get` are separate statements and separate steps, as are the handler (`Commit` if it had an effect,
`Decline` if not, with a status below or above 500) and `Complete` or `Forget`. A request may be `Lost` at any
point. `ran` and `late` are not in the program: they record an effect, and that `Forget` deleted a row
although the request's own time under the key had ended.

### Sessions

`request[r]` passes `Login` in two steps (the user is read, the session is created), and `Authenticate` in two
(`FindSession`, `FindUser`); with `"principal"` it may do what a handler does in the name of the user it was given.
`RequireRole` looks at the principal and at no row. `Stop` is a crash as well. Passwords match or not;
a user that never becomes active again needs no version.

### The bus and the runtime

A queue is its length. `Publish` takes the snapshot of open subscriptions, `Turn` goes to the next one in any order, and `Send`, `Skip` and
`Abort` are the three cases of the `select`. `Unsubscribe` and `CloseBus` take subscriptions out of
the map under the lock, and `CloseDone` closes their channel after it. The subscribers are the environment: nothing in the application
subscribes outside tests. `Runtime` is `Run` step by step (`Main`), the goroutine of each component with the error it may have to
report, the requests in flight, and a worker whose jobs publish.

## 3. What TLC checks

| Run | Instance | Properties |
|---|---|---|
| `conservation` | 2 artifacts, 2 callers, 1 zone of 1 slot, 2 cases, 2 plans | `ZoneAccounting`, `QuarantineHoldsArtifact`, `QuarantineResolution`, `ReleaseInspected` |
| `lending` | 1 artifact, 2 callers, 2 loans, 3 periods | `LoanBinding`, `ChainOfCustody`, `ImplementsHolding` |
| `exhibition` | 1 artifact, 2 callers, 1 display case, 2 incidents, 2 windows | `CaseBinding`, `DisplayedInItsCase`, `IncidentJustified`, `ClosedIsFinal` |
| `museum` | one of everything but incidents, 2 callers, versions to 9 | `TypeOK`, `Snapshots`, `OutOnlyOnLoan`, `QuarantinedHasCase` |
| `jobs` | 2 jobs, 1 of them without a handler, 3 starts of the server, 2 attempts, lease 2 s, fairness | `TypeOK`, `OneRunner`, `AttemptsCounted`, `ImplementsWork`, `EventuallySettled` |
| `outbox` | 2 events, 2 starts of the server, 2 attempts, lease 2 s, fairness | `TypeOK`, `OneSender`, `AttemptsCounted`, `ImplementsDelivery`, `EventuallySettled` |
| `assessment` | 2 readings and jobs, windows of 2, 5 moments | `TypeOK`, `OneEventPerIncident`, `BadReadingReported` |
| `idempotency` | 4 requests, 1 key, 2 bodies, TTL 2 | `TypeOK`, `EffectOnce`, `AnswerOfSameBody`, `AnswerKept` |
| `sessions` | 3 users, 2 of them supervisors, 2 sessions, 2 requests at a time, fairness | `TypeOK`, `LastSupervisorRace`, `EventuallyShutOut`, `EventuallyLoggedOut` |
| `runtime` | 2 subscriptions with room for 1 event, 1 request, with and without a dispatcher, fairness | `TypeOK`, `NoneLeftOut`, `ClosedLast`, `EventuallyReturns` |

The runs of the three services use the module `MCMuseum`, the specification `Museum!Spec`, and check
deadlock. Giving a service no ids leaves it out of a run. There is no fairness:
all their properties are safety properties, and nothing in these three services runs
by itself. The other runs do not check deadlock, because what they model may really stop: every process has
ended, every request has been served, `Run` has returned. Their liveness properties say what must not stop.

*Bounds.* The ids are finite sets, so a run has at most that many loans, cases or
incidents, and `MaxVersion` stops updates of a row that has reached it; it
appears in `Current`, `CaseCurrent`, `IncidentCurrent` and `FinishTreatment`. The only other bound
that is not a constant of the code is the clock of `Assessment`, `MaxTime`. Two callers are enough for one stale call against one that
commits, which is what versions are for; two loans, two plans or two incidents
are what it takes for one to disturb the other; one slot for two artifacts makes
the zone full. In `lending` two of the three periods overlap and the third starts when
the first ends; `MaxVersion` 11 lets one loan go from draft to return and the
other one be approved afterwards. In `museum` versions to 9 let a loan go all the way, with the
other services in between.

For `Jobs` and `Outbox` the number of processes bounds the restarts, and with them how often a job can be given back. Two attempts have a first retry and a
last attempt; a lease of 2 s and a backoff of 1 and 2 s let leases end before, between and
after the steps of a handler or a request; in `jobs` the third process is there when one crashed and one is stopping. In
`assessment` the clock passes two boundaries of windows, so that a job may be recorded in one window, run in the next and
be retried in a third. Four requests under one key is what it takes for the longest race there is: one forgets late, one inserts a
short-lived row, one is answered in it, and one comes while its key should last. Two supervisors and two requests
deactivate each other at once. A channel with room for one event is full after one; the second subscription is what a
publisher that waits for the first one has still to serve.

*Fairness.* `Jobs` and `Outbox`: a process polls while it runs, its handler, its statements and its requests return (they have
a busy timeout, a client timeout), and time passes. Nothing obliges anyone to start or stop a server, so liveness is
stated for behaviours in which some process stays up (`Served`); receiver and network owe nothing. `Sessions`: a request that
is served ends; time owes nothing, so a session need not expire. `Runtime`: the goroutine of `Run` and the failing
server go on when they can, `Publish` returns when it can, the components return when they are told to,
`Shutdown` has a timeout; requests and subscribers owe nothing.

### What the runs show about the code

* A claim never takes a running row, so `OneRunner` and `OneSender` do not
  depend on leases at all; the owner and expiry in the WHERE clauses that end a job or an event refuse late
  results, but could not let a second runner in if they were missing. For the same reason a
  row that is left running stays so for ever. That happens when its process is lost with it, and also on a server that stays
  up: a handler or a request outlives its lease and the statement that ends it finds no row (`NotWritten`), that statement fails once
  (`StatementFails`), or a shutdown cancels it. All of these rows are `Stranded`; they are the exception in `EventuallySettled`, which says
  that everything else is settled, and the finding of `jobs_stranded`. `ClaimOutbox` (`storage/sqlite/outbox.go:35`)
  has the same clause with the same consequence for events.
* A job given back by a stopping process keeps the attempt it was charged, so `AttemptsCounted` of `Jobs` allows one
  more for each stopped process; an event never has more than `max_attempts`.
* `Forget` compares neither the owner nor the time. A request that fails after its key ended deletes the started key of
  its successor, and a third request then runs the handler beside it, or a row whose time began earlier takes its place and ends
  before the key of the request that is answered in it. `EffectOnce` and `AnswerKept` name this case (`ForgottenLate`) as their only exception,
  and they fail without it. An answer of 409 to a lost race is below 500, so it is stored and replayed like any other.
* A login that overtook the deactivation of its user leaves a session that is never revoked. `FindUser` keeps it out,
  which is what `EventuallyShutOut` rests on.
* Two supervisors who deactivate each other at once leave the tenant without one (`LastSupervisorRace` says that nothing
  else does). When the bootstrap user is the one that was deactivated, the server does not start again while the
  bootstrap variables are set (`bootstrap/supervisor.go:40`).
* The window of an assessment ends when the job runs. `BadReadingReported` is about the readings in that window: a
  reading that was late, or whose job was, is in none that is assessed, and no line of the repository says what should become of it.
* The store may be closed under a request, when `Shutdown` ran into its timeout; `ClosedLast` says that nothing else is left then.

* Conservation alone can lose a slot. `QuarantineHoldsArtifact` says that the artifact of an unresolved case keeps naming it, which
  is one of the two things that completion asks for. The other is that the artifact is still in quarantine, and a condition report
  takes it out (`storage/sqlite/artifacts.go:164`): completion is then refused (`storage/sqlite/conservation.go:203`), a second quarantine
  is refused by the unique index (`migrations/001_core.sql:98`), and nothing writes the status `treatment`. The case stays open and its slot taken
  for ever (`LostSlotStaysLost` in section 4).

What does *not* hold across the museum services, and so is stated within one:
`QuarantineHoldsArtifact` fails once exhibition runs beside conservation, `ReleaseInspected` once lending does. Packing an approved loan makes an assessed artifact
ready without its report (and nothing else does, `ReleasedOrPacked` in section 4). An artifact reserved for a case can be
quarantined, inspected, released and then activated, which overwrites
`current_case_id`, so that it no longer names its quarantine; the slot was lost with the inspection. Likewise an artifact reserved for a case and then approved for a loan can be activated and
dispatched while its case shows it, and closing one of two incidents of a case makes the
case active while the other is open (the converse of `IncidentJustified`). No line of
the repository says otherwise, so these are notes and not findings. Two
submitted loans with overlapping periods block each other's approval for ever:
submission does not look at overlaps and no operation cancels or rejects (`OverlapBlocksForEver` in section 4).

### Where code and documents disagree

| Run | The text | What TLC shows |
|---|---|---|
| `released_before_treatment` | README.md:7, "release the artifact only after the treatment transaction succeeds" | quarantine, new condition report, release: ready with the case open |
| `jobs_stranded` | README.md:15, jobs "use durable leases, retry backoff, and terminal failure states"; `storage/sqlite/worker.go:37` admits expired leases | the lease of a lost process expires and the job stays running for ever |

Three more can be read off one line each, and no run is spent on them: `domain/state_test.go:66` refuses
quarantined to ready, and `storage/sqlite/conservation.go:205` makes that change when a treatment is completed, while no operation writes
the status `treatment`; `conservation/service.go:173` says "high-risk assessment requires quarantine", and packing (`loan/service.go:214`) makes
an artifact with such a report ready; README.md:9 says loans are approved "against current incidents", and the
assessment (`exhibition/jobs.go:38`) opens incidents without the artifact's id, so that no approval sees them.

### Mutants

Each property has a mutant: a definition of the model changed the way a mistake in the
code would change it (a version missing from a WHERE clause, a forgotten column, an
off-by-one in the capacity), under which TLC finds the property violated. They are the operators
whose comment starts with "A mistake", next to what they replace, and appear in no specification.

## 4. What is proved

The proofs hold for any sets of ids, callers, processes and requests and any bounds, from the assumptions
`CollectionAssumption`, `ConservationAssumption`, `LendingAssumption` and `ExhibitionAssumption` (SQL
NULL is not an id; periods are intervals; capacities are numbers), `JobsAssumption` (finitely many
processes, positive attempts and lease), `OutboxAssumption` and `IdempotencyAssumption` (NULL is no id, positive attempts, lease and TTL), `AssessmentAssumption` (a
window has a length), `SessionsAssumption` (NULL is no id, the bootstrap user is a supervisor), `EventBusAssumption` and
`RuntimeAssumption` (a channel has a size, one worker publishes), which TLC evaluates in the runs of their modules. Two theorems have a hypothesis
besides: `QuarantineHoldsArtifactHolds` that there is no display case and `ReleaseInspectedHolds` that there is no
loan. Each stands with a theorem that has none and says what becomes of the property in the whole application.

| Theorem | Module | What it says of every instance |
|---|---|---|
| `TypeCorrectness`, `ExistenceInvariant` | `MuseumProofs` | rows and calls are well typed; the artifact of a call and of a loan exists |
| `OptimisticLocking` | `MuseumProofs` | `Snapshots`: a call sees what its checks relied on, or its version has moved |
| `LoanBindingHolds`, `ChainOfCustodyHolds`, `OutOnlyOnLoanHolds` | `ServiceProofs` | lending is safe beside conservation and exhibition |
| `OverlapIsCommonTime`, `OverlapBlocksForEver` | `ServiceProofs` | the overlap query finds common time; overlapping loans that are both submitted block each other for ever |
| `HoldingImplemented` | `ServiceProofs` | `Spec => ImplementsHolding` |
| `ZoneAccountingHolds`, `QuarantinedHasCaseHolds` | `ServiceProofs` | slots are counted and never oversold; a quarantined artifact has its case |
| `QuarantineHeldHolds`, `QuarantineHoldsArtifactHolds` | `ServiceProofs` | an artifact names its quarantine while it is unresolved, unless it was installed meanwhile |
| `LostSlotStaysLost` | `ServiceProofs` | `Spec => [](Lost(q) => []Lost(q))`: a case whose artifact has left quarantine keeps its slot for ever |
| `QuarantineResolutionHolds` | `ServiceProofs` | a case is resolved by one plan and only by it |
| `ReleasedOrPackedHolds`, `ReleaseInspectedHolds` | `ServiceProofs` | a release rests on the report that is current, unless it is the packing of a loan |
| `ClosedIsFinalHolds`, `IncidentJustifiedHolds`, `CaseBindingHolds` | `ServiceProofs` | late incident updates do no harm; a case shows what was installed in it |
| `DisplayedInItsCaseHolds` | `ServiceProofs` | what is on display is shown by the case it names |
| `JobsTypes`, `OneRunnerHolds`, `SettledOnceHolds`, `AttemptsCountedHolds` | `JobsProofs` | no job has two runners, or changes once settled; attempts are counted through restarts |
| `WorkImplemented` | `JobsProofs` | `Spec => ImplementsWork` |
| `OutboxTypes`, `OneSenderHolds`, `SettledOnceHolds`, `AttemptsCountedHolds` | `OutboxProofs` | the same of events and their dispatchers |
| `DeliveryImplemented` | `OutboxProofs` | `Spec => ImplementsDelivery` |
| `IdempotencyTypes`, `AnswersOfSameBody`, `EffectsOnce`, `AnswersKept` | `IdempotencyProofs` | one effect and one answer for a key, and the answer is kept |
| `TypeCorrect`, `OneEventPerIncidentHolds`, `BadReadingReportedHolds` | `AssessmentProofs` | incidents are posted once; a job that succeeded passed no bad reading over |
| `TypeCorrect`, `LastSupervisorRaceHolds` | `SessionsProofs` | the last supervisor is lost in one way only |
| `TypeCorrect`, `NoneLeftOutHolds`, `ClosedLastHolds` | `RuntimeProofs` | no subscription is left out; the store is closed last |

The rows of `MuseumProofs` and `ServiceProofs` are theorems about `Museum!Spec`, the whole application: where TLC checks a
property on an instance without one of the services, the theorem has all three.

*Types.* `TypeOK` alone is not inductive: the row of a call in flight must exist, or its commit
would write an absent row. `TypeInv` adds `ArtifactsExist`. The proof goes action by action;
`ConservationFields` and its siblings tell from a call's method what it carries.

*Optimistic locking.* Two facts about steps carry it. `ArtifactVersions` and `LoanVersions`: no
operation of any service changes a row without moving its version to the next one.
`CallStep`: a step leaves a call alone, ends it, or loads it from rows that it does not
change. Hence a snapshot is true when it is taken, and later either the row is the same or its version
is greater than the call's (`SeesStays`), so the WHERE clause of the commit refuses it.

*Lending.* A commit that passes its version check acts on a row as the call saw it
(`CommitSees`, `LoanCommitSees`). So every step of the application is one of four for lending
(`StepClasses`): `Quiet`, `Prepared` (a loan is drafted or submitted), `Promised` (approved) or
`Handled` (a custody event). `Quiet` is where the other services are: none of them writes
`active_loan_id`, and none moves an artifact into or out of `on_loan`, which for the commits
that do not repeat the status in their WHERE clause is exactly `Snapshots`. `LoanBinding`,
`ChainOfCustody` and `OutOnlyOnLoan` are then inductive together
(`LendingInv`): the log needs the status of the loan, the absence of the artifact needs the
binding. Under `LendingInv` each class is a step of `Holding` or a stutter.

*Overlaps.* The same classes show what blocks a pair of submitted loans (`Blocked`): `Quiet` and `Handled` do not touch a submitted
loan, `Prepared` takes none away, and `Promised` carries the overlap check of the approval (`~Overlapping`), which finds the
other loan of the pair. So `Blocked` is closed under every step of the application: a deadlock that no retry and no other
call resolves.

*Slots.* For quarantine a step leaves slots, unresolved cases and the case that an artifact names alone, takes a slot,
frees one, or installs an artifact in a display case (`CasesStay`, `SlotTaken`, `SlotFreed`, `CaseFilled`: the lemma `SlotClasses`). The count
is of a set that must be known to be finite, so the inductive invariant is
`ZoneAccounting` with `IsFiniteSet(Occupants(z))`: the sets of ids may be infinite.

*The quarantine of an artifact.* Over the same classes `HeldRight` is inductive: the artifact of an unresolved case names that case or a
display case, what it names is its own, and it has one unresolved case at most. The last part needs
the unique index (`NoOpenCase`): once the artifact was installed its row no longer tells that it has a case. `CaseFilled` is the one class that
separates the row from the case, and without display cases it does not occur.

*Lost slots.* `Lost(q)` says that case `q` is unresolved and its artifact no longer `quarantined` or in `treatment`. It is closed under all four
classes of `SlotClasses`: the steps that leave the cases alone bring no artifact into either status, a slot is taken for an
artifact without a case (`NoOpenCase`), a slot is freed only of an artifact that is still in quarantine, and an installation puts on
display. So `Lost` is stable in the whole application, and with `ZoneAccountingHolds` the slot stays taken. `released_before_treatment`
shows how it comes about.

*Resolution.* A plan in flight carries the status it read, and while the plan has its version the status is still so
(`PlanSnapshots`). A plan is therefore completed once, when its case is unresolved, together with the case (`PlanStep`), so the set
`Completed(q)` goes from none to one plan and then stays (`ResolvedOnce`). The invariant speaks of the set and the theorem of its cardinality.

*Releases.* Who makes an assessed artifact ready is the release, whose version check gives it the report it read
(`CommitSees`), or packing. Every other action writes another status or none.

*Incidents and cases.* A call that advances an incident carries a transition that was allowed from the status it
read; `IncidentSnapshots` says that it still is while the version is the row's. It holds up
`ClosedIsFinal` (nothing leads out of closed) and `IncidentJustified` (an advance never
leads back to open). `CaseBinding` is strengthened by: an artifact is shown only in the case that
is its own, which tells an available case from one shown before. `DisplayedInItsCase` is inductive on both classifications at once: nothing
takes an artifact out of the case that shows it (`ShowsStays`), activation writes both rows, and a statement that changes `current_case_id` otherwise
leaves the artifact in another status than `on_display` (`SlotClasses`).

*Jobs.* `OneRunner` is inductive with `Hands`, what the locals of `runOne` say about the row
(`JobsInv`): a claim takes a row nobody has in hand, and a statement that ends a job gives up
the lease of its own row. `SettledOnce` needs `Timers` besides, since time changes rows
too. `AttemptsCounted` is strengthened by what is still to be spent (`Spent`): a job that may be claimed has been claimed
fewer times than `MaxAttempts` plus the processes that were stopped, and for a job in hand its own process does not
count, which pays for the claim that follows a release.

*Work.* No two processes have one job in hand (`OneRunner`), so the run that `Work` sees of a job is that of whoever has it
(`RunsAreKnown`). A step of one process then moves the run of at most one job (`OtherRuns`), and each kind of step is one of `Work` on
that job (`OneJobMoves`) or none; a process that ends its run in any way leaves no run (`RunOver`).

*Outbox.* `OneSender` is inductive with what the dispatcher's locals and the set of accepted requests say about
the rows: a request that was accepted is of an event that was posted, and a dispatcher holds `"ok"` only for one that was
accepted. `RowStep` lists how the status of one row may change, and from it come `SettledOnce` and the steps of `Delivery`.

*Idempotency keys.* A row does not name its owner, so the invariant is about the requests that may claim it: an *owner* has
time left and may run its handler, has run it, or has answered (`Owner`). While no row of a key was forgotten late, an owner is the
only one, its row is there, and it lasts as long as the owner's time (`OwnerInv`). Every statement
is one of five for the owners (`OwnersMove`): nothing, the end of a row nobody owns, its insertion where nobody can own one, its deletion by its owner,
or its completion. `EffectOnce` and `AnswerKept` follow at once. `AnswerInv`, that answers are in the scope and of the body they were given to, is
inductive by itself. The attempt to prove `AnswerKept` without the exception led to the race of four requests of section 3.

*Assessment.* A handler that has reached `"created"` or `"done"` has looked at its window, and a bad reading in it is covered by an
incident (`RunInv`); incidents are never taken away and `assessed` is written with the success of the run, so `BadReadingReported` follows the row. Events are
posted with their incident, in one transaction, which the unique key of the outbox can only refuse.

*Sessions.* What a request or a session names is a row that exists, since no code deletes one (`UsersExist`). A request is served for one user
from start to end (`RequestUsers`), and only `DeactivateUser` ends an active supervisor. It refuses the caller's own
row, so if no supervisor is left active the caller, a supervisor, had been deactivated before.

*Bus and runtime.* A publisher has every target of its snapshot behind it, with it or ahead of it, or the target was closed (`Sending`); it
returns `"ok"` when nothing is ahead. For the shutdown, `RunOrder` says what each step of `Run` knows: nothing runs before it has started
the components, no request is served after `Shutdown` unless it timed out, no component runs after `Wait`, and
the worker publishes only while it runs. `ClosedLast` is its last line but one together with those.

## 5. What is only model-checked

Every safety invariant and every action property of the passing runs is stated by a theorem of section 4, the three refinements included. What stays with
TLC:

* The liveness properties `EventuallySettled` (twice), `EventuallyShutOut`, `EventuallyLoggedOut` and `EventuallyReturns`. They rest on fairness, and with it on
  `ENABLED`, which is out of the prover's reach.
* The two runs that expect a violation: a counterexample is found and not proved.

A run remains the faster answer to a change of the code, and its mutants show that each property can fail; the theorems say that
the instance was not too small.

Next: specifications of what the idempotency middleware and a quarantine zone promise, with the refinements of `Idempotency` and
`Conservation` that the invariants `OwnerInv` and `HoldInv` prepare; and what two incidents of one case leave of it
(`storage/sqlite/exhibition.go:290`).

## 6. Not modelled

* Routing, decoding and rendering of HTTP (`internal/httpapi` but for its two middlewares), configuration, ids: they keep no state
  between requests, or draw random values that are never drawn twice.
* Roles and ownership checks of the museum services: any caller may be authorised, which allows more behaviour and not less. Hashing of
  passwords and tokens, checks of inputs, and the shape of idempotency headers, likewise.
* Stored times are text. Their order differs from the order of times within one second only, below the unit in which the models count.
* Audit rows, which are written in modelled transactions and read by nothing.
* Migrations, pragmas and connections: they run before the server serves, in one process. SQLite is taken to serialise transactions.
* `internal/custody/batch.go` and `internal/environment/policy.go`, which nothing in the application calls, and the store functions that only
  tests call (`EnqueueJob`, `EnqueueOutbox`, `SetUserActive`, `ListActiveSessions`, `RevokeUserSessions`).
* Liveness of the museum services: their operations are calls of people, who owe nothing.
