---------------------------- MODULE Idempotency ----------------------------
(***************************************************************************)
(* The idempotency keys of HeritageGuard's mutating requests: rows of the  *)
(* table idempotency_keys, and the requests that pass the middleware       *)
(* idempotent, which begins a key, runs the handler and then completes or  *)
(* forgets the key.  Every statement commits by itself, and between two of *)
(* one request the others run, time passes, and a request may be lost: its *)
(* client hangs up, its handler panics or its process dies.                *)
(*                                                                         *)
(* A request is served once.  What remains of a key's time to live is      *)
(* counted down, in the row and in the request that gave the row its time. *)
(***************************************************************************)
EXTENDS Naturals

CONSTANTS
  Request,   \* requests, each served once
  Key,       \* scopes: tenant, method, path and Idempotency-Key
  Body,      \* hashes of request bodies
  NoId,      \* SQL NULL
  TTL        \* time to live of a key

ASSUME IdempotencyAssumption ==
  /\ NoId \notin Request \cup Body
  /\ TTL \in Nat \ {0}

VARIABLES
  row,       \* idempotency_keys by scope
  request    \* what each request is doing

vars == <<row, request>>

-----------------------------------------------------------------------------

\* answer stands for response_status and response_body: the request they answered.
KeyRow == [state : {"absent", "started", "completed"}, body : Body \cup {NoId},
           answer : Request \cup {NoId}, left : 0..TTL]

Step == {"new", "expired", "exists", "owner", "committed", "refused", "failed",
         "answered", "told", "lost"}

\* left, from the time Begin read to the end of the key; answer, whose answer the client
\* got; ran, that the handler's transaction committed; late, that Forget deleted a row
\* when the request's own key had ended (neither is in the program).
RequestState == [step : Step, key : Key, body : Body, left : 0..TTL,
                 answer : Request \cup {NoId}, ran : BOOLEAN, late : BOOLEAN]

NoRow == [state |-> "absent", body |-> NoId, answer |-> NoId, left |-> 0]

Init ==
  /\ row = [k \in Key |-> NoRow]
  /\ request \in [Request -> [step : {"new"}, key : Key, body : Body, left : {0},
                              answer : {NoId}, ran : {FALSE}, late : {FALSE}]]

Scope(r) == row[request[r].key]

SetRow(r, value) == row' = [row EXCEPT ![request[r].key] = value]

Advance(r, step) == request' = [request EXCEPT ![r].step = step]

-----------------------------------------------------------------------------
(* Begin: three statements.                                                *)

\* A mistake: the key ends too early.
DeleteExpiredMutant(r) ==
  /\ request[r].step = "new"
  /\ IF Scope(r).left <= 1 THEN SetRow(r, NoRow) ELSE UNCHANGED row
  /\ request' = [request EXCEPT ![r] = [@ EXCEPT !.step = "expired", !.left = TTL]]

\* The DELETE of an expired row, under the time that also dates the row to be inserted.
DeleteExpired(r) ==
  /\ request[r].step = "new"
  /\ IF Scope(r).left = 0 THEN SetRow(r, NoRow) ELSE UNCHANGED row
  /\ request' = [request EXCEPT ![r] = [@ EXCEPT !.step = "expired", !.left = TTL]]

\* A mistake: the row of another request is taken over when its answer is not there yet.
InsertMutant(r) ==
  /\ request[r].step = "expired"
  /\ IF Scope(r).state # "completed"
     THEN /\ SetRow(r, [state |-> "started", body |-> request[r].body, answer |-> NoId,
                        left |-> request[r].left])
          /\ Advance(r, "owner")
     ELSE /\ Advance(r, "exists")
          /\ UNCHANGED row

\* INSERT ... ON CONFLICT DO NOTHING: one row changed makes the request the owner.
Insert(r) ==
  /\ request[r].step = "expired"
  /\ IF Scope(r).state = "absent"
     THEN /\ SetRow(r, [state |-> "started", body |-> request[r].body, answer |-> NoId,
                        left |-> request[r].left])
          /\ Advance(r, "owner")
     ELSE /\ Advance(r, "exists")
          /\ UNCHANGED row

\* A mistake: the hashes are not compared.
ReplayMutant(r) ==
  /\ request[r].step = "exists"
  /\ Scope(r).state = "completed"
  /\ request' = [request EXCEPT ![r] = [@ EXCEPT !.step = "answered", !.answer = Scope(r).answer]]
  /\ UNCHANGED row

\* Get finds the row of a request with the same body that was completed.  It does not
\* look at the time.
Replay(r) ==
  /\ request[r].step = "exists"
  /\ Scope(r).state = "completed" /\ Scope(r).body = request[r].body
  /\ request' = [request EXCEPT ![r] = [@ EXCEPT !.step = "answered", !.answer = Scope(r).answer]]
  /\ UNCHANGED row

\* Get finds no row, the row of another body, or one that is still started.
Conflict(r) ==
  /\ request[r].step = "exists"
  /\ Scope(r).state # "completed" \/ Scope(r).body # request[r].body
  /\ Advance(r, "told")
  /\ UNCHANGED row

-----------------------------------------------------------------------------
(* The handler, and what the middleware does with its answer.              *)

\* The transaction of the handler commits; nothing after it fails.
Commit(r) ==
  /\ request[r].step = "owner"
  /\ request' = [request EXCEPT ![r] = [@ EXCEPT !.step = "committed", !.ran = TRUE]]
  /\ UNCHANGED row

\* The handler answers without an effect: a status below 500, or one from 500 on.
Decline(r, step) ==
  /\ request[r].step = "owner"
  /\ Advance(r, step)
  /\ UNCHANGED row

\* The WHERE clause of Forget; that of Complete has the time besides.
StartedWithBody(r) == Scope(r).state = "started" /\ Scope(r).body = request[r].body

\* Neither the time nor the owner is compared, so the row may be another request's.
Forget(r) ==
  /\ request[r].step = "failed"
  /\ IF StartedWithBody(r) THEN SetRow(r, NoRow) ELSE UNCHANGED row
  /\ request' = [request EXCEPT ![r] =
       [@ EXCEPT !.step = "told", !.late = StartedWithBody(r) /\ request[r].left = 0]]

\* A mistake: the row keeps its state.
CompleteMutant(r) ==
  /\ request[r].step \in {"committed", "refused"}
  /\ StartedWithBody(r) /\ Scope(r).left > 0
  /\ SetRow(r, [Scope(r) EXCEPT !.answer = r])
  /\ request' = [request EXCEPT ![r] = [@ EXCEPT !.step = "answered", !.answer = r]]

Complete(r) ==
  /\ request[r].step \in {"committed", "refused"}
  /\ StartedWithBody(r) /\ Scope(r).left > 0
  /\ SetRow(r, [Scope(r) EXCEPT !.state = "completed", !.answer = r])
  /\ request' = [request EXCEPT ![r] = [@ EXCEPT !.step = "answered", !.answer = r]]

\* Complete changes no row: the client is told of a conflict, after an effect as well.
OwnershipLost(r) ==
  /\ request[r].step \in {"committed", "refused"}
  /\ ~(StartedWithBody(r) /\ Scope(r).left > 0)
  /\ Advance(r, "told")
  /\ UNCHANGED row

\* Any statement may fail, and the client is told so.  After a handler that failed, its
\* answer is sent all the same, and the key stays.
StatementFails(r) ==
  /\ request[r].step \in {"new", "expired", "exists", "committed", "refused", "failed"}
  /\ Advance(r, "told")
  /\ UNCHANGED row

-----------------------------------------------------------------------------

Lost(r) ==
  /\ request[r].step \notin {"new", "answered", "told", "lost"}
  /\ Advance(r, "lost")
  /\ UNCHANGED row

Earlier(n) == IF n = 0 THEN 0 ELSE n - 1

\* Time passes, for rows and requests alike.
Tick ==
  /\ (\E k \in Key : row[k].left > 0) \/ (\E r \in Request : request[r].left > 0)
  /\ row' = [k \in Key |-> [row[k] EXCEPT !.left = Earlier(@)]]
  /\ request' = [r \in Request |-> [request[r] EXCEPT !.left = Earlier(@)]]

Begin(r) == DeleteExpired(r) \/ Insert(r) \/ Replay(r) \/ Conflict(r)

Handle(r) == Commit(r) \/ \E step \in {"refused", "failed"} : Decline(r, step)

Finish(r) == Forget(r) \/ Complete(r) \/ OwnershipLost(r)

Next ==
  \/ \E r \in Request : Begin(r) \/ Handle(r) \/ Finish(r) \/ StatementFails(r) \/ Lost(r)
  \/ Tick

Spec == Init /\ [][Next]_vars

-----------------------------------------------------------------------------
(* Properties.                                                             *)

\* Rows and requests are well typed, and exactly the completed rows have an answer.
TypeOK ==
  /\ row \in [Key -> KeyRow]
  /\ request \in [Request -> RequestState]
  /\ \A k \in Key : row[k].answer # NoId <=> row[k].state = "completed"

\* The keys of r and s have time left at once.
Together(r, s) ==
  /\ request[r].key = request[s].key
  /\ request[r].left > 0 /\ request[s].left > 0

\* Some request forgot the key of r after its own time under it had ended: the row it
\* deleted may have been its successor's.
ForgottenLate(r) == \E t \in Request : request[t].key = request[r].key /\ request[t].late

\* While a key lasts, one request under it has an effect, whatever is lost or repeated,
\* unless its row was forgotten late (Begin, Complete and Forget together).
EffectOnce ==
  \A r, s \in Request :
    r # s /\ request[r].ran /\ request[s].ran /\ Together(r, s) => ForgottenLate(r)

\* The answer given to a request is one its own handler gave, or the handler of a request
\* of the same scope and the same body (Begin against Complete of another request).
AnswerOfSameBody ==
  \A r \in Request : request[r].step = "answered" =>
    LET s == request[r].answer IN
    /\ request[s].answer = s
    /\ request[s].key = request[r].key /\ request[s].body = request[r].body

\* What a client was told of a request it can ask for again until the key ends, unless a
\* row of the key was forgotten late: no later request deletes or replaces the stored
\* answer, and it stays as long as the owner was promised.
AnswerKept ==
  \A r \in Request :
    request[r].step = "answered" /\ request[r].answer = r /\ request[r].left > 0 =>
      \/ ForgottenLate(r)
      \/ Scope(r).state = "completed" /\ Scope(r).answer = r /\ Scope(r).body = request[r].body
=============================================================================
