------------------------- MODULE IdempotencyProofs -------------------------
(***************************************************************************)
(* Proofs about Idempotency, for any sets of requests, keys and bodies and *)
(* any time to live.  A row does not name its owner, so the argument is    *)
(* about which requests may still claim it.                                *)
(***************************************************************************)
EXTENDS Idempotency, TLAPS

\* What the statements of one request do: it keeps its scope and its body, no other request
\* changes, and no row but that of its scope.
MyRequest(r) ==
  /\ request'[r].key = request[r].key /\ request'[r].body = request[r].body
  /\ \A s \in Request \ {r} : request'[s] = request[s]

MyRow(r) == \A k \in Key \ {request[r].key} : row'[k] = row[k]

RowsTyped ==
  /\ row \in [Key -> KeyRow]
  /\ \A k \in Key : row[k].answer # NoId <=> row[k].state = "completed"

Act(r) == Begin(r) \/ Handle(r) \/ Finish(r) \/ StatementFails(r) \/ Lost(r)

-----------------------------------------------------------------------------
(* Types.                                                                  *)

LEMMA RowType ==
  ASSUME TypeOK, NEW r \in Request, NEW value \in KeyRow,
         value.answer # NoId <=> value.state = "completed",
         SetRow(r, value)
  PROVE  RowsTyped' /\ MyRow(r) /\ row'[request[r].key] = value
  BY DEF TypeOK, SetRow, RequestState, RowsTyped, MyRow

LEMMA RequestType ==
  ASSUME TypeOK, NEW r \in Request, NEW value \in RequestState,
         request' = [request EXCEPT ![r] = value]
  PROVE  /\ request' \in [Request -> RequestState]
         /\ request'[r] = value
         /\ \A s \in Request \ {r} : request'[s] = request[s]
  BY DEF TypeOK

\* A request that only goes on to its next step.
LEMMA Advances ==
  ASSUME TypeOK, NEW r \in Request, NEW step \in Step, Advance(r, step)
  PROVE  /\ request' \in [Request -> RequestState]
         /\ request'[r] = [request[r] EXCEPT !.step = step]
         /\ \A s \in Request \ {r} : request'[s] = request[s]
  BY DEF TypeOK, RequestState, Advance

LEMMA NoRowType == NoRow \in KeyRow /\ NoRow.answer = NoId /\ NoRow.state = "absent"
  BY IdempotencyAssumption DEF NoRow, KeyRow

\* Rows that stay, for the actions that write none.
LEMMA RowsStay ==
  ASSUME TypeOK, UNCHANGED row
  PROVE  \A r \in Request : RowsTyped' /\ MyRow(r)
  BY DEF TypeOK, RowsTyped, MyRow

\* Every statement of a request keeps the types, and touches nothing of the others.
LEMMA ActTypes ==
  ASSUME TypeOK, NEW r \in Request, Act(r)
  PROVE  TypeOK' /\ MyRequest(r) /\ MyRow(r)
  <1>0. request[r] \in RequestState /\ request[r].key \in Key /\ Scope(r) \in KeyRow
    BY DEF TypeOK, RequestState, Scope
  <1>1. CASE DeleteExpired(r)
    <2>1. request' = [request EXCEPT ![r] = [request[r] EXCEPT !.step = "expired", !.left = TTL]]
      BY <1>1 DEF DeleteExpired
    <2>2. [request[r] EXCEPT !.step = "expired", !.left = TTL] \in RequestState
      <3>1. TTL \in 0..TTL
        BY IdempotencyAssumption
      <3>2. QED
        BY <1>0, <3>1 DEF RequestState, Step
    <2>3. request' \in [Request -> RequestState] /\ MyRequest(r)
      BY <1>0, <2>1, <2>2, RequestType DEF MyRequest, RequestState
    <2>4. SetRow(r, NoRow) \/ UNCHANGED row
      BY <1>1 DEF DeleteExpired
    <2>5. RowsTyped' /\ MyRow(r)
      BY <2>4, RowType, NoRowType, RowsStay
    <2>6. QED
      BY <2>3, <2>5 DEF TypeOK, RowsTyped
  <1>2. CASE Insert(r)
    <2> DEFINE new == [state |-> "started", body |-> request[r].body, answer |-> NoId,
                       left |-> request[r].left]
    <2>1. new \in KeyRow /\ (new.answer # NoId <=> new.state = "completed")
      BY <1>0 DEF KeyRow, RequestState
    <2>2. SetRow(r, new) \/ UNCHANGED row
      BY <1>2 DEF Insert
    <2> HIDE DEF new
    <2>3. PICK step \in Step : Advance(r, step)
      BY <1>2 DEF Insert, Step
    <2>4. request' \in [Request -> RequestState] /\ MyRequest(r)
      BY <1>0, <2>3, Advances DEF MyRequest, RequestState
    <2>5. RowsTyped' /\ MyRow(r)
      BY <2>1, <2>2, RowType, RowsStay
    <2>6. QED
      BY <2>4, <2>5 DEF TypeOK, RowsTyped
  <1>3. CASE Replay(r)
    <2>1. /\ request' = [request EXCEPT ![r] = [request[r] EXCEPT !.step = "answered",
                                                                  !.answer = Scope(r).answer]]
          /\ UNCHANGED row
      BY <1>3 DEF Replay
    <2>2. [request[r] EXCEPT !.step = "answered", !.answer = Scope(r).answer] \in RequestState
      BY <1>0 DEF RequestState, Step, KeyRow
    <2>3. request' \in [Request -> RequestState] /\ MyRequest(r)
      BY <1>0, <2>1, <2>2, RequestType DEF MyRequest, RequestState
    <2>4. QED
      BY <2>1, <2>3, RowsStay DEF TypeOK, RowsTyped
  <1>4. CASE Commit(r)
    <2>1. /\ request' = [request EXCEPT ![r] = [request[r] EXCEPT !.step = "committed",
                                                                  !.ran = TRUE]]
          /\ UNCHANGED row
      BY <1>4 DEF Commit
    <2>2. [request[r] EXCEPT !.step = "committed", !.ran = TRUE] \in RequestState
      BY <1>0 DEF RequestState, Step
    <2>3. request' \in [Request -> RequestState] /\ MyRequest(r)
      BY <1>0, <2>1, <2>2, RequestType DEF MyRequest, RequestState
    <2>4. QED
      BY <2>1, <2>3, RowsStay DEF TypeOK, RowsTyped
  <1>5. CASE Forget(r)
    <2> DEFINE late == StartedWithBody(r) /\ request[r].left = 0
    <2>1. request' = [request EXCEPT ![r] = [request[r] EXCEPT !.step = "told", !.late = late]]
      BY <1>5 DEF Forget
    <2>2. late \in BOOLEAN
      BY DEF StartedWithBody
    <2> HIDE DEF late
    <2>3. [request[r] EXCEPT !.step = "told", !.late = late] \in RequestState
      BY <1>0, <2>2 DEF RequestState, Step
    <2>4. request' \in [Request -> RequestState] /\ MyRequest(r)
      BY <1>0, <2>1, <2>3, RequestType DEF MyRequest, RequestState
    <2>5. SetRow(r, NoRow) \/ UNCHANGED row
      BY <1>5 DEF Forget
    <2>6. RowsTyped' /\ MyRow(r)
      BY <2>5, RowType, NoRowType, RowsStay
    <2>7. QED
      BY <2>4, <2>6 DEF TypeOK, RowsTyped
  <1>6. CASE Complete(r)
    <2> DEFINE new == [Scope(r) EXCEPT !.state = "completed", !.answer = r]
    <2>1. new \in KeyRow /\ new.answer # NoId /\ new.state = "completed"
      BY <1>0, IdempotencyAssumption DEF KeyRow
    <2>2. SetRow(r, new)
      BY <1>6 DEF Complete
    <2> HIDE DEF new
    <2>3. request' = [request EXCEPT ![r] = [request[r] EXCEPT !.step = "answered", !.answer = r]]
      BY <1>6 DEF Complete
    <2>4. [request[r] EXCEPT !.step = "answered", !.answer = r] \in RequestState
      BY <1>0 DEF RequestState, Step
    <2>5. request' \in [Request -> RequestState] /\ MyRequest(r)
      BY <1>0, <2>3, <2>4, RequestType DEF MyRequest, RequestState
    <2>6. RowsTyped' /\ MyRow(r)
      BY <2>1, <2>2, RowType
    <2>7. QED
      BY <2>5, <2>6 DEF TypeOK, RowsTyped
  <1>7. CASE \/ Conflict(r) \/ OwnershipLost(r) \/ StatementFails(r) \/ Lost(r)
             \/ \E step \in {"refused", "failed"} : Decline(r, step)
    <2>1. UNCHANGED row /\ \E step \in Step : Advance(r, step)
      BY <1>7 DEF Conflict, OwnershipLost, StatementFails, Lost, Decline, Step
    <2>2. request' \in [Request -> RequestState] /\ MyRequest(r)
      BY <1>0, <2>1, Advances DEF MyRequest, RequestState
    <2>3. QED
      BY <2>1, <2>2, RowsStay DEF TypeOK, RowsTyped
  <1>8. QED
    BY <1>1, <1>2, <1>3, <1>4, <1>5, <1>6, <1>7 DEF Act, Begin, Handle, Finish

\* Time takes one off what is left, and nothing else.
LEMMA TickFacts ==
  ASSUME TypeOK, Tick
  PROVE  /\ TypeOK'
         /\ \A k \in Key : /\ row'[k].state = row[k].state /\ row'[k].body = row[k].body
                           /\ row'[k].answer = row[k].answer
                           /\ row'[k].left = Earlier(row[k].left)
         /\ \A r \in Request :
              /\ request'[r].step = request[r].step /\ request'[r].key = request[r].key
              /\ request'[r].body = request[r].body /\ request'[r].answer = request[r].answer
              /\ request'[r].ran = request[r].ran /\ request'[r].late = request[r].late
              /\ request'[r].left = Earlier(request[r].left)
  <1>1. \A n \in 0..TTL : Earlier(n) \in 0..TTL
    BY IdempotencyAssumption DEF Earlier
  <1>2. \A k \in Key : row'[k] = [row[k] EXCEPT !.left = Earlier(row[k].left)]
    BY DEF Tick, TypeOK
  <1>3. \A r \in Request : request'[r] = [request[r] EXCEPT !.left = Earlier(request[r].left)]
    BY DEF Tick, TypeOK
  <1>4. ASSUME NEW k \in Key PROVE row[k] \in KeyRow /\ row'[k] \in KeyRow
    <2>1. row[k] \in KeyRow
      BY DEF TypeOK
    <2>2. Earlier(row[k].left) \in 0..TTL
      BY <1>1, <2>1 DEF KeyRow
    <2>3. QED
      BY <1>2, <2>1, <2>2 DEF KeyRow
  <1>5. ASSUME NEW r \in Request PROVE request[r] \in RequestState /\ request'[r] \in RequestState
    <2>1. request[r] \in RequestState
      BY DEF TypeOK
    <2>2. Earlier(request[r].left) \in 0..TTL
      BY <1>1, <2>1 DEF RequestState
    <2>3. QED
      BY <1>3, <2>1, <2>2 DEF RequestState
  <1>6. /\ row' = [k \in Key |-> [row[k] EXCEPT !.left = Earlier(row[k].left)]]
        /\ request' = [r \in Request |-> [request[r] EXCEPT !.left = Earlier(request[r].left)]]
    BY DEF Tick
  <1>7. row' \in [Key -> KeyRow] /\ request' \in [Request -> RequestState]
    BY <1>2, <1>3, <1>4, <1>5, <1>6
  <1>8. \A k \in Key : /\ row'[k].state = row[k].state /\ row'[k].body = row[k].body
                       /\ row'[k].answer = row[k].answer
                       /\ row'[k].left = Earlier(row[k].left)
    BY <1>2, <1>4 DEF KeyRow
  <1>9. \A r \in Request :
          /\ request'[r].step = request[r].step /\ request'[r].key = request[r].key
          /\ request'[r].body = request[r].body /\ request'[r].answer = request[r].answer
          /\ request'[r].ran = request[r].ran /\ request'[r].late = request[r].late
          /\ request'[r].left = Earlier(request[r].left)
    BY <1>3, <1>5 DEF RequestState
  <1>10. QED
    BY <1>7, <1>8, <1>9 DEF TypeOK

\* Begin, Complete and Forget keep the table and the requests well typed, and exactly the
\* completed rows have an answer.
THEOREM IdempotencyTypes == Spec => []TypeOK
  <1>1. Init => TypeOK
    <2> SUFFICES ASSUME Init PROVE TypeOK
      OBVIOUS
    <2>1. 0 \in 0..TTL
      BY IdempotencyAssumption
    <2>2. row \in [Key -> KeyRow]
      BY <2>1 DEF Init, NoRow, KeyRow
    <2>3. request \in [Request -> RequestState]
      BY <2>1 DEF Init, RequestState, Step
    <2>4. \A k \in Key : row[k].answer # NoId <=> row[k].state = "completed"
      BY DEF Init, NoRow
    <2>5. QED
      BY <2>2, <2>3, <2>4 DEF TypeOK
  <1>2. TypeOK /\ [Next]_vars => TypeOK'
    <2>1. CASE UNCHANGED vars
      BY <2>1 DEF vars, TypeOK
    <2>2. CASE Next
      BY <2>2, ActTypes, TickFacts DEF Next, Act
    <2>3. QED
      BY <2>1, <2>2
  <1>3. QED
    BY <1>1, <1>2, PTL DEF Spec

-----------------------------------------------------------------------------
(* What each statement leaves behind.                                      *)

\* The request r after a statement that changes no more than these fields.
Moves(r, step, answer) ==
  /\ request'[r].step = step /\ request'[r].answer = answer
  /\ request'[r].left = request[r].left /\ request'[r].late = request[r].late

LEMMA DeleteExpiredFields ==
  ASSUME TypeOK, NEW r \in Request, DeleteExpired(r)
  PROVE  /\ request[r].step = "new" /\ request'[r].step = "expired"
         /\ request'[r].answer = request[r].answer /\ request'[r].ran = request[r].ran
         /\ request'[r].late = request[r].late
         /\ \/ Scope(r).left = 0 /\ row'[request[r].key].state = "absent"
            \/ row' = row
  <1>1. request[r] \in RequestState /\ request[r].key \in Key
    BY DEF TypeOK, RequestState
  <1>2. request'[r] = [request[r] EXCEPT !.step = "expired", !.left = TTL]
    BY DEF DeleteExpired, TypeOK
  <1>3. (Scope(r).left = 0 /\ row'[request[r].key] = NoRow) \/ row' = row
    BY <1>1 DEF DeleteExpired, SetRow, TypeOK
  <1>4. request[r].step = "new"
    BY DEF DeleteExpired
  <1>5. /\ request'[r].step = "expired" /\ request'[r].answer = request[r].answer
        /\ request'[r].ran = request[r].ran /\ request'[r].late = request[r].late
    BY <1>1, <1>2 DEF RequestState
  <1>6. QED
    BY <1>3, <1>4, <1>5, NoRowType

LEMMA InsertFields ==
  ASSUME TypeOK, NEW r \in Request, Insert(r)
  PROVE  /\ request[r].step = "expired" /\ request'[r].ran = request[r].ran
         /\ \/ /\ Scope(r).state = "absent" /\ row'[request[r].key].state = "started"
               /\ row'[request[r].key].left = request[r].left
               /\ Moves(r, "owner", request[r].answer)
            \/ row' = row /\ Moves(r, "exists", request[r].answer)
  <1>1. request[r] \in RequestState /\ request[r].key \in Key
    BY DEF TypeOK, RequestState
  <1>2. \/ /\ Scope(r).state = "absent" /\ row'[request[r].key].state = "started"
           /\ row'[request[r].key].left = request[r].left
           /\ request'[r] = [request[r] EXCEPT !.step = "owner"]
        \/ row' = row /\ request'[r] = [request[r] EXCEPT !.step = "exists"]
    BY <1>1 DEF Insert, SetRow, Advance, TypeOK
  <1>3. QED
    BY <1>1, <1>2 DEF RequestState, Insert, Moves

LEMMA ReplayFields ==
  ASSUME TypeOK, NEW r \in Request, Replay(r)
  PROVE  /\ request[r].step = "exists" /\ request'[r].ran = request[r].ran
         /\ Scope(r).state = "completed" /\ Scope(r).body = request[r].body
         /\ Moves(r, "answered", Scope(r).answer) /\ row' = row
  <1>1. request[r] \in RequestState
    BY DEF TypeOK
  <1>2. request'[r] = [request[r] EXCEPT !.step = "answered", !.answer = Scope(r).answer]
    BY DEF Replay, TypeOK
  <1>3. /\ request[r].step = "exists" /\ row' = row
        /\ Scope(r).state = "completed" /\ Scope(r).body = request[r].body
    BY DEF Replay
  <1>4. request'[r].ran = request[r].ran /\ Moves(r, "answered", Scope(r).answer)
    BY <1>1, <1>2 DEF RequestState, Moves
  <1>5. QED
    BY <1>3, <1>4

LEMMA CommitFields ==
  ASSUME TypeOK, NEW r \in Request, Commit(r)
  PROVE  /\ request[r].step = "owner" /\ request'[r].ran
         /\ Moves(r, "committed", request[r].answer) /\ row' = row
  <1>1. request[r] \in RequestState
    BY DEF TypeOK
  <1>2. request'[r] = [request[r] EXCEPT !.step = "committed", !.ran = TRUE]
    BY DEF Commit, TypeOK
  <1>3. request[r].step = "owner" /\ row' = row
    BY DEF Commit
  <1>4. request'[r].ran /\ Moves(r, "committed", request[r].answer)
    BY <1>1, <1>2 DEF RequestState, Moves
  <1>5. QED
    BY <1>3, <1>4

LEMMA DeclineFields ==
  ASSUME TypeOK, NEW r \in Request, NEW step \in {"refused", "failed"}, Decline(r, step)
  PROVE  /\ request[r].step = "owner" /\ request'[r].ran = request[r].ran
         /\ Moves(r, step, request[r].answer) /\ row' = row
  <1>1. request[r] \in RequestState /\ request'[r] = [request[r] EXCEPT !.step = step]
    BY DEF TypeOK, Decline, Advance
  <1>2. QED
    BY <1>1 DEF RequestState, Decline, Moves

LEMMA ForgetFields ==
  ASSUME TypeOK, NEW r \in Request, Forget(r)
  PROVE  /\ request[r].step = "failed" /\ request'[r].step = "told"
         /\ request'[r].answer = request[r].answer /\ request'[r].ran = request[r].ran
         /\ request'[r].left = request[r].left
         /\ \/ /\ row'[request[r].key].state = "absent"
               /\ request'[r].late <=> request[r].left = 0
            \/ row' = row /\ ~request'[r].late
  <1> DEFINE late == StartedWithBody(r) /\ request[r].left = 0
  <1>1. request[r] \in RequestState /\ request[r].key \in Key
    BY DEF TypeOK, RequestState
  <1>2. request'[r] = [request[r] EXCEPT !.step = "told", !.late = late]
    BY DEF Forget, TypeOK
  <1>3. \/ StartedWithBody(r) /\ row'[request[r].key] = NoRow
        \/ ~StartedWithBody(r) /\ row' = row
    BY <1>1 DEF Forget, SetRow, TypeOK
  <1>4. (StartedWithBody(r) => (late <=> request[r].left = 0)) /\ (~StartedWithBody(r) => ~late)
    OBVIOUS
  <1> HIDE DEF late
  <1>5. /\ request'[r].step = "told" /\ request'[r].late = late
        /\ request'[r].answer = request[r].answer /\ request'[r].ran = request[r].ran
        /\ request'[r].left = request[r].left
    BY <1>1, <1>2 DEF RequestState
  <1>6. QED
    BY <1>3, <1>4, <1>5, NoRowType DEF Forget

LEMMA CompleteFields ==
  ASSUME TypeOK, NEW r \in Request, Complete(r)
  PROVE  /\ request[r].step \in {"committed", "refused"} /\ request'[r].ran = request[r].ran
         /\ Scope(r).state = "started" /\ Scope(r).left > 0
         /\ Moves(r, "answered", r)
         /\ row'[request[r].key].state = "completed" /\ row'[request[r].key].answer = r
         /\ row'[request[r].key].body = request[r].body
         /\ row'[request[r].key].left = Scope(r).left
  <1>1. /\ request[r] \in RequestState /\ request[r].key \in Key
        /\ Scope(r) \in KeyRow
    BY DEF TypeOK, RequestState, Scope
  <1>2. request'[r] = [request[r] EXCEPT !.step = "answered", !.answer = r]
    BY DEF Complete, TypeOK
  <1>3. row'[request[r].key] = [Scope(r) EXCEPT !.state = "completed", !.answer = r]
    BY <1>1 DEF Complete, SetRow, TypeOK
  <1>4. /\ request[r].step \in {"committed", "refused"}
        /\ Scope(r).state = "started" /\ Scope(r).body = request[r].body /\ Scope(r).left > 0
    BY DEF Complete, StartedWithBody
  <1>5. request'[r].ran = request[r].ran /\ Moves(r, "answered", r)
    BY <1>1, <1>2 DEF RequestState, Moves
  <1>6. /\ row'[request[r].key].state = "completed" /\ row'[request[r].key].answer = r
        /\ row'[request[r].key].body = Scope(r).body
        /\ row'[request[r].key].left = Scope(r).left
    BY <1>1, <1>3 DEF KeyRow
  <1>7. QED
    BY <1>4, <1>5, <1>6

\* The steps that write no row and after which the client has no answer of this key.
Leaves(r) == Conflict(r) \/ OwnershipLost(r) \/ StatementFails(r) \/ Lost(r)

LEMMA LeavesFields ==
  ASSUME TypeOK, NEW r \in Request, Leaves(r)
  PROVE  /\ request[r].step # "answered" /\ request[r].step # "told"
         /\ request'[r].ran = request[r].ran /\ row' = row
         /\ \E step \in {"told", "lost"} : Moves(r, step, request[r].answer)
  <1>1. request[r] \in RequestState
    BY DEF TypeOK
  <1>2. PICK step \in {"told", "lost"} : request'[r] = [request[r] EXCEPT !.step = step]
    BY DEF TypeOK, Leaves, Conflict, OwnershipLost, StatementFails, Lost, Advance
  <1>3. QED
    BY <1>1, <1>2
    DEF RequestState, Leaves, Conflict, OwnershipLost, StatementFails, Lost, Moves

LEMMA ActCases ==
  ASSUME NEW r \in Request, Act(r)
  PROVE  \/ DeleteExpired(r) \/ Insert(r) \/ Replay(r) \/ Commit(r) \/ Forget(r) \/ Complete(r)
         \/ Leaves(r) \/ \E step \in {"refused", "failed"} : Decline(r, step)
  BY DEF Act, Begin, Handle, Finish, Leaves

-----------------------------------------------------------------------------
(* Answers.                                                                *)

\* s has answered for itself under the key k, with the body b.
Answered(s, k, b) ==
  s \in Request /\ request[s].answer = s /\ request[s].key = k /\ request[s].body = b

\* Whatever answer a client has or a row keeps was given in its scope to its body.
AnswerInv ==
  /\ \A r \in Request : request[r].step # "answered" => request[r].answer = NoId
  /\ \A r \in Request : request[r].step = "answered" =>
       Answered(request[r].answer, request[r].key, request[r].body)
  /\ \A k \in Key : row[k].state = "completed" => Answered(row[k].answer, k, row[k].body)

\* How one statement may change the answers: its request gets its own or the stored one,
\* and its row keeps the answer of its own request or none that was not there.
AnswersMove(r) ==
  /\ request[r].step # "answered"
  /\ \/ request'[r].step # "answered" /\ request'[r].answer = request[r].answer
     \/ request'[r].step = "answered" /\ request'[r].answer = r
     \/ /\ request'[r].step = "answered" /\ request'[r].answer = Scope(r).answer
        /\ Scope(r).state = "completed" /\ Scope(r).body = request[r].body
  /\ \/ row' = row
     \/ row'[request[r].key].state # "completed"
     \/ /\ row'[request[r].key].answer = r /\ row'[request[r].key].body = request[r].body
        /\ request'[r].answer = r

LEMMA AnswersMoveByStatement ==
  ASSUME TypeOK, NEW r \in Request, Act(r)
  PROVE  AnswersMove(r)
  <1>1. CASE DeleteExpired(r)
    BY <1>1, DeleteExpiredFields DEF AnswersMove
  <1>2. CASE Insert(r)
    BY <1>2, InsertFields DEF AnswersMove, Moves
  <1>3. CASE Replay(r)
    BY <1>3, ReplayFields DEF AnswersMove, Moves
  <1>4. CASE Commit(r)
    BY <1>4, CommitFields DEF AnswersMove, Moves
  <1>5. CASE \E step \in {"refused", "failed"} : Decline(r, step)
    BY <1>5, DeclineFields DEF AnswersMove, Moves
  <1>6. CASE Forget(r)
    BY <1>6, ForgetFields DEF AnswersMove
  <1>7. CASE Complete(r)
    BY <1>7, CompleteFields DEF AnswersMove, Moves
  <1>8. CASE Leaves(r)
    BY <1>8, LeavesFields DEF AnswersMove, Moves
  <1>9. QED
    BY <1>1, <1>2, <1>3, <1>4, <1>5, <1>6, <1>7, <1>8, ActCases

LEMMA AnswerStep ==
  ASSUME TypeOK, AnswerInv, NEW r \in Request, Act(r)
  PROVE  AnswerInv'
  <1>1. AnswersMove(r) /\ MyRequest(r) /\ MyRow(r)
    BY AnswersMoveByStatement, ActTypes
  <1>2. r # NoId /\ request[r].answer = NoId /\ request[r].key \in Key
    BY <1>1, IdempotencyAssumption DEF AnswersMove, AnswerInv, TypeOK, RequestState
  <1>3. \A s, k, b : Answered(s, k, b) => Answered(s, k, b)'
    BY <1>1, <1>2 DEF Answered, MyRequest
  <1>4. request'[r].answer = r => Answered(r, request[r].key, request[r].body)'
    BY <1>1 DEF Answered, MyRequest
  <1>5. ASSUME NEW s \in Request
        PROVE  /\ request'[s].step # "answered" => request'[s].answer = NoId
               /\ request'[s].step = "answered" =>
                    Answered(request[s].answer, request[s].key, request[s].body)'
    <2>1. CASE s # r
      BY <1>1, <1>3, <2>1 DEF AnswerInv, MyRequest
    <2>2. CASE s = r
      BY <1>1, <1>2, <1>3, <1>4, <2>2 DEF AnswerInv, MyRequest, AnswersMove, Scope
    <2>3. QED
      BY <2>1, <2>2
  <1>6. ASSUME NEW k \in Key, row'[k].state = "completed"
        PROVE  Answered(row[k].answer, k, row[k].body)'
    <2>1. CASE row'[k] = row[k]
      BY <1>3, <1>6, <2>1 DEF AnswerInv
    <2>2. CASE row'[k] # row[k]
      <3>1. k = request[r].key
        BY <1>1, <2>2 DEF MyRow
      <3>2. row'[k].answer = r /\ row'[k].body = request[r].body /\ request'[r].answer = r
        BY <1>1, <1>6, <2>2, <3>1 DEF AnswersMove
      <3>3. QED
        BY <1>1, <3>1, <3>2 DEF Answered, MyRequest
    <2>3. QED
      BY <2>1, <2>2
  <1>7. QED
    BY <1>5, <1>6 DEF AnswerInv

THEOREM AnswerInvariant == Spec => []AnswerInv
  <1>1. Init => AnswerInv
    <2> SUFFICES ASSUME Init PROVE AnswerInv
      OBVIOUS
    <2>1. \A r \in Request : request[r].step = "new" /\ request[r].answer = NoId
      BY DEF Init
    <2>2. \A k \in Key : row[k].state = "absent"
      BY DEF Init, NoRow
    <2>3. QED
      BY <2>1, <2>2 DEF AnswerInv
  <1>2. TypeOK /\ AnswerInv /\ [Next]_vars => AnswerInv'
    <2> SUFFICES ASSUME TypeOK, AnswerInv, [Next]_vars PROVE AnswerInv'
      OBVIOUS
    <2>1. CASE UNCHANGED vars
      BY <2>1 DEF vars, AnswerInv, Answered
    <2>2. CASE Tick
      <3>1. \A s, k, b : Answered(s, k, b) => Answered(s, k, b)'
        BY <2>2, TickFacts DEF Answered
      <3>2. QED
        BY <2>2, <3>1, TickFacts DEF AnswerInv
    <2>3. CASE \E r \in Request : Act(r)
      BY <2>3, AnswerStep
    <2>4. QED
      BY <2>1, <2>2, <2>3 DEF Next, Act
  <1>3. QED
    BY <1>1, <1>2, IdempotencyTypes, PTL DEF Spec

\* A request is answered by its own handler or by one of its scope and its body (Begin
\* against Complete of another request).
THEOREM AnswersOfSameBody == Spec => []AnswerOfSameBody
  <1>1. AnswerInv => AnswerOfSameBody
    BY DEF AnswerInv, Answered, AnswerOfSameBody
  <1>2. QED
    BY <1>1, AnswerInvariant, PTL

-----------------------------------------------------------------------------
(* Owners.                                                                 *)

OwnAnswer(r) == request[r].step = "answered" /\ request[r].answer = r

\* r was told that its key is its own and has time left: it may run its handler, has run
\* it, or has answered.
Owner(r) ==
  /\ request[r].left > 0
  /\ \/ request[r].step \in {"owner", "committed", "refused", "failed"}
     \/ request[r].ran \/ OwnAnswer(r)

\* No row of the key was forgotten late.
OnTime(k) == \A t \in Request : request[t].key = k => ~request[t].late

\* What a request has done is known from its step.
StepsKnown ==
  \A r \in Request :
    /\ request[r].ran => request[r].step \in {"committed", "answered", "told", "lost"}
    /\ request[r].late => request[r].step = "told"

\* The row of an owner is there and lasts as long as the owner's time, and keeps its answer.
RowOfOwner(r) ==
  /\ Scope(r).state # "absent" /\ Scope(r).left >= request[r].left
  /\ OwnAnswer(r) => /\ Scope(r).state = "completed" /\ Scope(r).answer = r
                     /\ Scope(r).body = request[r].body

OwnerInv ==
  \A r \in Request : Owner(r) /\ OnTime(request[r].key) =>
    /\ RowOfOwner(r)
    /\ \A s \in Request : Owner(s) /\ request[s].key = request[r].key => s = r

\* How one statement may change who owns the key of its request: not at all, by deleting a
\* row that has ended, by inserting one, by forgetting one, or by completing one.
OwnersStay(r) ==
  row' = row /\ (Owner(r)' => Owner(r) /\ request'[r].left = request[r].left /\ ~OwnAnswer(r)')

RowEnds(r) == Scope(r).left = 0 /\ ~Owner(r)'

RowTaken(r) ==
  /\ Scope(r).state = "absent" /\ row'[request[r].key].state = "started"
  /\ row'[request[r].key].left = request'[r].left /\ ~OwnAnswer(r)'

RowForgotten(r) == ~Owner(r)' /\ (Owner(r) \/ request'[r].late)

RowCompleted(r) ==
  /\ Scope(r).state = "started"
  /\ row'[request[r].key].state = "completed" /\ row'[request[r].key].answer = r
  /\ row'[request[r].key].body = request[r].body
  /\ row'[request[r].key].left = Scope(r).left
  /\ Owner(r)' => Owner(r) /\ request'[r].left = request[r].left

OwnersMove(r) ==
  /\ OwnersStay(r) \/ RowEnds(r) \/ RowTaken(r) \/ RowForgotten(r) \/ RowCompleted(r)
  /\ request[r].late => request'[r].late
  /\ request'[r].ran => request'[r].step \in {"committed", "answered", "told", "lost"}
  /\ request'[r].late => request'[r].step = "told"

LEMMA OwnersMoveByStatement ==
  ASSUME TypeOK, AnswerInv, StepsKnown, NEW r \in Request, Act(r)
  PROVE  OwnersMove(r)
  <1>0. /\ request[r] \in RequestState /\ r # NoId
        /\ request[r].left \in Nat
    BY IdempotencyAssumption DEF TypeOK, RequestState
  <1>1. CASE DeleteExpired(r)
    <2>1. ~request[r].ran /\ ~request[r].late
      BY <1>1, DeleteExpiredFields DEF StepsKnown
    <2>2. ~Owner(r)'
      BY <1>1, <2>1, DeleteExpiredFields DEF Owner, OwnAnswer
    <2>3. OwnersStay(r) \/ RowEnds(r)
      BY <1>1, <2>2, DeleteExpiredFields DEF OwnersStay, RowEnds
    <2>4. QED
      BY <1>1, <2>1, <2>3, DeleteExpiredFields DEF OwnersMove
  <1>2. CASE Insert(r)
    <2>1. ~request[r].ran /\ ~request[r].late
      BY <1>2, InsertFields DEF StepsKnown
    <2>2. OwnersStay(r) \/ RowTaken(r)
      BY <1>2, <2>1, InsertFields DEF OwnersStay, RowTaken, Moves, Owner, OwnAnswer
    <2>3. QED
      BY <1>2, <2>1, <2>2, InsertFields DEF OwnersMove, Moves
  <1>3. CASE Replay(r)
    <2>1. ~request[r].ran /\ ~request[r].late
      BY <1>3, ReplayFields DEF StepsKnown
    <2>2. request'[r].answer # r
      <3>1. Answered(Scope(r).answer, request[r].key, request[r].body)
        BY <1>0, <1>3, ReplayFields DEF AnswerInv, Scope, RequestState
      <3>2. request[r].answer = NoId
        BY <1>3, ReplayFields DEF AnswerInv
      <3>3. QED
        BY <1>0, <1>3, <3>1, <3>2, ReplayFields DEF Answered, Moves
    <2>3. OwnersStay(r)
      BY <1>3, <2>1, <2>2, ReplayFields DEF OwnersStay, Moves, Owner, OwnAnswer
    <2>4. QED
      BY <1>3, <2>1, <2>3, ReplayFields DEF OwnersMove, Moves
  <1>4. CASE Commit(r)
    <2>1. OwnersStay(r)
      BY <1>4, CommitFields DEF OwnersStay, Moves, Owner, OwnAnswer
    <2>2. ~request[r].late
      BY <1>4, CommitFields DEF StepsKnown
    <2>3. QED
      BY <1>4, <2>1, <2>2, CommitFields DEF OwnersMove, Moves
  <1>5. CASE \E step \in {"refused", "failed"} : Decline(r, step)
    <2>1. OwnersStay(r)
      BY <1>5, DeclineFields DEF OwnersStay, Moves, Owner, OwnAnswer
    <2>2. ~request[r].late /\ ~request[r].ran
      BY <1>5, DeclineFields DEF StepsKnown
    <2>3. QED
      BY <1>5, <2>1, <2>2, DeclineFields DEF OwnersMove, Moves
  <1>6. CASE Forget(r)
    <2>1. ~request[r].late /\ ~request[r].ran
      BY <1>6, ForgetFields DEF StepsKnown
    <2>2. ~Owner(r)'
      BY <1>6, <2>1, ForgetFields DEF Owner, OwnAnswer
    <2>3. Owner(r) \/ request[r].left = 0
      BY <1>0, <1>6, ForgetFields DEF Owner
    <2>4. OwnersStay(r) \/ RowForgotten(r)
      BY <1>6, <2>2, <2>3, ForgetFields DEF OwnersStay, RowForgotten
    <2>5. QED
      BY <1>6, <2>1, <2>4, ForgetFields DEF OwnersMove
  <1>7. CASE Complete(r)
    <2>1. RowCompleted(r)
      BY <1>7, CompleteFields DEF RowCompleted, Moves, Owner
    <2>2. ~request[r].late
      BY <1>7, CompleteFields DEF StepsKnown
    <2>3. QED
      BY <1>7, <2>1, <2>2, CompleteFields DEF OwnersMove, Moves
  <1>8. CASE Leaves(r)
    <2>1. OwnersStay(r)
      BY <1>8, LeavesFields DEF OwnersStay, Moves, Owner, OwnAnswer
    <2>2. ~request[r].late
      BY <1>8, LeavesFields DEF StepsKnown
    <2>3. QED
      BY <1>8, <2>1, <2>2, LeavesFields DEF OwnersMove, Moves
  <1>9. QED
    BY <1>1, <1>2, <1>3, <1>4, <1>5, <1>6, <1>7, <1>8, ActCases

LEMMA StepsKnownStep ==
  ASSUME TypeOK, AnswerInv, StepsKnown, NEW r \in Request, Act(r)
  PROVE  StepsKnown'
  BY OwnersMoveByStatement, ActTypes DEF OwnersMove, MyRequest, StepsKnown

\* A key on time after a statement was so before it.
LEMMA OnTimeBefore ==
  ASSUME NEW r \in Request, MyRequest(r), OwnersMove(r), NEW k \in Key, OnTime(k)'
  PROVE  OnTime(k)
  BY DEF MyRequest, OwnersMove, OnTime

\* Owners under keys other than the statement's.
LEMMA OtherOwners ==
  ASSUME NEW r \in Request, MyRequest(r), MyRow(r), NEW s \in Request \ {r}
  PROVE  /\ Owner(s)' <=> Owner(s)
         /\ OwnAnswer(s)' <=> OwnAnswer(s)
         /\ request'[s].key = request[s].key /\ request'[s].left = request[s].left
         /\ request'[s].body = request[s].body
         /\ request[s].key \in Key /\ request[s].key # request[r].key => RowOfOwner(s)' = RowOfOwner(s)
         /\ row' = row => RowOfOwner(s)' = RowOfOwner(s)
  BY DEF MyRequest, MyRow, Owner, OwnAnswer, RowOfOwner, Scope

LEMMA OwnerStep ==
  ASSUME TypeOK, AnswerInv, StepsKnown, OwnerInv, NEW r \in Request, Act(r)
  PROVE  OwnerInv'
  <1>1. OwnersMove(r) /\ MyRequest(r) /\ MyRow(r)
    BY OwnersMoveByStatement, ActTypes
  <1>2. \A s \in Request : request[s].key \in Key /\ request[s].left \in Nat /\ request'[s].left \in Nat
    BY ActTypes, IdempotencyAssumption DEF TypeOK, RequestState
  <1>3. \A k \in Key : row[k].left \in Nat
    BY IdempotencyAssumption DEF TypeOK, KeyRow
  <1>4. PICK k \in Key : k = request[r].key
    BY <1>2
  \* It is enough to look at the key of r: at r, and at the others there.
  <1>5. ASSUME OnTime(k)'
        PROVE  /\ Owner(r)' => /\ RowOfOwner(r)'
                               /\ \A s \in Request \ {r} : request[s].key = k => ~Owner(s)
               /\ \A s \in Request \ {r} : Owner(s) /\ request[s].key = k => RowOfOwner(s)'
    <2>1. OnTime(request[r].key)
      BY <1>1, <1>4, <1>5, OnTimeBefore
    <2>2. /\ Owner(r) => RowOfOwner(r)
          /\ Owner(r) => \A s \in Request \ {r} : request[s].key = k => ~Owner(s)
          /\ \A s \in Request \ {r} : Owner(s) /\ request[s].key = k =>
               /\ Scope(r).state # "absent" /\ Scope(r).left >= request[s].left
               /\ request[s].left > 0
               /\ OwnAnswer(s) => Scope(r).state = "completed"
      BY <1>4, <2>1 DEF OwnerInv, RowOfOwner, Scope, Owner
    <2>3. request'[r].key = k /\ \A s \in Request \ {r} : request'[s] = request[s]
      BY <1>1, <1>4 DEF MyRequest
    <2>4. CASE OwnersStay(r)
      <3>1. Owner(r)' => RowOfOwner(r)'
        BY <1>4, <2>2, <2>3, <2>4 DEF OwnersStay, RowOfOwner, Scope
      <3>2. \A s \in Request \ {r} : Owner(s) /\ request[s].key = k => RowOfOwner(s)'
        BY <1>4, <2>1, <2>3, <2>4 DEF OwnersStay, OwnerInv, RowOfOwner, Scope, OwnAnswer
      <3>3. QED
        BY <2>2, <2>4, <3>1, <3>2 DEF OwnersStay
    <2>5. CASE RowEnds(r)
      <3>1. \A s \in Request \ {r} : request[s].key = k => ~Owner(s)
        BY <1>2, <1>4, <2>2, <2>5 DEF RowEnds
      <3>2. QED
        BY <2>5, <3>1 DEF RowEnds
    <2>6. CASE RowTaken(r)
      <3>1. \A s \in Request \ {r} : request[s].key = k => ~Owner(s)
        BY <2>2, <2>6 DEF RowTaken
      <3>2. RowOfOwner(r)'
        BY <1>2, <1>4, <2>3, <2>6 DEF RowTaken, RowOfOwner, Scope
      <3>3. QED
        BY <3>1, <3>2
    <2>7. CASE RowForgotten(r)
      <3>1. ~request'[r].late
        BY <1>5, <2>3 DEF OnTime
      <3>2. QED
        BY <2>2, <2>7, <3>1 DEF RowForgotten
    <2>8. CASE RowCompleted(r)
      <3>1. Owner(r)' => RowOfOwner(r)'
        BY <1>1, <1>4, <2>2, <2>3, <2>8 DEF RowCompleted, RowOfOwner, Scope, MyRequest
      <3>2. ASSUME NEW s \in Request \ {r}, Owner(s), request[s].key = k
            PROVE  RowOfOwner(s)'
        <4>1. ~OwnAnswer(s)' /\ request'[s].key = k /\ request'[s].left = request[s].left
          BY <2>2, <2>3, <2>8, <3>2 DEF RowCompleted, OwnAnswer
        <4>2. row'[k].state = "completed" /\ row'[k].left >= request[s].left
          BY <1>4, <2>2, <2>8, <3>2 DEF RowCompleted
        <4>3. QED
          BY <4>1, <4>2 DEF RowOfOwner, Scope
      <3>3. QED
        BY <2>2, <2>8, <3>1, <3>2 DEF RowCompleted
    <2>9. QED
      BY <1>1, <2>4, <2>5, <2>6, <2>7, <2>8 DEF OwnersMove
  <1>6. ASSUME NEW s \in Request, Owner(s)', OnTime(request[s].key)'
        PROVE  /\ RowOfOwner(s)'
               /\ \A t \in Request : Owner(t)' /\ request'[t].key = request'[s].key => t = s
    <2>1. PICK i \in Key : i = request'[s].key /\ i = request[s].key
      BY <1>1, <1>2 DEF MyRequest
    <2>2. OnTime(i)' /\ OnTime(i)
      BY <1>1, <1>6, <2>1, OnTimeBefore DEF OnTime
    <2>3. CASE s # r /\ i # k
      <3>1. RowOfOwner(s)'
        BY <1>1, <1>4, <1>6, <2>1, <2>2, <2>3, OtherOwners DEF OwnerInv
      <3>2. QED
        BY <1>1, <1>4, <1>6, <2>1, <2>2, <2>3, <3>1, OtherOwners DEF OwnerInv, MyRequest
    <2>4. CASE s # r /\ i = k
      <3>1. Owner(s) /\ request[s].key = k
        BY <1>1, <1>6, <2>1, <2>4, OtherOwners
      <3>2. RowOfOwner(s)' /\ ~Owner(r)'
        BY <1>5, <2>2, <2>4, <3>1
      <3>3. ASSUME NEW t \in Request, Owner(t)', request'[t].key = request'[s].key PROVE t = s
        <4>1. t # r /\ Owner(t) /\ request[t].key = k
          BY <1>1, <2>1, <2>4, <3>2, <3>3, OtherOwners
        <4>2. QED
          BY <2>1, <2>2, <2>4, <3>1, <4>1 DEF OwnerInv
      <3>4. QED
        BY <3>2, <3>3
    <2>5. CASE s = r
      <3>1. /\ RowOfOwner(r)'
            /\ \A t \in Request \ {r} : request[t].key = k => ~Owner(t)
        BY <1>4, <1>5, <1>6, <2>1, <2>2, <2>5
      <3>2. ASSUME NEW t \in Request \ {r}, Owner(t)' PROVE request'[t].key # request'[r].key
        BY <1>1, <1>4, <3>1, <3>2, OtherOwners DEF MyRequest
      <3>3. QED
        BY <2>5, <3>1, <3>2
    <2>6. QED
      BY <2>3, <2>4, <2>5
  <1>7. QED
    BY <1>6 DEF OwnerInv

\* Time wears out owners and rows alike.
LEMMA OwnerTick ==
  ASSUME TypeOK, OwnerInv, Tick
  PROVE  OwnerInv'
  <1>1. \A m, n \in Nat : m >= n => Earlier(m) >= Earlier(n)
    BY DEF Earlier
  <1>2. \A n \in Nat : Earlier(n) > 0 => n > 0
    BY DEF Earlier
  <1>3. ASSUME NEW r \in Request, Owner(r)' PROVE Owner(r)
    <2>1. request[r].left \in Nat /\ request'[r].left = Earlier(request[r].left)
      BY IdempotencyAssumption, TickFacts DEF TypeOK, RequestState
    <2>2. QED
      BY <1>2, <1>3, <2>1, TickFacts DEF Owner, OwnAnswer
  <1>4. \A r \in Request : OnTime(request[r].key)' => OnTime(request[r].key)
    BY TickFacts DEF OnTime
  <1>5. ASSUME NEW r \in Request, RowOfOwner(r) PROVE RowOfOwner(r)'
    <2>1. request[r].key \in Key /\ request[r].left \in Nat /\ row[request[r].key].left \in Nat
      BY IdempotencyAssumption DEF TypeOK, RequestState, KeyRow
    <2>2. Earlier(row[request[r].key].left) >= Earlier(request[r].left)
      BY <1>1, <1>5, <2>1 DEF RowOfOwner, Scope
    <2>3. QED
      BY <1>5, <2>1, <2>2, TickFacts DEF RowOfOwner, Scope, OwnAnswer
  <1>6. QED
    BY <1>3, <1>4, <1>5, TickFacts DEF OwnerInv

THEOREM OwnerInvariant == Spec => [](StepsKnown /\ OwnerInv)
  <1>1. Init => StepsKnown /\ OwnerInv
    <2> SUFFICES ASSUME Init PROVE StepsKnown /\ OwnerInv
      OBVIOUS
    <2>1. \A r \in Request : /\ request[r].step = "new" /\ request[r].left = 0
                             /\ ~request[r].ran /\ ~request[r].late
      BY DEF Init
    <2>2. QED
      BY <2>1 DEF StepsKnown, OwnerInv, Owner
  <1>2. /\ TypeOK /\ AnswerInv /\ StepsKnown /\ OwnerInv /\ [Next]_vars
        => (StepsKnown /\ OwnerInv)'
    <2> SUFFICES ASSUME TypeOK, AnswerInv, StepsKnown, OwnerInv, [Next]_vars
                 PROVE  StepsKnown' /\ OwnerInv'
      OBVIOUS
    <2>1. CASE UNCHANGED vars
      BY <2>1 DEF vars, StepsKnown, OwnerInv, Owner, OwnAnswer, OnTime, RowOfOwner, Scope
    <2>2. CASE Tick
      BY <2>2, TickFacts, OwnerTick DEF StepsKnown
    <2>3. CASE \E r \in Request : Act(r)
      BY <2>3, StepsKnownStep, OwnerStep
    <2>4. QED
      BY <2>1, <2>2, <2>3 DEF Next, Act
  <1>3. QED
    BY <1>1, <1>2, IdempotencyTypes, AnswerInvariant, PTL DEF Spec

\* One request under a key has an effect while the key lasts, whatever is lost, repeated or
\* late, unless a row was forgotten late (Begin, Complete and Forget together).
THEOREM EffectsOnce == Spec => []EffectOnce
  <1>1. TypeOK /\ OwnerInv => EffectOnce
    BY DEF TypeOK, RequestState, OwnerInv, Owner, OnTime, EffectOnce, Together, ForgottenLate
  <1>2. QED
    BY <1>1, IdempotencyTypes, OwnerInvariant, PTL

\* The answer of an owner is stored until its key ends, unless a row was forgotten late.
THEOREM AnswersKept == Spec => []AnswerKept
  <1>1. OwnerInv => AnswerKept
    BY DEF OwnerInv, RowOfOwner, Owner, OwnAnswer, OnTime, AnswerKept, ForgottenLate
  <1>2. QED
    BY <1>1, OwnerInvariant, PTL
=============================================================================
