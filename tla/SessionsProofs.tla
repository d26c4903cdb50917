--------------------------- MODULE SessionsProofs ---------------------------
(***************************************************************************)
(* Users, sessions and requests: the types of Sessions, and the only way   *)
(* in which a tenant loses its last active supervisor.                     *)
(***************************************************************************)
EXTENDS Sessions, TLAPS

\* What a request, or a session row, names is a user's row that exists: ids are handed
\* out with the row, and no code deletes one.
UsersExist ==
  /\ \A r \in Request : request[r].user # NoId => user[request[r].user] # "absent"
  /\ \A s \in SessionId : session[s].user # NoId => user[session[s].user] # "absent"

IInv == TypeOK /\ UsersExist

-----------------------------------------------------------------------------
(* The records a step writes.                                              *)

LEMMA NullRecords ==
  /\ NoRequest \in RequestState /\ NoRequest.step = "none" /\ NoRequest.user = NoId
  /\ NoSession \in SessionRow /\ NoSession.user = NoId
BY SessionsAssumption DEF NoRequest, RequestState, NoSession, SessionRow

\* What a request carries while it is served.
LEMMA Served ==
  ASSUME TypeOK, NEW r \in Request, request[r].step # "none"
  PROVE  /\ request[r] \in RequestState
         /\ request[r].user \in User /\ request[r].user # NoId
         /\ request[r].step \in {"session", "principal"} =>
              /\ request[r].session \in SessionId
              /\ session[request[r].session].user = request[r].user
<1>1. request[r] \in RequestState
  BY DEF TypeOK
<1>2. request[r].user # NoId
  BY DEF TypeOK
<1>3. request[r].user \in User /\ request[r].session \in SessionId \cup {NoId}
  BY <1>1, <1>2 DEF RequestState
<1> QED BY <1>1, <1>2, <1>3 DEF TypeOK

\* A step that gives one request another record, and no session row another user.
LEMMA RequestMoves ==
  ASSUME TypeOK, NEW r \in Request, NEW k \in RequestState,
         request' = [request EXCEPT ![r] = k],
         k.step = "none" <=> k.user = NoId,
         k.step \in {"session", "principal"} =>
           k.session # NoId /\ session'[k.session].user = k.user,
         server' \in {"down", "up"},
         user' \in [User -> {"absent", "active", "inactive"}],
         session' \in [SessionId -> SessionRow],
         \A s \in SessionId : session[s].user # NoId => session'[s].user = session[s].user
  PROVE  TypeOK'
<1>1. request' \in [Request -> RequestState] /\ request'[r] = k
      /\ \A t \in Request \ {r} : request'[t] = request[t]
  BY DEF TypeOK
<1>2. ASSUME NEW t \in Request
      PROVE  /\ request'[t].step = "none" <=> request'[t].user = NoId
             /\ request'[t].step \in {"session", "principal"} =>
                  /\ request'[t].session # NoId
                  /\ session'[request'[t].session].user = request'[t].user
  <2>1. CASE t = r
    BY <1>1, <2>1
  <2>2. CASE t # r
    <3>1. request'[t] = request[t]
      BY <1>1, <2>2
    <3>2. request[t].step = "none" <=> request[t].user = NoId
      BY DEF TypeOK
    <3>3. ASSUME request[t].step \in {"session", "principal"}
          PROVE  /\ request[t].session # NoId
                 /\ session'[request[t].session].user = request[t].user
      <4>1. request[t].session \in SessionId /\ request[t].user # NoId
            /\ session[request[t].session].user = request[t].user
        BY <3>3, Served
      <4> QED BY <4>1, SessionsAssumption
    <3> QED BY <3>1, <3>2, <3>3
  <2> QED BY <2>1, <2>2
<1> QED BY <1>1, <1>2 DEF TypeOK

\* A request that is answered asks for nothing more.
LEMMA AnsweredMoves ==
  ASSUME TypeOK, NEW r \in Request, Answered(r),
         server' \in {"down", "up"},
         user' \in [User -> {"absent", "active", "inactive"}],
         session' \in [SessionId -> SessionRow],
         \A s \in SessionId : session[s].user # NoId => session'[s].user = session[s].user
  PROVE  TypeOK'
<1>1. NoRequest.step \notin {"session", "principal"}
  BY DEF NoRequest
<1>2. request' = [request EXCEPT ![r] = NoRequest]
  BY DEF Answered
<1> QED BY <1>1, <1>2, NullRecords, RequestMoves

\* The rows after a deactivation and after a tick differ in revoked and left.
LEMMA RevokedRows ==
  ASSUME session \in [SessionId -> SessionRow], NEW u \in User
  PROVE  /\ Revoked(u) \in [SessionId -> SessionRow]
         /\ \A s \in SessionId : Revoked(u)[s].user = session[s].user
<1>1. ASSUME NEW s \in SessionId
      PROVE  /\ [session[s] EXCEPT !.revoked = @ \/ session[s].user = u] \in SessionRow
             /\ [session[s] EXCEPT !.revoked = @ \/ session[s].user = u].user
                  = session[s].user
  <2>1. session[s] \in SessionRow
    OBVIOUS
  <2>2. (session[s].revoked \/ session[s].user = u) \in BOOLEAN
    OBVIOUS
  <2> QED BY <2>1, <2>2 DEF SessionRow
<1> QED BY <1>1 DEF Revoked

LEMMA TickedRows ==
  ASSUME session \in [SessionId -> SessionRow], Tick
  PROVE  /\ session' \in [SessionId -> SessionRow]
         /\ \A s \in SessionId : session'[s].user = session[s].user
<1>1. ASSUME NEW s \in SessionId
      PROVE  session'[s] \in SessionRow /\ session'[s].user = session[s].user
  <2> DEFINE n == IF session[s].left = 0 THEN 0 ELSE session[s].left - 1
  <2>1. session[s] \in SessionRow
    OBVIOUS
  <2>2. session[s].left \in 0..SessionTTL
    BY <2>1 DEF SessionRow
  <2>3. n \in 0..SessionTTL
    BY <2>2, SessionsAssumption
  <2>4. session'[s] = [session[s] EXCEPT !.left = n]
    BY DEF Tick
  <2> HIDE DEF n
  <2> QED BY <2>1, <2>3, <2>4 DEF SessionRow
<1>2. DOMAIN session' = SessionId /\ session' = [s \in SessionId |-> session'[s]]
  BY DEF Tick
<1> QED BY <1>1, <1>2

-----------------------------------------------------------------------------
(* Types.                                                                  *)

LEMMA InitTypes == Init => TypeOK
<1> SUFFICES ASSUME Init PROVE TypeOK
  OBVIOUS
<1>1. \A r \in Request : request[r] = NoRequest
  BY DEF Init
<1>2. NoRequest.step = "none"
  BY NullRecords
<1>3. session \in [SessionId -> SessionRow] /\ request \in [Request -> RequestState]
  BY NullRecords DEF Init
<1> QED BY <1>1, <1>2, <1>3, NullRecords DEF Init, TypeOK

LEMMA TypeStep == TypeOK /\ [Next]_vars => TypeOK'
<1> SUFFICES ASSUME TypeOK, [Next]_vars PROVE TypeOK'
  OBVIOUS
<1>0. /\ server \in {"down", "up"}
      /\ user \in [User -> {"absent", "active", "inactive"}]
      /\ session \in [SessionId -> SessionRow]
  BY DEF TypeOK
<1>1. CASE UNCHANGED vars
  BY <1>1 DEF vars, TypeOK
<1>2. CASE Start
  <2>1. user' \in [User -> {"absent", "active", "inactive"}] /\ server' \in {"down", "up"}
        /\ UNCHANGED <<session, request>>
    BY <1>0, <1>2 DEF Start
  <2> QED BY <2>1 DEF TypeOK
<1>3. CASE Stop
  <2>1. /\ server' = "down" /\ UNCHANGED <<user, session>>
        /\ request' = [r \in Request |-> NoRequest]
    BY <1>3 DEF Stop
  <2>2. NoRequest.step \notin {"session", "principal"}
    BY DEF NoRequest
  <2> QED BY <1>0, <2>1, <2>2, NullRecords DEF TypeOK
<1>4. CASE Tick
  <2>1. /\ session' \in [SessionId -> SessionRow]
        /\ \A s \in SessionId : session'[s].user = session[s].user
    BY <1>0, <1>4, TickedRows
  <2>2. UNCHANGED <<server, user, request>>
    BY <1>4 DEF Tick
  <2>3. \A r \in Request : request[r].step \in {"session", "principal"} =>
          session'[request[r].session].user = request[r].user
    BY <2>1, Served
  <2> QED BY <1>0, <2>1, <2>2, <2>3 DEF TypeOK
<1>5. ASSUME NEW r \in Request, NEW u \in User, LoginFindsUser(r, u) PROVE TypeOK'
  <2> DEFINE k == [step |-> "login", user |-> u, session |-> NoId]
  <2>1. request' = [request EXCEPT ![r] = k] /\ UNCHANGED <<server, user, session>>
    BY <1>5 DEF LoginFindsUser
  <2>2. k \in RequestState /\ k.step = "login" /\ k.user # NoId
    BY SessionsAssumption DEF RequestState
  <2> HIDE DEF k
  <2> QED BY <1>0, <2>1, <2>2, RequestMoves
<1>6. ASSUME NEW r \in Request, NEW s \in SessionId, FindSession(r, s) PROVE TypeOK'
  <2> DEFINE k == [step |-> "session", user |-> session[s].user, session |-> s]
  <2>1. request' = [request EXCEPT ![r] = k] /\ UNCHANGED <<server, user, session>>
        /\ session[s].user # NoId
    BY <1>6 DEF FindSession
  <2>2. session[s].user \in User \cup {NoId}
    BY <1>0 DEF SessionRow
  <2>3. k \in RequestState /\ k.step = "session" /\ k.user # NoId
        /\ k.session = s /\ k.user = session[s].user
    BY <2>1, <2>2 DEF RequestState
  <2>4. s # NoId
    BY SessionsAssumption
  <2> HIDE DEF k
  <2> QED BY <1>0, <2>1, <2>3, <2>4, RequestMoves
<1>7. ASSUME NEW r \in Request, NEW s \in SessionId, CreateSession(r, s) PROVE TypeOK'
  <2> DEFINE row == [user |-> request[r].user, revoked |-> FALSE, left |-> SessionTTL]
  <2>1. /\ request[r].step = "login" /\ session[s].user = NoId /\ Answered(r)
        /\ session' = [session EXCEPT ![s] = row] /\ UNCHANGED <<server, user>>
    BY <1>7 DEF CreateSession
  <2>2. row \in SessionRow
    <3>1. SessionTTL \in 0..SessionTTL
      BY SessionsAssumption
    <3>2. request[r].user \in User
      BY <2>1, Served
    <3> QED BY <3>1, <3>2 DEF SessionRow
  <2> HIDE DEF row
  <2>3. session' \in [SessionId -> SessionRow] /\ \A t \in SessionId \ {s} : session'[t] = session[t]
    BY <1>0, <2>1, <2>2
  <2> QED BY <1>0, <2>1, <2>3, AnsweredMoves
<1>8. ASSUME NEW r \in Request, FindUser(r) PROVE TypeOK'
  <2> DEFINE k == [request[r] EXCEPT !.step = "principal"]
  <2>1. request[r].step = "session" /\ request' = [request EXCEPT ![r] = k]
        /\ UNCHANGED <<server, user, session>>
    BY <1>8 DEF FindUser
  <2>2. request[r] \in RequestState /\ request[r].user # NoId
        /\ request[r].session \in SessionId
        /\ session[request[r].session].user = request[r].user
    BY <2>1, Served
  <2>3. k \in RequestState /\ k.step = "principal" /\ k.user = request[r].user
        /\ k.session = request[r].session
    BY <2>2 DEF RequestState
  <2> HIDE DEF k
  <2> QED BY <1>0, <2>1, <2>2, <2>3, RequestMoves, SessionsAssumption
<1>9. ASSUME NEW r \in Request, Logout(r) PROVE TypeOK'
  <2> DEFINE s == request[r].session
  <2>1. request[r].step = "principal" /\ Answered(r) /\ UNCHANGED <<server, user>>
        /\ session' = [session EXCEPT ![s] = [session[s] EXCEPT !.revoked = TRUE]]
    BY <1>9 DEF Logout
  <2>2. s \in SessionId
    BY <2>1, Served
  <2> HIDE DEF s
  <2>3. session[s] \in SessionRow
    BY <1>0, <2>2
  <2>4. [session[s] EXCEPT !.revoked = TRUE] \in SessionRow
        /\ [session[s] EXCEPT !.revoked = TRUE].user = session[s].user
    BY <2>3 DEF SessionRow
  <2>5. session' \in [SessionId -> SessionRow]
        /\ \A t \in SessionId : session'[t].user = session[t].user
    BY <1>0, <2>1, <2>2, <2>4
  <2> QED BY <1>0, <2>1, <2>5, AnsweredMoves
<1>10. ASSUME NEW r \in Request, NEW u \in User, CreateUser(r, u) PROVE TypeOK'
  <2>1. /\ user' \in [User -> {"absent", "active", "inactive"}]
        /\ Answered(r) /\ UNCHANGED <<server, session>>
    BY <1>0, <1>10 DEF CreateUser
  <2> QED BY <1>0, <2>1, AnsweredMoves
<1>11. ASSUME NEW r \in Request, NEW u \in User, DeactivateUser(r, u) PROVE TypeOK'
  <2>1. /\ user' \in [User -> {"absent", "active", "inactive"}]
        /\ session' = Revoked(u) /\ Answered(r) /\ UNCHANGED server
    BY <1>0, <1>11 DEF DeactivateUser
  <2>2. /\ session' \in [SessionId -> SessionRow]
        /\ \A s \in SessionId : session'[s].user = session[s].user
    BY <1>0, <2>1, RevokedRows
  <2> QED BY <1>0, <2>1, <2>2, AnsweredMoves
<1>12. ASSUME NEW r \in Request, End(r) PROVE TypeOK'
  BY <1>0, <1>12, AnsweredMoves DEF End
<1> QED
  BY <1>1, <1>2, <1>3, <1>4, <1>5, <1>6, <1>7, <1>8, <1>9, <1>10, <1>11, <1>12
     DEF Next, Serve

\* Rows and requests keep their types, and a request acts for the user of the session it
\* came with, whatever logs in, logs out, is deactivated or restarts meanwhile.
THEOREM TypeCorrect == Spec => []TypeOK
BY InitTypes, TypeStep, PTL DEF Spec

-----------------------------------------------------------------------------
(* Users that requests and sessions name.                                  *)

\* A row stays, and only an active user's becomes inactive.
UsersStay ==
  \A u \in User : /\ user[u] # "absent" => user'[u] # "absent"
                  /\ user[u] = "inactive" => user'[u] = "inactive"

\* Every request goes on for its user, ends, or begins for a user that exists.
RequestUsers ==
  \A r \in Request :
    \/ request'[r].user \in {request[r].user, NoId}
    \/ request'[r].user \in User /\ user[request'[r].user] = "active"
    \/ \E s \in SessionId : session[s].user # NoId /\ request'[r].user = session[s].user

\* A session row keeps its user, or is inserted for the user of a login.
SessionUsers ==
  \A s \in SessionId :
    \/ session'[s].user = session[s].user
    \/ \E r \in Request : request[r].user # NoId /\ session'[s].user = request[r].user

LEMMA AnsweredUsers ==
  ASSUME TypeOK, NEW r \in Request, Answered(r)
  PROVE  RequestUsers
<1>1. request \in [Request -> RequestState]
  BY DEF TypeOK
<1>2. request'[r].user = NoId /\ \A t \in Request \ {r} : request'[t] = request[t]
  BY <1>1, NullRecords DEF Answered
<1> QED BY <1>2 DEF RequestUsers

LEMMA UserChanges == TypeOK /\ [Next]_vars => UsersStay /\ RequestUsers /\ SessionUsers
<1> SUFFICES ASSUME TypeOK, [Next]_vars PROVE UsersStay /\ RequestUsers /\ SessionUsers
  OBVIOUS
<1>0. /\ user \in [User -> {"absent", "active", "inactive"}]
      /\ session \in [SessionId -> SessionRow]
      /\ request \in [Request -> RequestState]
  BY DEF TypeOK
<1>a. UNCHANGED user => UsersStay
  BY DEF UsersStay
<1>b. UNCHANGED request => RequestUsers
  BY DEF RequestUsers
<1>c. UNCHANGED session => SessionUsers
  BY DEF SessionUsers
<1>1. CASE UNCHANGED vars
  BY <1>a, <1>b, <1>c, <1>1 DEF vars
<1>2. CASE Start
  <2>1. /\ user[Bootstrap] # "inactive" /\ user' = [user EXCEPT ![Bootstrap] = "active"]
        /\ UNCHANGED <<session, request>>
    BY <1>2 DEF Start
  <2>2. UsersStay
    BY <1>0, <2>1 DEF UsersStay
  <2> QED BY <1>b, <1>c, <2>1, <2>2
<1>3. CASE Stop
  <2>1. \A r \in Request : request'[r].user = NoId
    BY <1>3, NullRecords DEF Stop
  <2> QED BY <1>a, <1>c, <1>3, <2>1 DEF Stop, RequestUsers
<1>4. CASE Tick
  <2>1. \A s \in SessionId : session'[s].user = session[s].user
    BY <1>0, <1>4, TickedRows
  <2> QED BY <1>a, <1>b, <1>4, <2>1 DEF Tick, SessionUsers
<1>5. ASSUME NEW r \in Request, NEW u \in User, LoginFindsUser(r, u)
      PROVE  UsersStay /\ RequestUsers /\ SessionUsers
  <2>1. /\ user[u] = "active" /\ UNCHANGED <<user, session>>
        /\ request' = [request EXCEPT ![r] = [step |-> "login", user |-> u, session |-> NoId]]
    BY <1>5 DEF LoginFindsUser
  <2>2. request'[r].user = u /\ \A t \in Request \ {r} : request'[t] = request[t]
    BY <1>0, <2>1
  <2>3. RequestUsers
    BY <2>1, <2>2 DEF RequestUsers
  <2> QED BY <1>a, <1>c, <2>1, <2>3
<1>6. ASSUME NEW r \in Request, NEW s \in SessionId, FindSession(r, s)
      PROVE  UsersStay /\ RequestUsers /\ SessionUsers
  <2>1. /\ session[s].user # NoId /\ UNCHANGED <<user, session>>
        /\ request' = [request EXCEPT ![r] =
             [step |-> "session", user |-> session[s].user, session |-> s]]
    BY <1>6 DEF FindSession
  <2>2. request'[r].user = session[s].user
        /\ \A t \in Request \ {r} : request'[t] = request[t]
    BY <1>0, <2>1
  <2>3. RequestUsers
    BY <2>1, <2>2 DEF RequestUsers
  <2> QED BY <1>a, <1>c, <2>1, <2>3
<1>7. ASSUME NEW r \in Request, NEW s \in SessionId, CreateSession(r, s)
      PROVE  UsersStay /\ RequestUsers /\ SessionUsers
  <2>1. /\ request[r].step = "login" /\ Answered(r) /\ UNCHANGED user
        /\ session' = [session EXCEPT ![s] =
             [user |-> request[r].user, revoked |-> FALSE, left |-> SessionTTL]]
    BY <1>7 DEF CreateSession
  <2>2. session'[s].user = request[r].user
        /\ \A t \in SessionId \ {s} : session'[t] = session[t]
    BY <1>0, <2>1
  <2>3. request[r].user # NoId
    BY <2>1, Served
  <2>4. SessionUsers
    BY <2>2, <2>3 DEF SessionUsers
  <2> QED BY <1>a, <2>1, <2>4, AnsweredUsers
<1>8. ASSUME NEW r \in Request, FindUser(r)
      PROVE  UsersStay /\ RequestUsers /\ SessionUsers
  <2>1. request' = [request EXCEPT ![r] = [request[r] EXCEPT !.step = "principal"]]
        /\ UNCHANGED <<user, session>>
    BY <1>8 DEF FindUser
  <2>2. request[r] \in RequestState
    BY <1>0
  <2>3. request'[r].user = request[r].user
        /\ \A t \in Request \ {r} : request'[t] = request[t]
    BY <1>0, <2>1, <2>2 DEF RequestState
  <2>4. RequestUsers
    BY <2>3 DEF RequestUsers
  <2> QED BY <1>a, <1>c, <2>1, <2>4
<1>9. ASSUME NEW r \in Request, Logout(r)
      PROVE  UsersStay /\ RequestUsers /\ SessionUsers
  <2> DEFINE s == request[r].session
  <2>1. /\ request[r].step = "principal" /\ Answered(r) /\ UNCHANGED user
        /\ session' = [session EXCEPT ![s] = [session[s] EXCEPT !.revoked = TRUE]]
    BY <1>9 DEF Logout
  <2>2. s \in SessionId
    BY <2>1, Served
  <2> HIDE DEF s
  <2>3. session[s] \in SessionRow
    BY <1>0, <2>2
  <2>4. [session[s] EXCEPT !.revoked = TRUE].user = session[s].user
    BY <2>3 DEF SessionRow
  <2>5. \A t \in SessionId : session'[t].user = session[t].user
    BY <1>0, <2>1, <2>2, <2>4
  <2> QED BY <1>a, <2>1, <2>5, AnsweredUsers DEF SessionUsers
<1>10. ASSUME NEW r \in Request, NEW u \in User, CreateUser(r, u)
       PROVE  UsersStay /\ RequestUsers /\ SessionUsers
  <2>1. /\ user[u] = "absent" /\ user' = [user EXCEPT ![u] = "active"]
        /\ Answered(r) /\ UNCHANGED session
    BY <1>10 DEF CreateUser
  <2>2. UsersStay
    BY <1>0, <2>1 DEF UsersStay
  <2> QED BY <1>c, <2>1, <2>2, AnsweredUsers
<1>11. ASSUME NEW r \in Request, NEW u \in User, DeactivateUser(r, u)
       PROVE  UsersStay /\ RequestUsers /\ SessionUsers
  <2>1. /\ user' = [user EXCEPT ![u] = "inactive"] /\ session' = Revoked(u) /\ Answered(r)
    BY <1>11 DEF DeactivateUser
  <2>2. UsersStay
    BY <1>0, <2>1 DEF UsersStay
  <2>3. \A s \in SessionId : session'[s].user = session[s].user
    BY <1>0, <2>1, RevokedRows
  <2> QED BY <2>1, <2>2, <2>3, AnsweredUsers DEF SessionUsers
<1>12. ASSUME NEW r \in Request, End(r)
       PROVE  UsersStay /\ RequestUsers /\ SessionUsers
  BY <1>a, <1>c, <1>12, AnsweredUsers DEF End
<1> QED
  BY <1>1, <1>2, <1>3, <1>4, <1>5, <1>6, <1>7, <1>8, <1>9, <1>10, <1>11, <1>12
     DEF Next, Serve

LEMMA InitUsers == Init => UsersExist
<1> SUFFICES ASSUME Init PROVE UsersExist
  OBVIOUS
<1>1. /\ \A r \in Request : request[r].user = NoId
      /\ \A s \in SessionId : session[s].user = NoId
  BY NullRecords DEF Init
<1> QED BY <1>1 DEF UsersExist

LEMMA UsersStep == IInv /\ [Next]_vars => UsersExist'
<1> SUFFICES ASSUME IInv, [Next]_vars PROVE UsersExist'
  OBVIOUS
<1>1. TypeOK /\ UsersExist /\ TypeOK'
  BY TypeStep DEF IInv
<1>2. UsersStay /\ RequestUsers /\ SessionUsers
  BY <1>1, UserChanges
<1>3. /\ \A r \in Request : request[r].user \in User \cup {NoId}
                             /\ request'[r].user \in User \cup {NoId}
      /\ \A s \in SessionId : session[s].user \in User \cup {NoId}
                             /\ session'[s].user \in User \cup {NoId}
  BY <1>1 DEF TypeOK, RequestState, SessionRow
<1>4. ASSUME NEW r \in Request, request'[r].user # NoId
      PROVE  user'[request'[r].user] # "absent"
  <2>1. user[request'[r].user] # "absent"
    BY <1>1, <1>2, <1>4 DEF RequestUsers, UsersExist
  <2> QED BY <1>2, <1>3, <1>4, <2>1 DEF UsersStay
<1>5. ASSUME NEW s \in SessionId, session'[s].user # NoId
      PROVE  user'[session'[s].user] # "absent"
  <2>1. user[session'[s].user] # "absent"
    BY <1>1, <1>2, <1>5 DEF SessionUsers, UsersExist
  <2> QED BY <1>2, <1>3, <1>5, <2>1 DEF UsersStay
<1> QED BY <1>4, <1>5 DEF UsersExist

LEMMA Invariance == Spec => []IInv
<1>1. Init => IInv
  BY InitTypes, InitUsers DEF IInv
<1>2. IInv /\ [Next]_vars => IInv'
  BY TypeStep, UsersStep DEF IInv
<1> QED BY <1>1, <1>2, PTL DEF Spec

-----------------------------------------------------------------------------
(* The last supervisor.                                                    *)

\* Only a deactivation makes an active user inactive.
LEMMA WhoDeactivates ==
  ASSUME TypeOK, [Next]_vars, NEW v \in User, user[v] = "active", user'[v] # "active"
  PROVE  \E r \in Request : DeactivateUser(r, v)
<1>0. user \in [User -> {"absent", "active", "inactive"}]
  BY DEF TypeOK
<1>1. ~UNCHANGED user
  OBVIOUS
<1>2. ~Start
  BY <1>0 DEF Start
<1>3. ASSUME NEW r \in Request, NEW u \in User
      PROVE  ~CreateUser(r, u)
  BY <1>0 DEF CreateUser
<1>4. PICK r \in Request, u \in User : DeactivateUser(r, u)
  BY <1>1, <1>2, <1>3 DEF Next, vars, Serve, Stop, Tick, LoginFindsUser, FindSession,
     CreateSession, FindUser, Logout, End
<1>5. v = u
  BY <1>0, <1>4 DEF DeactivateUser
<1> QED BY <1>4, <1>5

LEMMA RaceStep ==
  IInv /\ [Next]_vars =>
    (ActiveSupervisors # {} /\ ActiveSupervisors' = {}
       => \E r \in Request : AsSupervisor(r) /\ user[request[r].user] = "inactive")
<1> SUFFICES ASSUME IInv, [Next]_vars, ActiveSupervisors # {}, ActiveSupervisors' = {}
             PROVE  \E r \in Request :
                      AsSupervisor(r) /\ user[request[r].user] = "inactive"
  OBVIOUS
<1>0. TypeOK /\ UsersExist
  BY DEF IInv
<1>1. PICK v \in Supervisor : user[v] = "active"
  BY DEF ActiveSupervisors
<1>2. v \in User /\ user'[v] # "active"
  BY SessionsAssumption, <1>1 DEF ActiveSupervisors
<1>3. PICK r \in Request : DeactivateUser(r, v)
  BY <1>0, <1>1, <1>2, WhoDeactivates
<1>4. /\ AsSupervisor(r) /\ v # request[r].user
      /\ user' = [user EXCEPT ![v] = "inactive"]
  BY <1>3 DEF DeactivateUser
<1>5. request[r].user \in Supervisor /\ request[r].step = "principal"
  BY <1>4 DEF AsSupervisor
<1>6. request[r].user \in User /\ request[r].user # NoId
  BY <1>0, <1>5, Served
<1>7. user'[request[r].user] # "active"
  BY <1>5 DEF ActiveSupervisors
<1>8. user'[request[r].user] = user[request[r].user]
  BY <1>0, <1>2, <1>4, <1>6 DEF TypeOK
<1>9. user[request[r].user] \in {"active", "inactive"}
  BY <1>0, <1>6 DEF TypeOK, UsersExist
<1> QED BY <1>4, <1>7, <1>8, <1>9

\* A tenant that has an active supervisor loses the last one only through a request that
\* acts for a supervisor who has been deactivated meanwhile: whoever logs in, is created,
\* deactivated or restarts the server, for any number of users, sessions and requests.
THEOREM LastSupervisorRaceHolds == Spec => LastSupervisorRace
<1>1. IInv /\ [Next]_vars =>
        [ActiveSupervisors # {} /\ ActiveSupervisors' = {}
           => \E r \in Request : AsSupervisor(r) /\ user[request[r].user] = "inactive"]_vars
  BY RaceStep
<1> QED BY <1>1, Invariance, PTL DEF Spec, LastSupervisorRace
=============================================================================
