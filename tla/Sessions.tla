------------------------------ MODULE Sessions ------------------------------
(***************************************************************************)
(* Users and sessions of one tenant of HeritageGuard: logins, the          *)
(* authentication every protected request goes through, logout, and the    *)
(* supervisor's creation and deactivation of users.  A login and an        *)
(* authentication are two statements each, and a request keeps the         *)
(* principal it was given until it ends; between its steps other requests  *)
(* run and time passes.  The server may stop and start again.              *)
(*                                                                         *)
(* No code makes a user active again, and a user's version changes with    *)
(* the deactivation only: "version = ? AND active = 1" is active here.     *)
(***************************************************************************)
EXTENDS Naturals

CONSTANTS
  User,        \* ids of users rows
  Supervisor,  \* those that are created with the role supervisor
  Bootstrap,   \* the user of the bootstrap variables of the environment
  SessionId,   \* ids of sessions rows
  Request,     \* requests that are served at a time
  NoId,        \* SQL NULL
  SessionTTL   \* in hours, say

ASSUME SessionsAssumption ==
  /\ Supervisor \subseteq User
  /\ Bootstrap \in Supervisor
  /\ NoId \notin User \cup SessionId
  /\ SessionTTL \in Nat \ {0}

VARIABLES
  server,    \* "down" or "up"
  user,      \* users rows: "absent", "active" or "inactive"
  session,   \* sessions rows
  request    \* what each request is doing

vars == <<server, user, session, request>>

-----------------------------------------------------------------------------

\* left counts down to expires_at.
SessionRow == [user : User \cup {NoId}, revoked : BOOLEAN, left : 0..SessionTTL]

\* At "login" the user has been read and its password compared; at "session" the session
\* has been read; at "principal" the handler runs in the name of user.
RequestState == [step : {"none", "login", "session", "principal"},
                 user : User \cup {NoId}, session : SessionId \cup {NoId}]

NoSession == [user |-> NoId, revoked |-> FALSE, left |-> 0]

NoRequest == [step |-> "none", user |-> NoId, session |-> NoId]

Init ==
  /\ server = "down"
  /\ user = [u \in User |-> "absent"]
  /\ session = [s \in SessionId |-> NoSession]
  /\ request = [r \in Request |-> NoRequest]

\* The request is answered, with or without success.
Answered(r) == request' = [request EXCEPT ![r] = NoRequest]

ActiveSupervisors == {u \in Supervisor : user[u] = "active"}

-----------------------------------------------------------------------------
(* The start of the server.                                                *)

\* EnsureSupervisor creates the user of the bootstrap variables when there is none, and
\* the server does not start when that user has been deactivated.
Start ==
  /\ server = "down"
  /\ user[Bootstrap] \in {"absent", "active"}
  /\ server' = "up"
  /\ user' = [user EXCEPT ![Bootstrap] = "active"]
  /\ UNCHANGED <<session, request>>

\* The server stops, or crashes: the requests it serves are gone.
Stop ==
  /\ server = "up"
  /\ server' = "down"
  /\ request' = [r \in Request |-> NoRequest]
  /\ UNCHANGED <<user, session>>

-----------------------------------------------------------------------------
(* Login and Authenticate.                                                 *)

\* Login finds an active user with this email and password.
LoginFindsUser(r, u) ==
  /\ server = "up"
  /\ request[r].step = "none"
  /\ user[u] = "active"
  /\ request' = [request EXCEPT ![r] = [step |-> "login", user |-> u, session |-> NoId]]
  /\ UNCHANGED <<server, user, session>>

\* Nothing is looked at again: the user may have been deactivated since.
CreateSession(r, s) ==
  /\ request[r].step = "login"
  /\ session[s].user = NoId
  /\ session' = [session EXCEPT ![s] =
       [user |-> request[r].user, revoked |-> FALSE, left |-> SessionTTL]]
  /\ Answered(r)
  /\ UNCHANGED <<server, user>>

\* A mistake: revoked_at is not looked at.
FindSessionMutant(r, s) ==
  /\ server = "up"
  /\ request[r].step = "none"
  /\ session[s].user # NoId /\ session[s].left > 0
  /\ request' = [request EXCEPT ![r] =
       [step |-> "session", user |-> session[s].user, session |-> s]]
  /\ UNCHANGED <<server, user, session>>

\* A request comes with the token of s, which is neither revoked nor expired.
FindSession(r, s) ==
  /\ server = "up"
  /\ request[r].step = "none"
  /\ session[s].user # NoId /\ ~session[s].revoked /\ session[s].left > 0
  /\ request' = [request EXCEPT ![r] =
       [step |-> "session", user |-> session[s].user, session |-> s]]
  /\ UNCHANGED <<server, user, session>>

\* A mistake: a session that was found is enough.
FindUserMutant(r) ==
  /\ request[r].step = "session"
  /\ request' = [request EXCEPT ![r].step = "principal"]
  /\ UNCHANGED <<server, user, session>>

\* The user is still active: the handler runs with the principal.
FindUser(r) ==
  /\ request[r].step = "session"
  /\ user[request[r].user] = "active"
  /\ request' = [request EXCEPT ![r].step = "principal"]
  /\ UNCHANGED <<server, user, session>>

\* The request ends: it is refused or cancelled, a statement fails, or another handler
\* has done its work.  Nothing here is changed.
End(r) ==
  /\ request[r].step # "none"
  /\ Answered(r)
  /\ UNCHANGED <<server, user, session>>

-----------------------------------------------------------------------------
(* The handlers.                                                           *)

\* A mistake: a logout deletes the row.
LogoutMutant(r) ==
  /\ request[r].step = "principal"
  /\ session' = [session EXCEPT ![request[r].session] = NoSession]
  /\ Answered(r)
  /\ UNCHANGED <<server, user>>

\* Revoking a session that is revoked already changes no row.
Logout(r) ==
  /\ request[r].step = "principal"
  /\ session' = [session EXCEPT ![request[r].session].revoked = TRUE]
  /\ Answered(r)
  /\ UNCHANGED <<server, user>>

\* RequireRole looks at the role the principal was given.
AsSupervisor(r) == request[r].step = "principal" /\ request[r].user \in Supervisor

\* The unique email keeps a second row out.
CreateUser(r, u) ==
  /\ AsSupervisor(r)
  /\ user[u] = "absent"
  /\ user' = [user EXCEPT ![u] = "active"]
  /\ Answered(r)
  /\ UNCHANGED <<server, session>>

Revoked(u) ==
  [s \in SessionId |-> [session[s] EXCEPT !.revoked = @ \/ session[s].user = u]]

\* A mistake: supervisors may deactivate themselves.
DeactivateUserMutant(r, u) ==
  /\ AsSupervisor(r)
  /\ user[u] = "active"
  /\ user' = [user EXCEPT ![u] = "inactive"]
  /\ session' = Revoked(u)
  /\ Answered(r)
  /\ UNCHANGED server

\* One transaction.  The actor's own account is not looked at again.
DeactivateUser(r, u) ==
  /\ AsSupervisor(r)
  /\ u # request[r].user
  /\ user[u] = "active"
  /\ user' = [user EXCEPT ![u] = "inactive"]
  /\ session' = Revoked(u)
  /\ Answered(r)
  /\ UNCHANGED server

-----------------------------------------------------------------------------

\* Time passes, as far as the sessions count it.
Tick ==
  /\ \E s \in SessionId : session[s].left > 0
  /\ session' = [s \in SessionId |->
       [session[s] EXCEPT !.left = IF @ = 0 THEN 0 ELSE @ - 1]]
  /\ UNCHANGED <<server, user, request>>

\* What a request does once it is being served.
Serve(r) ==
  \/ \E s \in SessionId : CreateSession(r, s)
  \/ FindUser(r)
  \/ Logout(r)
  \/ \E u \in User : CreateUser(r, u) \/ DeactivateUser(r, u)
  \/ End(r)

Next ==
  \/ Start \/ Stop \/ Tick
  \/ \E r \in Request :
       \/ \E u \in User : LoginFindsUser(r, u)
       \/ \E s \in SessionId : FindSession(r, s)
       \/ Serve(r)

Spec == Init /\ [][Next]_vars

\* A request that is served comes to an end.  Nothing else is owed: time may pass as
\* slowly as it likes, so no session ends by itself.
Fairness == \A r \in Request : WF_vars(Serve(r))

FairSpec == Spec /\ Fairness

-----------------------------------------------------------------------------
(* Properties.                                                             *)

\* Rows and requests are well typed, and a request has a user, and past the login a
\* session of that user, exactly as long as it is served.
TypeOK ==
  /\ server \in {"down", "up"}
  /\ user \in [User -> {"absent", "active", "inactive"}]
  /\ session \in [SessionId -> SessionRow]
  /\ request \in [Request -> RequestState]
  /\ \A r \in Request :
       /\ request[r].step = "none" <=> request[r].user = NoId
       /\ request[r].step \in {"session", "principal"} =>
            /\ request[r].session # NoId
            /\ session[request[r].session].user = request[r].user

ActsFor(r, u) == request[r].step = "principal" /\ request[r].user = u

\* Once a user has been deactivated, the requests that act for that user come to an end
\* and there are no others: not under the session of a login that overtook the
\* deactivation either (Authenticate, Login and DeactivateUserAndSessions together).
EventuallyShutOut ==
  \A u \in User :
    (user[u] = "inactive") ~> [](\A r \in Request : ~ActsFor(r, u))

\* Once a session has been revoked, by a logout or by a deactivation, no request is
\* served under it in the end.
EventuallyLoggedOut ==
  \A s \in SessionId : session[s].revoked ~> [](\A r \in Request : request[r].session # s)

\* The tenant loses its last active supervisor only through a request that acts for a
\* supervisor who has been deactivated meanwhile: two who deactivate each other at once,
\* never one alone (DeactivateUser against Authenticate).
LastSupervisorRace ==
  [][ActiveSupervisors # {} /\ ActiveSupervisors' = {}
       => \E r \in Request : AsSupervisor(r) /\ user[request[r].user] = "inactive"]_vars
=============================================================================
