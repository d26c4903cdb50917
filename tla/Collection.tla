----------------------------- MODULE Collection -----------------------------
(***************************************************************************)
(* The rows that more than one HeritageGuard service reads or writes: the  *)
(* artifacts and the incidents, and the service calls that are in flight   *)
(* between the moment they loaded their rows and the moment they write.    *)
(*                                                                         *)
(* Every service method has the same shape.  It loads rows outside any     *)
(* transaction, decides from what it loaded, and then runs one SQLite      *)
(* transaction whose UPDATEs repeat the version (and sometimes the status) *)
(* it loaded.  A transaction commits as one step or changes nothing, so a  *)
(* call is modelled by a load action and a commit action, and anything     *)
(* can happen in between.  Each call carries what the code carries from    *)
(* the load to the commit: row ids, row versions and its input.            *)
(***************************************************************************)
EXTENDS Naturals

CONSTANTS
  ArtifactId,   \* ids of artifact rows
  IncidentId,   \* ids of incident rows
  Caller,       \* goroutines that serve requests
  NoId,         \* SQL NULL, the empty string in Go
  MaxVersion    \* bound: a row whose version reached it is not updated again

ASSUME CollectionAssumption ==
  /\ MaxVersion \in Nat
  /\ NoId \notin ArtifactId

VARIABLES
  artifact,     \* artifact rows by id
  incident,     \* incident rows by id
  call          \* the call each caller has in flight

-----------------------------------------------------------------------------
(* Artifact rows.  "absent" with version 0 is an id with no row.           *)

ArtifactStatus ==
  {"registered", "assessment", "quarantined", "treatment", "ready",
   "on_display", "on_loan", "archived"}

\* What the last condition report allows: a final report of low or moderate
\* severity clears the artifact, a provisional, high or critical one blocks it.
Verdict == {"clears", "blocks"}

NoArtifact == [status |-> "absent", version |-> 0, currentCase |-> NoId,
               activeLoan |-> NoId, lastReport |-> "none"]

\* The conservation policy: the status changes an artifact may make.
ArtifactTransitions ==
  ({"registered"}  \X {"assessment", "quarantined"}) \cup
  ({"assessment"}  \X {"ready", "quarantined"}) \cup
  ({"quarantined"} \X {"treatment"}) \cup
  ({"treatment"}   \X {"ready", "quarantined"}) \cup
  ({"ready"}       \X {"on_display", "on_loan", "quarantined", "archived"}) \cup
  ({"on_display"}  \X {"ready", "quarantined"}) \cup
  ({"on_loan"}     \X {"ready", "quarantined"})

CanTransition(a, to) == <<artifact[a].status, to>> \in ArtifactTransitions

\* The optimistic lock of "WHERE id = a AND version = v".  (Mutant: no version
\* in the WHERE clause.)
CurrentMutant(a, v) == v <= artifact[a].version /\ artifact[a].version < MaxVersion
Current(a, v) == artifact[a].version = v /\ v < MaxVersion

\* "version = version + 1" and the columns named in the UPDATE.  (Mutant: the
\* version forgotten.)
UpdateArtifactMutant(a, row) == artifact' = [artifact EXCEPT ![a] = row]
UpdateArtifact(a, row) ==
  artifact' = [artifact EXCEPT ![a] = [row EXCEPT !.version = @ + 1]]

-----------------------------------------------------------------------------
(* Incident rows.                                                          *)

IncidentStatus == {"open", "responding", "monitoring", "closed"}

NoIncident == [status |-> "absent", version |-> 0, case |-> NoId,
               artifact |-> NoId, window |-> NoId, remediated |-> FALSE]

\* An incident of this artifact that is not closed.
HasActiveArtifactIncidents(a) ==
  \E i \in IncidentId : /\ incident[i].status \in IncidentStatus \ {"closed"}
                        /\ incident[i].artifact = a

-----------------------------------------------------------------------------
(* Calls in flight.                                                        *)

\* No call in flight: the caller is free to take a request.
NoCall == [op |-> "none", art |-> NoId, artVer |-> 0, row |-> NoId,
           rowVer |-> 0, arg |-> NoId, flag |-> FALSE]

\* The version of a row that exists.
Pos == Nat \ {0}

\* The calls of method op with these fields.
Calls(op, art, artVer, row, rowVer, arg, flag) ==
  [op : {op}, art : art, artVer : artVer, row : row, rowVer : rowVer,
   arg : arg, flag : flag]

\* Caller c loaded its rows and its checks passed.
Load(c, k) == call[c] = NoCall /\ call' = [call EXCEPT ![c] = k]

\* Caller c has the call of method op in flight.
InFlight(c, op) == call[c].op = op

\* The call of c returns.
Return(c) == call' = [call EXCEPT ![c] = NoCall]

\* A call that writes nothing: a version it loaded is no longer current, a
\* condition of the transaction does not hold, the database is busy, the
\* request was cancelled or the process died.  The transaction rolls back.
FailCall(c) ==
  /\ call[c] # NoCall
  /\ Return(c)
  /\ UNCHANGED <<artifact, incident>>

CollectionInit ==
  /\ artifact = [a \in ArtifactId |-> NoArtifact]
  /\ incident = [i \in IncidentId |-> NoIncident]
  /\ call = [c \in Caller |-> NoCall]
=============================================================================
