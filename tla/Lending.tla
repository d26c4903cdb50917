------------------------------- MODULE Lending -------------------------------
(***************************************************************************)
(* Inter-museum loans (internal/loan, loans.go of the SQLite store): draft,*)
(* submission, approval against incidents and overlapping commitments, and *)
(* the custody events that move the artifact out of the house and back.    *)
(* The code can neither cancel nor reject a loan: no operation does it.    *)
(***************************************************************************)
EXTENDS Collection, Sequences

CONSTANTS
  LoanId,      \* ids of loan requests
  Period,      \* the loan periods that are asked for
  StartAt,     \* start_at of each period
  EndAt        \* end_at of each period, exclusive

ASSUME LendingAssumption ==
  /\ NoId \notin LoanId
  /\ StartAt \in [Period -> Nat]
  /\ EndAt \in [Period -> Nat]
  /\ \A p \in Period : StartAt[p] < EndAt[p]

VARIABLES
  loan,        \* loan requests by id
  custody      \* kinds of the custody events recorded for each loan, in order

lendingVars == <<loan, custody>>

LoanStatus == {"draft", "submitted", "approved", "packed", "dispatched",
               "returning", "returned", "rejected", "cancelled"}

NoLoan == [status |-> "absent", version |-> 0, artifact |-> NoId, period |-> NoId]

LoanTransitions ==
  ({"draft"}     \X {"submitted", "cancelled"}) \cup
  ({"submitted"} \X {"approved", "rejected", "cancelled"}) \cup
  ({"approved"}  \X {"packed", "cancelled"}) \cup
  {<<"packed", "dispatched">>, <<"dispatched", "returning">>,
   <<"returning", "returned">>}

LoanCanTransition(l, to) == <<loan[l].status, to>> \in LoanTransitions

CustodyKind == {"packed", "dispatched", "returning", "returned"}

\* The loan status a custody event of this kind starts from ...
CustodyFrom == [packed |-> "approved", dispatched |-> "packed",
                returning |-> "dispatched", returned |-> "returning"]

\* (Mutant: the loan's word for it.)
CustodyArtifactStatusMutant ==
  [packed |-> "packed", dispatched |-> "dispatched",
   returning |-> "on_loan", returned |-> "assessment"]
\* ... and the status it gives the artifact, whatever the artifact's own was.
CustodyArtifactStatus == [packed |-> "ready", dispatched |-> "on_loan",
                          returning |-> "on_loan", returned |-> "assessment"]

\* Statuses that commit the artifact to a period.
Committing == {"submitted", "approved", "packed", "dispatched", "returning"}

\* The loan the artifact is bound to after the event.  (Mutant: never unbound.)
LoanAfterMutant(kind, l) == l
LoanAfter(kind, l) == IF kind = "returned" THEN NoId ELSE l

\* Half-open intervals.
Overlap(p, r) == StartAt[p] < EndAt[r] /\ StartAt[r] < EndAt[p]

\* A committing loan of artifact a, other than l, that overlaps period p.
Overlapping(a, p, l) ==
  \E m \in LoanId \ {l} : /\ loan[m].artifact = a
                          /\ loan[m].status \in Committing
                          /\ Overlap(loan[m].period, p)

\* The optimistic lock of a loan.  (Mutant: no version in the WHERE clause.)
LoanCurrentMutant(l, v) == loan[l].version < MaxVersion
LoanCurrent(l, v) == loan[l].version = v

\* "active_loan_id IS NULL".  (Mutant: the condition dropped.)
UnpromisedMutant(a) == TRUE
Unpromised(a) == artifact[a].activeLoan = NoId

LendingInit ==
  /\ loan = [l \in LoanId |-> NoLoan]
  /\ custody = [l \in LoanId |-> <<>>]

-----------------------------------------------------------------------------
(* Draft, submission, approval.                                            *)

\* The artifact is looked at here and never again.
CreateLoan(c, a) ==
  /\ artifact[a].status = "ready"
  /\ artifact[a].currentCase = NoId
  /\ artifact[a].activeLoan = NoId
  /\ \E p \in Period :
       Load(c, [NoCall EXCEPT !.op = "CreateLoan", !.art = a, !.arg = p])
  /\ UNCHANGED <<artifact, incident, lendingVars>>

\* The reads of the incidents and of the overlapping loans, before the INSERT.
CheckCommitments(c) ==
  LET k == call[c] IN
  /\ InFlight(c, "CreateLoan")
  /\ ~HasActiveArtifactIncidents(k.art)
  /\ ~Overlapping(k.art, k.arg, NoId)
  /\ call' = [call EXCEPT ![c] = [k EXCEPT !.op = "InsertLoan"]]
  /\ UNCHANGED <<artifact, incident, lendingVars>>

\* The INSERT of the draft, which checks nothing again.
InsertLoan(c, l) ==
  /\ InFlight(c, "InsertLoan")
  /\ loan[l] = NoLoan
  /\ loan' = [loan EXCEPT ![l] = [status |-> "draft", version |-> 1,
                artifact |-> call[c].art, period |-> call[c].arg]]
  /\ Return(c)
  /\ UNCHANGED <<artifact, incident, custody>>

Submit(c, l) ==
  /\ LoanCanTransition(l, "submitted")
  /\ Load(c, [NoCall EXCEPT !.op = "Submit", !.row = l, !.rowVer = loan[l].version])
  /\ UNCHANGED <<artifact, incident, lendingVars>>

UpdateLoan(c) ==
  LET k == call[c] IN
  /\ InFlight(c, "Submit")
  /\ LoanCurrent(k.row, k.rowVer)
  /\ loan' = [loan EXCEPT ![k.row].status = "submitted", ![k.row].version = @ + 1]
  /\ Return(c)
  /\ UNCHANGED <<artifact, incident, custody>>

\* The loan is read before the artifact; the transaction checks the versions of
\* both, so a pair read at two moments commits only if it also existed at one.
Approve(c, l) ==
  /\ LoanCanTransition(l, "approved")
  /\ LET a == loan[l].artifact IN
       Load(c, [NoCall EXCEPT !.op = "Approve", !.art = a, !.row = l,
                              !.artVer = artifact[a].version,
                              !.rowVer = loan[l].version])
  /\ UNCHANGED <<artifact, incident, lendingVars>>

\* One transaction: no active incident, the artifact ready, no overlapping
\* commitment, the loan still submitted, the artifact not promised to a loan.
ApproveLoanAtomically(c) ==
  LET k == call[c] IN
  /\ InFlight(c, "Approve")
  /\ ~HasActiveArtifactIncidents(k.art)
  /\ ~Overlapping(k.art, loan[k.row].period, k.row)
  /\ LoanCurrent(k.row, k.rowVer)
  /\ loan[k.row].status = "submitted"
  /\ Current(k.art, k.artVer)
  /\ artifact[k.art].status = "ready"
  /\ Unpromised(k.art)
  /\ loan' = [loan EXCEPT ![k.row].status = "approved", ![k.row].version = @ + 1]
  /\ UpdateArtifact(k.art, [artifact[k.art] EXCEPT !.activeLoan = k.row])
  /\ Return(c)
  /\ UNCHANGED <<incident, custody>>

-----------------------------------------------------------------------------
(* Custody.                                                                *)

\* As for Approve, loan and artifact count as read at one moment.
RecordCustody(c, l, kind) ==
  /\ loan[l].status = CustodyFrom[kind]
  /\ LET a == loan[l].artifact IN
       Load(c, [NoCall EXCEPT !.op = "RecordCustody", !.art = a, !.row = l,
                              !.artVer = artifact[a].version,
                              !.rowVer = loan[l].version, !.arg = kind])
  /\ UNCHANGED <<artifact, incident, lendingVars>>

\* One transaction: the custody event, the loan row and the artifact row, the
\* last two guarded by their versions only.
SaveCustody(c) ==
  LET k == call[c] IN
  /\ InFlight(c, "RecordCustody")
  /\ LoanCurrent(k.row, k.rowVer)
  /\ Current(k.art, k.artVer)
  /\ custody' = [custody EXCEPT ![k.row] = Append(@, k.arg)]
  /\ loan' = [loan EXCEPT ![k.row].status = k.arg, ![k.row].version = @ + 1]
  /\ UpdateArtifact(k.art, [artifact[k.art] EXCEPT
       !.status = CustodyArtifactStatus[k.arg],
       !.activeLoan = LoanAfter(k.arg, k.row)])
  /\ Return(c)
  /\ UNCHANGED incident

-----------------------------------------------------------------------------

LendingNext ==
  \E c \in Caller :
    \/ \E a \in ArtifactId : CreateLoan(c, a)
    \/ \E l \in LoanId : InsertLoan(c, l) \/ Submit(c, l) \/ Approve(c, l)
    \/ \E l \in LoanId, kind \in CustodyKind : RecordCustody(c, l, kind)
    \/ CheckCommitments(c)
    \/ UpdateLoan(c)
    \/ ApproveLoanAtomically(c)
    \/ SaveCustody(c)

-----------------------------------------------------------------------------
(* Properties.                                                             *)

\* The calls of this service that can be in flight.
LendingCalls ==
       Calls("CreateLoan", ArtifactId, {0}, {NoId}, {0}, Period, {FALSE})
  \cup Calls("InsertLoan", ArtifactId, {0}, {NoId}, {0}, Period, {FALSE})
  \cup Calls("Submit", {NoId}, {0}, LoanId, Pos, {NoId}, {FALSE})
  \cup Calls("Approve", ArtifactId, Pos, LoanId, Pos, {NoId}, {FALSE})
  \cup Calls("RecordCustody", ArtifactId, Pos, LoanId, Pos, CustodyKind, {FALSE})

LoanRow == [status : LoanStatus, version : Pos, artifact : ArtifactId, period : Period]

\* The loan tables hold what their columns may hold.
LendingTypeOK ==
  /\ loan \in [LoanId -> LoanRow \cup {NoLoan}]
  /\ custody \in [LoanId -> Seq(CustodyKind)]

\* Statuses in which the loan has the artifact promised or away.
Bound == {"approved", "packed", "dispatched", "returning"}

\* The artifact names a loan exactly from its approval to its return.  So no
\* artifact is promised to two loans, and none stays promised to a loan that
\* is over, whichever calls race.
LoanBinding ==
  \A l \in LoanId, a \in ArtifactId :
    artifact[a].activeLoan = l <=> loan[l].artifact = a /\ loan[l].status \in Bound

\* The custody events of a loan in each of its statuses.
CustodyLog(status) ==
  CASE status = "packed"     -> <<"packed">>
    [] status = "dispatched" -> <<"packed", "dispatched">>
    [] status = "returning"  -> <<"packed", "dispatched", "returning">>
    [] status = "returned"   -> <<"packed", "dispatched", "returning", "returned">>
    [] OTHER                 -> <<>>

\* The chain of custody: every phase of a loan is recorded exactly once, in
\* order, and the log agrees with the loan's status, even when two
\* coordinators record the same phase or an old submission is still in flight.
ChainOfCustody == \A l \in LoanId : custody[l] = CustodyLog(loan[l].status)
=============================================================================
