------------------------------- MODULE Museum -------------------------------
(***************************************************************************)
(* The whole application: conservation, lending and exhibition share the   *)
(* artifact rows, and their calls interleave.  Giving a service no ids     *)
(* (LoanId = {}, say) leaves it out.                                       *)
(***************************************************************************)
EXTENDS Conservation, Lending, Exhibition

vars == <<artifact, incident, call, conservationVars, lendingVars, exhibitionVars>>

Init ==
  /\ CollectionInit
  /\ ConservationInit
  /\ LendingInit
  /\ ExhibitionInit

Fail ==
  /\ \E c \in Caller : FailCall(c)
  /\ UNCHANGED <<conservationVars, lendingVars, exhibitionVars>>

Next ==
  \/ ConservationNext /\ UNCHANGED <<lendingVars, exhibitionVars>>
  \/ LendingNext /\ UNCHANGED <<conservationVars, exhibitionVars>>
  \/ ExhibitionNext /\ UNCHANGED <<conservationVars, lendingVars>>
  \/ Fail

Spec == Init /\ [][Next]_vars

-----------------------------------------------------------------------------
(* Properties of the whole.                                                *)

ArtifactRow ==
  [status : ArtifactStatus, version : Pos, currentCase : QuarantineId \cup CaseId \cup {NoId},
   activeLoan : LoanId \cup {NoId}, lastReport : Verdict]

IncidentRow ==
  [status : IncidentStatus, version : Pos, case : CaseId, artifact : {NoId},
   window : WindowKey, remediated : BOOLEAN]

CallType == {NoCall} \cup ConservationCalls \cup LendingCalls \cup ExhibitionCalls

\* Every table and every call in flight holds what it may hold.
TypeOK ==
  /\ artifact \in [ArtifactId -> ArtifactRow \cup {NoArtifact}]
  /\ incident \in [IncidentId -> IncidentRow \cup {NoIncident}]
  /\ call \in [Caller -> CallType]
  /\ ConservationTypeOK
  /\ LendingTypeOK
  /\ ExhibitionTypeOK

\* The artifact of a call in flight, and of a loan, exists: nothing deletes one.
ArtifactsExist ==
  /\ \A c \in Caller : call[c].art # NoId => artifact[call[c].art] # NoArtifact
  /\ \A l \in LoanId : loan[l] # NoLoan => artifact[loan[l].artifact] # NoArtifact

\* What a call loaded of its artifact is still so while the version it carries
\* is the row's: no operation changes a row without moving its version.
ArtifactSnapshot(k) ==
  LET row == artifact[k.art] IN
  k.art # NoId =>
    /\ k.artVer <= row.version
    /\ k.artVer = row.version =>
         /\ k.op = "RecordCondition" => row.status \notin {"archived", "on_loan"}
         /\ k.op = "ReleaseAssessment" => row.status = "assessment"
                                          /\ row.lastReport = "clears"
         /\ k.op = "Activate" => row.status = "ready"

\* The same of a loan, whose status each of its calls depends on.
LoanSnapshot(k) ==
  LET row == loan[k.row] IN
  k.op \in {"Submit", "Approve", "RecordCustody"} =>
    /\ k.rowVer <= row.version
    /\ k.op # "Submit" => k.art = row.artifact
    /\ k.rowVer = row.version =>
         /\ k.op = "Submit" => row.status = "draft"
         /\ k.op = "Approve" => row.status = "submitted"
         /\ k.op = "RecordCustody" => row.status = CustodyFrom[k.arg]

\* Optimistic locking works: every call in flight either still sees what its
\* checks relied on or will find a version moved.
Snapshots ==
  /\ ArtifactsExist
  /\ \A c \in Caller : ArtifactSnapshot(call[c]) /\ LoanSnapshot(call[c])

\* The artifact is on loan exactly while the loan it is bound to is between
\* dispatch and return: no inspection, quarantine, treatment or installation
\* in flight can reach an artifact that is out of the house.
OutOnlyOnLoan ==
  \A a \in ArtifactId :
    artifact[a].status = "on_loan" <=>
      \E l \in LoanId : /\ loan[l].artifact = a
                        /\ loan[l].status \in {"dispatched", "returning"}

\* An artifact whose status is quarantined names an unresolved case that is
\* its own, so its slot is held and its treatment can be completed while the
\* status stays so.
QuarantinedHasCase ==
  \A a \in ArtifactId : artifact[a].status = "quarantined" =>
    LET q == artifact[a].currentCase IN
      q \in QuarantineId /\ Unresolved(q) /\ quarantine[q].artifact = a

\* Lending keeps the promises of Holding: the loan an artifact names is its
\* holder, and it is away while its status is on_loan.
H == INSTANCE Holding WITH
  holder  <- [a \in ArtifactId |-> artifact[a].activeLoan],
  away    <- [a \in ArtifactId |-> artifact[a].status = "on_loan"],
  settled <- {l \in LoanId : loan[l].status = "returned"}

ImplementsHolding == H!Spec
=============================================================================
