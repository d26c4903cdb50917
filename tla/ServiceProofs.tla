---------------------------- MODULE ServiceProofs ----------------------------
(***************************************************************************)
(* Safety of lending, conservation and exhibition inside the whole         *)
(* application: whatever the other services and the other calls of the     *)
(* same one do between the load and the commit of a call.                  *)
(*                                                                         *)
(* Each argument has three layers.  Optimistic locking (MuseumProofs) says *)
(* that what a call relied on is still so when it commits.  A small        *)
(* classification then says what the steps of the whole application do to  *)
(* the rows a property reads: leave them alone, or one of a few things.    *)
(* The invariant is preserved by each class.                               *)
(***************************************************************************)
EXTENDS MuseumProofs, FiniteSetTheorems

-----------------------------------------------------------------------------
(* What the steps of the application do to lending: nothing, or one of three *)
(* things.                                                                   *)

\* Loans, custody, promises and absences are left alone.
Quiet ==
  /\ UNCHANGED <<loan, custody>>
  /\ \A a \in ArtifactId :
       /\ artifact'[a].activeLoan = artifact[a].activeLoan
       /\ artifact'[a].status = "on_loan" <=> artifact[a].status = "on_loan"

OtherLoansStay(l) == \A m \in LoanId \ {l} : loan'[m] = loan[m] /\ custody'[m] = custody[m]
OtherArtifactsStay(a) == \A b \in ArtifactId \ {a} : artifact'[b] = artifact[b]

\* Loan l is drafted or submitted.
Prepared(l) ==
  /\ loan[l].status \in {"absent", "draft"}
  /\ loan'[l].status \in {"draft", "submitted"}
  /\ custody'[l] = custody[l]
  /\ OtherLoansStay(l)
  /\ UNCHANGED artifact

\* Artifact a is promised to loan l.
Promised(l, a) ==
  /\ loan[l].status = "submitted" /\ loan[l].artifact = a
  /\ ~Overlapping(a, loan[l].period, l)
  /\ loan'[l].status = "approved" /\ loan'[l].artifact = a
  /\ artifact[a].activeLoan = NoId
  /\ artifact'[a].activeLoan = l /\ artifact'[a].status = artifact[a].status
  /\ custody'[l] = custody[l]
  /\ OtherLoansStay(l)
  /\ OtherArtifactsStay(a)

\* A custody event of this kind is recorded for loan l of artifact a.
Handled(l, a, kind) ==
  /\ loan[l].status = CustodyFrom[kind] /\ loan[l].artifact = a
  /\ loan'[l].status = kind /\ loan'[l].artifact = a
  /\ artifact'[a].activeLoan = LoanAfter(kind, l)
  /\ artifact'[a].status = CustodyArtifactStatus[kind]
  /\ custody'[l] = Append(custody[l], kind)
  /\ OtherLoansStay(l)
  /\ OtherArtifactsStay(a)

\* The version check of a commit finds an existing row, as the call saw it.
LEMMA CommitSees ==
  ASSUME SnapInv, NEW c \in Caller, call[c].art \in ArtifactId, call[c].artVer \in Pos,
         Current(call[c].art, call[c].artVer)
  PROVE  /\ artifact[call[c].art] \in ArtifactRow
         /\ call[c].op = "RecordCondition" => artifact[call[c].art].status # "on_loan"
         /\ call[c].op = "ReleaseAssessment" => artifact[call[c].art].status = "assessment"
<1>1. artifact[call[c].art] \in ArtifactRow
  BY CurrentExists DEF SnapInv, TypeInv
<1>2. ArtifactSnapshot(call[c])
  BY DEF SnapInv, Snapshots
<1>3. call[c].artVer = artifact[call[c].art].version
  BY DEF Current
<1>4. call[c].art # NoId
  BY CollectionAssumption
<1> QED BY <1>1, <1>2, <1>3, <1>4 DEF ArtifactSnapshot

\* The version check of a lending commit finds the loan as the call saw it.
LEMMA LoanCommitSees ==
  ASSUME SnapInv, NEW c \in Caller,
         call[c].op \in {"Submit", "Approve", "RecordCustody"},
         LoanCurrent(call[c].row, call[c].rowVer)
  PROVE  /\ call[c].row \in LoanId
         /\ loan[call[c].row] \in LoanRow
         /\ call[c].op = "Submit" => loan[call[c].row].status = "draft"
         /\ call[c].op # "Submit" => /\ call[c].art \in ArtifactId /\ call[c].artVer \in Pos
                                     /\ loan[call[c].row].artifact = call[c].art
         /\ call[c].op = "RecordCustody" =>
              call[c].arg \in CustodyKind /\ loan[call[c].row].status = CustodyFrom[call[c].arg]
<1>1. call[c] \in CallType
  BY DEF SnapInv, TypeInv, TypeOK
<1>2. call[c].row \in LoanId /\ call[c].rowVer \in Pos
  BY <1>1, LendingFields
<1>3. call[c].rowVer = loan[call[c].row].version
  BY DEF LoanCurrent
<1>4. loan[call[c].row] # NoLoan
  BY <1>2, <1>3, PosFacts DEF NoLoan
<1>5. loan[call[c].row] \in LoanRow
  BY <1>2, <1>4 DEF SnapInv, TypeInv, TypeOK, LendingTypeOK
<1>6. LoanSnapshot(call[c])
  BY DEF SnapInv, Snapshots
<1>7. /\ call[c].op \in {"Approve", "RecordCustody"} =>
           call[c].art \in ArtifactId /\ call[c].artVer \in Pos
      /\ call[c].op = "RecordCustody" => call[c].arg \in CustodyKind
  BY <1>1, LendingFields
<1> QED BY <1>2, <1>3, <1>5, <1>6, <1>7 DEF LoanSnapshot

\* A write to one artifact that keeps its loan, and keeps it at home or away.
LEMMA QuietUpdate ==
  ASSUME SnapInv, NEW b \in ArtifactId, NEW row \in ArtifactRow, UpdateArtifact(b, row),
         row.activeLoan = artifact[b].activeLoan,
         row.status = "on_loan" <=> artifact[b].status = "on_loan",
         UNCHANGED <<loan, custody>>
  PROVE  Quiet
<1>1. /\ artifact'[b] = [row EXCEPT !.version = @ + 1]
      /\ \A a \in ArtifactId \ {b} : artifact'[a] = artifact[a]
  BY ArtifactUpdate DEF SnapInv, TypeInv, TypeOK
<1>2. artifact'[b].activeLoan = row.activeLoan /\ artifact'[b].status = row.status
  BY <1>1 DEF ArtifactRow
<1> QED BY <1>1, <1>2 DEF Quiet

LEMMA ConservationQuiet ==
  ASSUME SnapInv, ConservationNext, UNCHANGED lendingVars
  PROVE  Quiet
<1>0. UNCHANGED <<loan, custody>>
  BY DEF lendingVars
<1>1. ASSUME UNCHANGED artifact PROVE Quiet
  BY <1>0, <1>1 DEF Quiet
<1>2. ASSUME NEW b \in ArtifactId, Register(b) PROVE Quiet
  <2>1. PICK v \in Verdict : artifact' = [artifact EXCEPT ![b] =
           [NoArtifact EXCEPT !.status = "registered", !.version = 1, !.lastReport = v]]
    BY <1>2 DEF Register
  <2>2. artifact[b] = NoArtifact
    BY <1>2 DEF Register
  <2>3. /\ artifact'[b].activeLoan = NoId /\ artifact'[b].status = "registered"
        /\ \A a \in ArtifactId \ {b} : artifact'[a] = artifact[a]
    BY <2>1 DEF SnapInv, TypeInv, TypeOK, NoArtifact
  <2> QED BY <1>0, <2>2, <2>3 DEF Quiet, NoArtifact
<1>3. ASSUME NEW c \in Caller, SaveConditionReport(c) PROVE Quiet
  <2> DEFINE row == [artifact[call[c].art] EXCEPT !.status = "assessment",
                                                  !.lastReport = call[c].arg]
  <2>1. call[c] \in CallType /\ call[c].op = "RecordCondition"
    BY <1>3 DEF SaveConditionReport, InFlight, SnapInv, TypeInv, TypeOK
  <2>2. call[c].art \in ArtifactId /\ call[c].artVer \in Pos /\ call[c].arg \in Verdict
    BY <2>1, ConservationFields
  <2>3. artifact[call[c].art] \in ArtifactRow /\ artifact[call[c].art].status # "on_loan"
    BY <1>3, <2>1, <2>2, CommitSees DEF SaveConditionReport
  <2>4. /\ row \in ArtifactRow /\ row.status = "assessment"
        /\ row.activeLoan = artifact[call[c].art].activeLoan
    BY <2>2, <2>3 DEF ArtifactRow, ArtifactStatus
  <2>5. UpdateArtifact(call[c].art, row)
    BY <1>3 DEF SaveConditionReport
  <2> HIDE DEF row
  <2> QED BY <1>0, <2>2, <2>3, <2>4, <2>5, QuietUpdate
<1>4. ASSUME NEW c \in Caller, UpdateArtifactStatus(c) PROVE Quiet
  <2> DEFINE row == [artifact[call[c].art] EXCEPT !.status = "ready"]
  <2>1. call[c] \in CallType /\ call[c].op = "ReleaseAssessment"
    BY <1>4 DEF UpdateArtifactStatus, InFlight, SnapInv, TypeInv, TypeOK
  <2>2. call[c].art \in ArtifactId /\ call[c].artVer \in Pos
    BY <2>1, ConservationFields
  <2>3. artifact[call[c].art] \in ArtifactRow /\ artifact[call[c].art].status = "assessment"
    BY <1>4, <2>1, <2>2, CommitSees DEF UpdateArtifactStatus
  <2>4. /\ row \in ArtifactRow /\ row.status = "ready"
        /\ row.activeLoan = artifact[call[c].art].activeLoan
    BY <2>2, <2>3 DEF ArtifactRow, ArtifactStatus
  <2>5. UpdateArtifact(call[c].art, row)
    BY <1>4 DEF UpdateArtifactStatus
  <2> HIDE DEF row
  <2> QED BY <1>0, <2>2, <2>3, <2>4, <2>5, QuietUpdate
<1>5. ASSUME NEW c \in Caller, NEW q \in QuarantineId, SaveQuarantine(c, q) PROVE Quiet
  <2> DEFINE row == [artifact[call[c].art] EXCEPT !.status = "quarantined", !.currentCase = q]
  <2>1. call[c] \in CallType /\ call[c].op = "OpenQuarantine"
    BY <1>5 DEF SaveQuarantine, InFlight, SnapInv, TypeInv, TypeOK
  <2>2. call[c].art \in ArtifactId /\ call[c].artVer \in Pos
    BY <2>1, ConservationFields
  <2>3. artifact[call[c].art] \in ArtifactRow /\ artifact[call[c].art].status # "on_loan"
    BY <1>5, <2>2, CommitSees DEF SaveQuarantine, Quarantinable
  <2>4. /\ row \in ArtifactRow /\ row.status = "quarantined"
        /\ row.activeLoan = artifact[call[c].art].activeLoan
    BY <2>2, <2>3 DEF ArtifactRow, ArtifactStatus
  <2>5. UpdateArtifact(call[c].art, row)
    BY <1>5 DEF SaveQuarantine
  <2> HIDE DEF row
  <2> QED BY <1>0, <2>2, <2>3, <2>4, <2>5, QuietUpdate
<1>6. ASSUME NEW c \in Caller, FinishTreatment(c) PROVE Quiet
  <2> DEFINE a == quarantine[plan[call[c].row].quarantine].artifact
  <2>1. a \in ArtifactId /\ artifact[a] \in ArtifactRow
    BY <1>6, CaseOfCompletion DEF SnapInv, TypeInv
  <2>2. UpdateArtifact(a, Treated(artifact[a])) /\ artifact[a].status # "on_loan"
    BY <1>6 DEF FinishTreatment
  <2>3. /\ Treated(artifact[a]) \in ArtifactRow /\ Treated(artifact[a]).status = "ready"
        /\ Treated(artifact[a]).activeLoan = artifact[a].activeLoan
    BY <2>1 DEF Treated, ArtifactRow, ArtifactStatus
  <2> HIDE DEF a
  <2> QED BY <1>0, <2>1, <2>2, <2>3, QuietUpdate
<1>7. ASSUME NEW p \in PlanId, NEW q \in QuarantineId, DraftTreatment(p, q) PROVE Quiet
  BY <1>1, <1>7 DEF DraftTreatment
<1>8. ASSUME NEW c \in Caller, NEW a \in ArtifactId,
             RecordCondition(c, a) \/ ReleaseAssessment(c, a)
      PROVE  Quiet
  BY <1>1, <1>8 DEF RecordCondition, ReleaseAssessment
<1>9. ASSUME NEW c \in Caller, NEW a \in ArtifactId, NEW z \in ZoneId, OpenQuarantine(c, a, z)
      PROVE  Quiet
  BY <1>1, <1>9 DEF OpenQuarantine
<1>10. ASSUME NEW c \in Caller, NEW p \in PlanId, NEW to \in TreatmentStatus,
              AdvanceTreatment(c, p, to)
       PROVE  Quiet
  BY <1>1, <1>10 DEF AdvanceTreatment
<1>11. ASSUME NEW c \in Caller, UpdateTreatment(c) PROVE Quiet
  BY <1>1, <1>11 DEF UpdateTreatment
<1> QED
  BY <1>2, <1>3, <1>4, <1>5, <1>6, <1>7, <1>8, <1>9, <1>10, <1>11 DEF ConservationNext

LEMMA ExhibitionQuiet ==
  ASSUME SnapInv, ExhibitionNext, UNCHANGED lendingVars
  PROVE  Quiet
<1>0. UNCHANGED <<loan, custody>>
  BY DEF lendingVars
<1>1. ASSUME UNCHANGED artifact PROVE Quiet
  BY <1>0, <1>1 DEF Quiet
<1>2. ASSUME NEW c \in Caller, ActivateInstallation(c) PROVE Quiet
  <2> DEFINE row == [artifact[call[c].art] EXCEPT !.status = "on_display",
                                                  !.currentCase = call[c].row]
  <2>1. call[c] \in CallType /\ call[c].op = "Activate"
    BY <1>2 DEF ActivateInstallation, InFlight, SnapInv, TypeInv, TypeOK
  <2>2. call[c].art \in ArtifactId /\ call[c].artVer \in Pos /\ call[c].row \in CaseId
    BY <2>1, ExhibitionFields
  <2>3. artifact[call[c].art] \in ArtifactRow /\ artifact[call[c].art].status = "ready"
    BY <1>2, <2>2, CommitSees DEF ActivateInstallation
  <2>4. /\ row \in ArtifactRow /\ row.status = "on_display"
        /\ row.activeLoan = artifact[call[c].art].activeLoan
    BY <2>2, <2>3 DEF ArtifactRow, ArtifactStatus
  <2>5. UpdateArtifact(call[c].art, row)
    BY <1>2 DEF ActivateInstallation
  <2> HIDE DEF row
  <2> QED BY <1>0, <2>2, <2>3, <2>4, <2>5, QuietUpdate
<1>3. ASSUME NEW i \in IncidentId, NEW d \in CaseId, NEW w \in WindowKey, OpenIncident(i, d, w)
      PROVE  Quiet
  BY <1>1, <1>3 DEF OpenIncident
<1>4. ASSUME NEW c \in Caller, NEW a \in ArtifactId, NEW d \in CaseId, ReserveArtifact(c, a, d)
      PROVE  Quiet
  BY <1>1, <1>4 DEF ReserveArtifact
<1>5. ASSUME NEW c \in Caller, NEW a \in ArtifactId, NEW d \in CaseId, NEW complete \in BOOLEAN,
             Activate(c, a, d, complete)
      PROVE  Quiet
  BY <1>1, <1>5 DEF Activate
<1>6. ASSUME NEW c \in Caller, NEW i \in IncidentId, NEW to \in IncidentStatus,
             NEW r \in BOOLEAN, AdvanceIncident(c, i, to, r)
      PROVE  Quiet
  BY <1>1, <1>6 DEF AdvanceIncident
<1>7. ASSUME NEW c \in Caller, ReserveCase(c) \/ ReserveDisplayCase(c) \/ UpdateIncident(c)
      PROVE  Quiet
  BY <1>1, <1>7 DEF ReserveCase, ReserveDisplayCase, UpdateIncident
<1> QED BY <1>2, <1>3, <1>4, <1>5, <1>6, <1>7 DEF ExhibitionNext

LEMMA LendingClasses ==
  ASSUME SnapInv, LendingNext
  PROVE  \/ Quiet
         \/ \E l \in LoanId : Prepared(l)
         \/ \E l \in LoanId, a \in ArtifactId : Promised(l, a)
         \/ \E l \in LoanId, a \in ArtifactId, kind \in CustodyKind : Handled(l, a, kind)
<1> DEFINE Goal == \/ Quiet
                   \/ \E l \in LoanId : Prepared(l)
                   \/ \E l \in LoanId, a \in ArtifactId : Promised(l, a)
                   \/ \E l \in LoanId, a \in ArtifactId, kind \in CustodyKind :
                        Handled(l, a, kind)
<1> SUFFICES Goal
  OBVIOUS
<1>0. /\ loan \in [LoanId -> LoanRow \cup {NoLoan}]
      /\ artifact \in [ArtifactId -> ArtifactRow \cup {NoArtifact}]
      /\ custody \in [LoanId -> Seq(CustodyKind)]
      /\ call \in [Caller -> CallType]
  BY DEF SnapInv, TypeInv, TypeOK, LendingTypeOK
<1>1. ASSUME UNCHANGED <<artifact, loan, custody>> PROVE Goal
  BY <1>1 DEF Quiet
<1>2. ASSUME NEW c \in Caller, NEW l \in LoanId, InsertLoan(c, l) PROVE Goal
  <2>1. loan[l].status = "absent"
    BY <1>2 DEF InsertLoan, NoLoan
  <2>2. loan'[l].status = "draft" /\ \A m \in LoanId \ {l} : loan'[m] = loan[m]
    BY <1>0, <1>2 DEF InsertLoan
  <2>3. UNCHANGED <<artifact, custody>>
    BY <1>2 DEF InsertLoan
  <2> QED BY <2>1, <2>2, <2>3 DEF Prepared, OtherLoansStay
<1>3. ASSUME NEW c \in Caller, UpdateLoan(c) PROVE Goal
  <2> DEFINE l == call[c].row
  <2>1. l \in LoanId /\ loan[l] \in LoanRow /\ loan[l].status = "draft"
    BY <1>3, LoanCommitSees DEF UpdateLoan, InFlight
  <2>2. loan'[l].status = "submitted" /\ \A m \in LoanId \ {l} : loan'[m] = loan[m]
    BY <1>0, <1>3, <2>1 DEF UpdateLoan, LoanRow
  <2>3. UNCHANGED <<artifact, custody>>
    BY <1>3 DEF UpdateLoan
  <2> HIDE DEF l
  <2> QED BY <2>1, <2>2, <2>3 DEF Prepared, OtherLoansStay
<1>4. ASSUME NEW c \in Caller, ApproveLoanAtomically(c) PROVE Goal
  <2> DEFINE l == call[c].row
             a == call[c].art
             row == [artifact[a] EXCEPT !.activeLoan = l]
  <2>1. /\ l \in LoanId /\ loan[l] \in LoanRow
        /\ a \in ArtifactId /\ call[c].artVer \in Pos /\ loan[l].artifact = a
    BY <1>4, LoanCommitSees DEF ApproveLoanAtomically, InFlight
  <2>2. /\ loan[l].status = "submitted" /\ artifact[a].activeLoan = NoId
        /\ ~Overlapping(a, loan[l].period, l)
    BY <1>4 DEF ApproveLoanAtomically, Unpromised
  <2>3. /\ loan'[l].status = "approved" /\ loan'[l].artifact = a
        /\ \A m \in LoanId \ {l} : loan'[m] = loan[m]
    BY <1>0, <1>4, <2>1 DEF ApproveLoanAtomically, LoanRow
  <2>4. artifact[a] \in ArtifactRow
    BY <1>4, <2>1, CommitSees DEF ApproveLoanAtomically
  <2>5. row \in ArtifactRow /\ row.activeLoan = l /\ row.status = artifact[a].status
    BY <2>1, <2>4 DEF ArtifactRow
  <2>6. UpdateArtifact(a, row) /\ UNCHANGED custody
    BY <1>4 DEF ApproveLoanAtomically
  <2> HIDE DEF row
  <2>7. artifact'[a] = [row EXCEPT !.version = @ + 1] /\ OtherArtifactsStay(a)
    BY <1>0, <2>1, <2>5, <2>6, ArtifactUpdate DEF OtherArtifactsStay
  <2>8. artifact'[a].activeLoan = l /\ artifact'[a].status = artifact[a].status
    BY <2>5, <2>7 DEF ArtifactRow
  <2> HIDE DEF l, a
  <2>9. Promised(l, a)
    BY <2>1, <2>2, <2>3, <2>6, <2>7, <2>8 DEF Promised, OtherLoansStay
  <2> QED BY <2>1, <2>9
<1>5. ASSUME NEW c \in Caller, SaveCustody(c) PROVE Goal
  <2> DEFINE l == call[c].row
             a == call[c].art
             kind == call[c].arg
             row == [artifact[a] EXCEPT !.status = CustodyArtifactStatus[kind],
                                        !.activeLoan = LoanAfter(kind, l)]
  <2>1. /\ l \in LoanId /\ loan[l] \in LoanRow
        /\ a \in ArtifactId /\ call[c].artVer \in Pos /\ loan[l].artifact = a
        /\ kind \in CustodyKind /\ loan[l].status = CustodyFrom[kind]
    BY <1>5, LoanCommitSees DEF SaveCustody, InFlight
  <2>2. /\ loan'[l].status = kind /\ loan'[l].artifact = a
        /\ \A m \in LoanId \ {l} : loan'[m] = loan[m]
    BY <1>0, <1>5, <2>1 DEF SaveCustody, LoanRow
  <2>3. /\ custody'[l] = Append(custody[l], kind)
        /\ \A m \in LoanId \ {l} : custody'[m] = custody[m]
    BY <1>0, <1>5, <2>1 DEF SaveCustody
  <2>4. artifact[a] \in ArtifactRow
    BY <1>5, <2>1, CommitSees DEF SaveCustody
  <2>5. CustodyArtifactStatus[kind] \in ArtifactStatus /\ LoanAfter(kind, l) \in LoanId \cup {NoId}
    BY <2>1 DEF CustodyKind, CustodyArtifactStatus, ArtifactStatus, LoanAfter
  <2>6. /\ row \in ArtifactRow /\ row.activeLoan = LoanAfter(kind, l)
        /\ row.status = CustodyArtifactStatus[kind]
    BY <2>4, <2>5 DEF ArtifactRow
  <2>7. UpdateArtifact(a, row)
    BY <1>5 DEF SaveCustody
  <2> HIDE DEF row
  <2>8. artifact'[a] = [row EXCEPT !.version = @ + 1] /\ OtherArtifactsStay(a)
    BY <1>0, <2>1, <2>6, <2>7, ArtifactUpdate DEF OtherArtifactsStay
  <2>9. /\ artifact'[a].activeLoan = LoanAfter(kind, l)
        /\ artifact'[a].status = CustodyArtifactStatus[kind]
    BY <2>6, <2>8 DEF ArtifactRow
  <2> HIDE DEF l, a, kind
  <2>10. Handled(l, a, kind)
    BY <2>1, <2>2, <2>3, <2>8, <2>9 DEF Handled, OtherLoansStay
  <2> QED BY <2>1, <2>10
<1> HIDE DEF Goal
<1>6. ASSUME NEW c \in Caller, NEW a \in ArtifactId, CreateLoan(c, a) PROVE Goal
  BY <1>1, <1>6 DEF CreateLoan, lendingVars
<1>7. ASSUME NEW c \in Caller, NEW l \in LoanId, Submit(c, l) \/ Approve(c, l) PROVE Goal
  BY <1>1, <1>7 DEF Submit, Approve, lendingVars
<1>8. ASSUME NEW c \in Caller, NEW l \in LoanId, NEW kind \in CustodyKind,
             RecordCustody(c, l, kind)
      PROVE  Goal
  BY <1>1, <1>8 DEF RecordCustody, lendingVars
<1>9. ASSUME NEW c \in Caller, CheckCommitments(c) PROVE Goal
  BY <1>1, <1>9 DEF CheckCommitments, lendingVars
<1> QED BY <1>2, <1>3, <1>4, <1>5, <1>6, <1>7, <1>8, <1>9 DEF LendingNext

\* Every step of the application, as lending sees it.
LEMMA StepClasses ==
  ASSUME SnapInv, [Next]_vars
  PROVE  \/ Quiet
         \/ \E l \in LoanId : Prepared(l)
         \/ \E l \in LoanId, a \in ArtifactId : Promised(l, a)
         \/ \E l \in LoanId, a \in ArtifactId, kind \in CustodyKind : Handled(l, a, kind)
<1>1. CASE UNCHANGED vars
  BY <1>1 DEF vars, lendingVars, Quiet
<1>2. CASE Fail
  BY <1>2 DEF Fail, FailCall, lendingVars, Quiet
<1>3. CASE ConservationNext /\ UNCHANGED lendingVars
  BY <1>3, ConservationQuiet
<1>4. CASE ExhibitionNext /\ UNCHANGED lendingVars
  BY <1>4, ExhibitionQuiet
<1>5. CASE LendingNext
  BY <1>5, LendingClasses
<1> QED BY <1>1, <1>2, <1>3, <1>4, <1>5 DEF Next

-----------------------------------------------------------------------------
(* Agreement of loans, custody events and artifacts.  The three invariants   *)
(* are preserved together: that a loan is bound says which artifact it       *)
(* holds, and that only one loan holds it says who took it out of the house. *)

LendingInv == LoanBinding /\ ChainOfCustody /\ OutOnlyOnLoan

\* What a loan's status says, kind by kind.
LEMMA CustodyFacts ==
  ASSUME NEW kind \in CustodyKind, NEW l \in LoanId
  PROVE  /\ CustodyFrom[kind] \in Bound
         /\ kind \in Bound <=> kind # "returned"
         /\ LoanAfter(kind, l) = l <=> kind # "returned"
         /\ LoanAfter(kind, l) \in {l, NoId}
         /\ CustodyArtifactStatus[kind] = "on_loan" <=> kind \in {"dispatched", "returning"}
         /\ CustodyLog(kind) = Append(CustodyLog(CustodyFrom[kind]), kind)
<1>1. /\ CustodyFrom[kind] \in Bound
      /\ kind \in Bound <=> kind # "returned"
      /\ CustodyArtifactStatus[kind] = "on_loan" <=> kind \in {"dispatched", "returning"}
  BY DEF CustodyKind, CustodyFrom, CustodyArtifactStatus, Bound
<1>2. /\ LoanAfter(kind, l) = l <=> kind # "returned"
      /\ LoanAfter(kind, l) \in {l, NoId}
  BY LendingAssumption DEF LoanAfter
<1>3. CustodyLog(kind) = Append(CustodyLog(CustodyFrom[kind]), kind)
  <2>1. CASE kind = "packed"
    BY <2>1 DEF CustodyLog, CustodyFrom
  <2>2. CASE kind = "dispatched"
    BY <2>2 DEF CustodyLog, CustodyFrom
  <2>3. CASE kind = "returning"
    BY <2>3 DEF CustodyLog, CustodyFrom
  <2>4. CASE kind = "returned"
    BY <2>4 DEF CustodyLog, CustodyFrom
  <2> QED BY <2>1, <2>2, <2>3, <2>4 DEF CustodyKind
<1> QED BY <1>1, <1>2, <1>3

LEMMA QuietKeeps ==
  ASSUME LendingInv, Quiet
  PROVE  LendingInv'
<1>1. LoanBinding'
  BY DEF LendingInv, LoanBinding, Quiet
<1>2. ChainOfCustody'
  BY DEF LendingInv, ChainOfCustody, Quiet, CustodyLog
<1>3. OutOnlyOnLoan'
  BY DEF LendingInv, OutOnlyOnLoan, Quiet
<1> QED BY <1>1, <1>2, <1>3 DEF LendingInv

LEMMA PreparedKeeps ==
  ASSUME LendingInv, NEW l \in LoanId, Prepared(l)
  PROVE  LendingInv'
<1>1. loan[l].status \notin Bound /\ loan'[l].status \notin Bound
  BY DEF Prepared, Bound
<1>2. \A m \in LoanId \ {l} : loan'[m] = loan[m] /\ custody'[m] = custody[m]
  BY DEF Prepared, OtherLoansStay
<1>3. UNCHANGED artifact /\ custody'[l] = custody[l]
  BY DEF Prepared
<1>4. LoanBinding'
  BY <1>1, <1>2, <1>3 DEF LendingInv, LoanBinding
<1>5. ChainOfCustody'
  <2>1. CustodyLog(loan[l].status) = <<>> /\ CustodyLog(loan'[l].status) = <<>>
    BY DEF Prepared, CustodyLog
  <2> QED BY <1>2, <1>3, <2>1 DEF LendingInv, ChainOfCustody
<1>6. OutOnlyOnLoan'
  BY <1>1, <1>2, <1>3 DEF LendingInv, OutOnlyOnLoan, Bound
<1> QED BY <1>4, <1>5, <1>6 DEF LendingInv

LEMMA PromisedKeeps ==
  ASSUME LendingInv, NEW l \in LoanId, NEW a \in ArtifactId, Promised(l, a)
  PROVE  LendingInv'
<1>1. loan[l].status \notin Bound /\ loan'[l].status \in Bound
  BY DEF Promised, Bound
<1>2. \A m \in LoanId \ {l} : loan'[m] = loan[m] /\ custody'[m] = custody[m]
  BY DEF Promised, OtherLoansStay
<1>3. \A b \in ArtifactId \ {a} : artifact'[b] = artifact[b]
  BY DEF Promised, OtherArtifactsStay
<1>4. ASSUME NEW m \in LoanId, NEW b \in ArtifactId
      PROVE  artifact'[b].activeLoan = m <=> loan'[m].artifact = b /\ loan'[m].status \in Bound
  <2>1. artifact[b].activeLoan = m <=> loan[m].artifact = b /\ loan[m].status \in Bound
    BY DEF LendingInv, LoanBinding
  <2>2. CASE m = l /\ b = a
    BY <1>1, <2>2 DEF Promised
  <2>3. CASE m = l /\ b # a
    BY <1>1, <1>3, <2>1, <2>3 DEF Promised
  <2>4. CASE m # l /\ b = a
    BY <1>2, <2>1, <2>4, LendingAssumption DEF Promised
  <2>5. CASE m # l /\ b # a
    BY <1>2, <1>3, <2>1, <2>5
  <2> QED BY <2>2, <2>3, <2>4, <2>5
<1>5. ChainOfCustody'
  <2>1. CustodyLog(loan[l].status) = <<>> /\ CustodyLog(loan'[l].status) = <<>>
    BY DEF Promised, CustodyLog
  <2>2. custody'[l] = custody[l]
    BY DEF Promised
  <2> QED BY <1>2, <2>1, <2>2 DEF LendingInv, ChainOfCustody
<1>6. OutOnlyOnLoan'
  <2>1. \A b \in ArtifactId : artifact'[b].status = artifact[b].status
    BY <1>3 DEF Promised
  <2>2. \A m \in LoanId : loan[m].status \in {"dispatched", "returning"}
                            <=> loan'[m].status \in {"dispatched", "returning"}
    BY <1>2 DEF Promised
  <2>3. \A m \in LoanId : loan[m].artifact = loan'[m].artifact
    BY <1>2 DEF Promised
  <2> QED BY <2>1, <2>2, <2>3 DEF LendingInv, OutOnlyOnLoan
<1> QED BY <1>4, <1>5, <1>6 DEF LendingInv, LoanBinding

LEMMA HandledKeeps ==
  ASSUME LendingInv, NEW l \in LoanId, NEW a \in ArtifactId, NEW kind \in CustodyKind,
         Handled(l, a, kind)
  PROVE  LendingInv'
<1>1. loan[l].artifact = a /\ loan[l].status \in Bound /\ artifact[a].activeLoan = l
  BY CustodyFacts DEF Handled, LendingInv, LoanBinding
<1>2. \A m \in LoanId \ {l} : loan'[m] = loan[m] /\ custody'[m] = custody[m]
  BY DEF Handled, OtherLoansStay
<1>3. \A b \in ArtifactId \ {a} : artifact'[b] = artifact[b]
  BY DEF Handled, OtherArtifactsStay
\* No other loan holds the artifact.
<1>4. \A m \in LoanId \ {l} : ~(loan[m].artifact = a /\ loan[m].status \in Bound)
  BY <1>1 DEF LendingInv, LoanBinding
<1>5. loan'[l].artifact = a /\ loan'[l].status = kind
      /\ artifact'[a].activeLoan = LoanAfter(kind, l)
      /\ artifact'[a].status = CustodyArtifactStatus[kind]
  BY DEF Handled
<1>6. ASSUME NEW m \in LoanId, NEW b \in ArtifactId
      PROVE  artifact'[b].activeLoan = m <=> loan'[m].artifact = b /\ loan'[m].status \in Bound
  <2>1. artifact[b].activeLoan = m <=> loan[m].artifact = b /\ loan[m].status \in Bound
    BY DEF LendingInv, LoanBinding
  <2>2. CASE m = l /\ b = a
    BY <1>5, <2>2, CustodyFacts
  <2>3. CASE m = l /\ b # a
    BY <1>1, <1>3, <1>5, <2>1, <2>3
  <2>4. CASE m # l /\ b = a
    BY <1>2, <1>4, <1>5, <2>4, CustodyFacts, LendingAssumption
  <2>5. CASE m # l /\ b # a
    BY <1>2, <1>3, <2>1, <2>5
  <2> QED BY <2>2, <2>3, <2>4, <2>5
<1>7. ChainOfCustody'
  <2>1. custody'[l] = Append(custody[l], kind) /\ loan[l].status = CustodyFrom[kind]
    BY DEF Handled
  <2>2. custody[l] = CustodyLog(CustodyFrom[kind])
    BY <2>1 DEF LendingInv, ChainOfCustody
  <2>3. custody'[l] = CustodyLog(loan'[l].status)
    BY <1>5, <2>1, <2>2, CustodyFacts
  <2> QED BY <1>2, <2>3 DEF LendingInv, ChainOfCustody
<1>8. ASSUME NEW b \in ArtifactId
      PROVE  artifact'[b].status = "on_loan" <=>
               \E m \in LoanId : /\ loan'[m].artifact = b
                                 /\ loan'[m].status \in {"dispatched", "returning"}
  <2>1. CASE b = a
    <3>1. \A m \in LoanId \ {l} : ~(loan'[m].artifact = a
                                     /\ loan'[m].status \in {"dispatched", "returning"})
      BY <1>2, <1>4 DEF Bound
    <3>2. artifact'[a].status = "on_loan" <=> kind \in {"dispatched", "returning"}
      BY <1>5, CustodyFacts
    <3> QED BY <1>5, <2>1, <3>1, <3>2
  <2>2. CASE b # a
    <3>1. artifact[b].status = "on_loan" <=>
            \E m \in LoanId : /\ loan[m].artifact = b
                              /\ loan[m].status \in {"dispatched", "returning"}
      BY DEF LendingInv, OutOnlyOnLoan
    <3>2. \A m \in LoanId : loan'[m].artifact = b => m # l
      BY <1>5, <2>2
    <3>3. \A m \in LoanId : loan[m].artifact = b => m # l
      BY <1>1, <2>2
    <3> QED BY <1>2, <1>3, <2>2, <3>1, <3>2, <3>3
  <2> QED BY <2>1, <2>2
<1> QED BY <1>6, <1>7, <1>8 DEF LendingInv, LoanBinding, OutOnlyOnLoan

LEMMA InitLending == Init => LendingInv
<1> SUFFICES ASSUME Init PROVE LendingInv
  OBVIOUS
<1>1. /\ \A l \in LoanId : loan[l] = NoLoan /\ custody[l] = <<>>
      /\ \A a \in ArtifactId : artifact[a] = NoArtifact
  BY DEF Init, CollectionInit, LendingInit
<1>2. \A l \in LoanId : loan[l].status = "absent"
  BY <1>1 DEF NoLoan
<1>3. \A a \in ArtifactId : artifact[a].activeLoan = NoId /\ artifact[a].status = "absent"
  <2>1. NoArtifact.activeLoan = NoId /\ NoArtifact.status = "absent"
    BY DEF NoArtifact
  <2> QED BY <1>1, <2>1
<1>4. LoanBinding
  BY <1>2, <1>3, LendingAssumption DEF LoanBinding, Bound
<1>5. ChainOfCustody
  BY <1>1, <1>2 DEF ChainOfCustody, CustodyLog
<1>6. OutOnlyOnLoan
  BY <1>2, <1>3 DEF OutOnlyOnLoan
<1> QED BY <1>4, <1>5, <1>6 DEF LendingInv

LEMMA LendingStep == SnapInv /\ LendingInv /\ [Next]_vars => LendingInv'
BY StepClasses, QuietKeeps, PreparedKeeps, PromisedKeeps, HandledKeeps

\* Loans and artifacts agree, in the whole application and for any number of
\* artifacts, loans and callers: an artifact names a loan exactly from its
\* approval to its return.
THEOREM LoanBindingHolds == Spec => []LoanBinding
<1>1. LendingInv => LoanBinding
  BY DEF LendingInv
<1> QED BY <1>1, InitSnapshots, SnapStep, InitLending, LendingStep, PTL DEF Spec

\* The custody events of a loan are exactly those its status calls for, in
\* order, each recorded once.
THEOREM ChainOfCustodyHolds == Spec => []ChainOfCustody
<1>1. LendingInv => ChainOfCustody
  BY DEF LendingInv
<1> QED BY <1>1, InitSnapshots, SnapStep, InitLending, LendingStep, PTL DEF Spec

\* The artifact's status says on_loan exactly while the loan it is bound to is
\* between dispatch and return, whatever the other services do.
THEOREM OutOnlyOnLoanHolds == Spec => []OutOnlyOnLoan
<1>1. LendingInv => OutOnlyOnLoan
  BY DEF LendingInv
<1> QED BY <1>1, InitSnapshots, SnapStep, InitLending, LendingStep, PTL DEF Spec

-----------------------------------------------------------------------------
(* Overlapping loans.                                                        *)

\* The comparison of start_at and end_at that the overlap query makes says what
\* it should: two periods overlap exactly when they have a moment in common.
THEOREM OverlapIsCommonTime ==
  ASSUME NEW p \in Period, NEW r \in Period
  PROVE  Overlap(p, r) <=>
           \E t \in Nat : /\ StartAt[p] <= t /\ t < EndAt[p]
                          /\ StartAt[r] <= t /\ t < EndAt[r]
<1>1. /\ StartAt[p] \in Nat /\ EndAt[p] \in Nat /\ StartAt[p] < EndAt[p]
      /\ StartAt[r] \in Nat /\ EndAt[r] \in Nat /\ StartAt[r] < EndAt[r]
  BY LendingAssumption
<1>2. ASSUME Overlap(p, r)
      PROVE  \E t \in Nat : /\ StartAt[p] <= t /\ t < EndAt[p]
                            /\ StartAt[r] <= t /\ t < EndAt[r]
  <2>1. CASE StartAt[p] <= StartAt[r]
    BY <1>1, <1>2, <2>1 DEF Overlap
  <2>2. CASE StartAt[r] <= StartAt[p]
    BY <1>1, <1>2, <2>2 DEF Overlap
  <2> QED BY <1>1, <2>1, <2>2
<1>3. ASSUME NEW t \in Nat, StartAt[p] <= t, t < EndAt[p], StartAt[r] <= t, t < EndAt[r]
      PROVE  Overlap(p, r)
  BY <1>1, <1>3 DEF Overlap
<1> QED BY <1>2, <1>3

\* Two overlapping loans of one artifact, both submitted.
Blocked(l, m) ==
  /\ l # m
  /\ loan[l].status = "submitted" /\ loan[m].status = "submitted"
  /\ loan[l].artifact = loan[m].artifact
  /\ Overlap(loan[l].period, loan[m].period)

LEMMA BlockedStep ==
  ASSUME SnapInv, [Next]_vars, NEW l \in LoanId, NEW m \in LoanId, Blocked(l, m)
  PROVE  Blocked(l, m)'
<1>1. ASSUME loan'[l] = loan[l], loan'[m] = loan[m]
      PROVE  Blocked(l, m)'
  BY <1>1 DEF Blocked
<1>2. CASE Quiet
  BY <1>1, <1>2 DEF Quiet
<1>3. ASSUME NEW o \in LoanId, Prepared(o) PROVE Blocked(l, m)'
  <2>1. o # l /\ o # m
    BY <1>3 DEF Prepared, Blocked
  <2> QED BY <1>1, <1>3, <2>1 DEF Prepared, OtherLoansStay
<1>4. ASSUME NEW o \in LoanId, NEW a \in ArtifactId, Promised(o, a) PROVE Blocked(l, m)'
  <2>1. Overlap(loan[m].period, loan[l].period)
    BY DEF Blocked, Overlap
  <2>2. o # l
    BY <1>4 DEF Promised, Blocked, Overlapping, Committing, Overlap
  <2>3. o # m
    BY <1>4 DEF Promised, Blocked, Overlapping, Committing, Overlap
  <2> QED BY <1>1, <1>4, <2>2, <2>3 DEF Promised, OtherLoansStay
<1>5. ASSUME NEW o \in LoanId, NEW a \in ArtifactId, NEW kind \in CustodyKind,
             Handled(o, a, kind)
      PROVE  Blocked(l, m)'
  <2>1. loan[o].status # "submitted"
    BY <1>5 DEF Handled, CustodyFrom, CustodyKind
  <2> QED BY <1>1, <1>5, <2>1 DEF Handled, OtherLoansStay, Blocked
<1> QED BY <1>2, <1>3, <1>4, <1>5, StepClasses

\* Two overlapping loans of one artifact that are both submitted block each
\* other for ever: submission looks at no overlap, approval of either finds the
\* other, and no operation rejects or cancels a loan.
THEOREM OverlapBlocksForEver ==
  ASSUME NEW l \in LoanId, NEW m \in LoanId
  PROVE  Spec => [](Blocked(l, m) => []Blocked(l, m))
<1>1. SnapInv /\ Blocked(l, m) /\ [Next]_vars => Blocked(l, m)'
  BY BlockedStep
<1> QED BY <1>1, InitSnapshots, SnapStep, PTL DEF Spec

-----------------------------------------------------------------------------
(* Lending implements Holding: a promise is the approval of a loan, the    *)
(* artifact goes away when its dispatch is recorded and comes back when its *)
(* return is.  Every other step leaves Holding's variables alone.          *)

holder == [a \in ArtifactId |-> artifact[a].activeLoan]
away == [a \in ArtifactId |-> artifact[a].status = "on_loan"]
settled == {l \in LoanId : loan[l].status = "returned"}

\* Holding's variables do not move when its three parts do not.
LEMMA HoldingStutter ==
  ASSUME holder' = holder, away' = away, settled' = settled
  PROVE  [H!Next]_(H!vars)
BY DEF H!vars, holder, away, settled

LEMMA QuietStutters ==
  ASSUME Quiet
  PROVE  [H!Next]_(H!vars)
<1>1. holder' = holder
  BY DEF Quiet, holder
<1>2. away' = away
  BY DEF Quiet, away
<1>3. settled' = settled
  BY DEF Quiet, settled
<1> QED BY <1>1, <1>2, <1>3, HoldingStutter

LEMMA PreparedStutters ==
  ASSUME NEW l \in LoanId, Prepared(l)
  PROVE  [H!Next]_(H!vars)
<1>1. holder' = holder
  BY DEF Prepared, holder
<1>2. away' = away
  BY DEF Prepared, away
<1>3. settled' = settled
  BY DEF Prepared, OtherLoansStay, settled
<1> QED BY <1>1, <1>2, <1>3, HoldingStutter

\* An approval is a promise.
LEMMA PromisedPromises ==
  ASSUME LendingInv, NEW l \in LoanId, NEW a \in ArtifactId, Promised(l, a)
  PROVE  H!Promise(a, l)
<1>1. holder[a] = NoId /\ l \notin settled
  BY DEF Promised, holder, settled
<1>2. \A b \in ArtifactId : holder[b] # l
  BY DEF LendingInv, LoanBinding, Promised, Bound, holder
<1>3. holder' = [holder EXCEPT ![a] = l]
  BY DEF Promised, OtherArtifactsStay, holder
<1>4. away' = away
  <2>1. \A b \in ArtifactId : artifact'[b].status = artifact[b].status
    BY DEF Promised, OtherArtifactsStay
  <2> QED BY <2>1 DEF away
<1>5. settled' = settled
  <2>1. \A m \in LoanId : loan'[m].status = "returned" <=> loan[m].status = "returned"
    BY DEF Promised, OtherLoansStay
  <2> QED BY <2>1 DEF settled
<1> QED BY <1>1, <1>2, <1>3, <1>4, <1>5 DEF H!Promise, holder, away, settled

\* A custody event hands the artifact over, takes it back, or changes nothing
\* that Holding sees.
LEMMA HandledMoves ==
  ASSUME LendingInv, NEW l \in LoanId, NEW a \in ArtifactId, NEW kind \in CustodyKind,
         Handled(l, a, kind)
  PROVE  [H!Next]_(H!vars)
<1>1. /\ loan[l].artifact = a /\ loan[l].status = CustodyFrom[kind]
      /\ loan'[l].artifact = a /\ loan'[l].status = kind
      /\ artifact'[a].activeLoan = LoanAfter(kind, l)
      /\ artifact'[a].status = CustodyArtifactStatus[kind]
  BY DEF Handled
<1>2. artifact[a].activeLoan = l
  BY <1>1, CustodyFacts DEF LendingInv, LoanBinding
<1>3. \A m \in LoanId \ {l} : loan'[m] = loan[m]
  BY DEF Handled, OtherLoansStay
<1>4. \A b \in ArtifactId \ {a} : artifact'[b] = artifact[b]
  BY DEF Handled, OtherArtifactsStay
<1>5. \A m \in LoanId \ {l} : ~(loan[m].artifact = a /\ loan[m].status \in Bound)
  BY <1>2 DEF LendingInv, LoanBinding
\* Before the event the artifact is away exactly if this loan has it away.
<1>6. artifact[a].status = "on_loan" <=> CustodyFrom[kind] \in {"dispatched", "returning"}
  BY <1>1, <1>5 DEF LendingInv, OutOnlyOnLoan, Bound
<1>7. holder' = [holder EXCEPT ![a] = LoanAfter(kind, l)]
  BY <1>1, <1>4 DEF holder
<1>8. away' = [away EXCEPT ![a] = (CustodyArtifactStatus[kind] = "on_loan")]
  BY <1>1, <1>4 DEF away
<1>9. holder[a] = l /\ away[a] = (artifact[a].status = "on_loan")
  BY <1>2 DEF holder, away
<1>10. ASSUME kind # "returned"
       PROVE  holder' = holder /\ settled' = settled
  <2>1. holder' = [holder EXCEPT ![a] = l]
    BY <1>7, <1>10 DEF LoanAfter
  <2>2. holder' = holder
    BY <1>9, <2>1 DEF holder
  <2>3. loan[l].status # "returned" /\ loan'[l].status # "returned"
    BY <1>1, <1>10, CustodyFacts DEF Bound
  <2> QED BY <1>3, <2>2, <2>3 DEF settled
<1>11. CASE kind = "packed"
  <2>1. artifact[a].status # "on_loan"
    BY <1>6, <1>11 DEF CustodyFrom
  <2>2. artifact'[a].status # "on_loan"
    BY <1>1, <1>11 DEF CustodyArtifactStatus
  <2>3. away' = away
    BY <1>4, <2>1, <2>2 DEF away
  <2> QED BY <1>10, <1>11, <2>3, HoldingStutter
<1>12. CASE kind = "returning"
  <2>1. artifact[a].status = "on_loan"
    BY <1>6, <1>12 DEF CustodyFrom
  <2>2. artifact'[a].status = "on_loan"
    BY <1>1, <1>12 DEF CustodyArtifactStatus
  <2>3. away' = away
    BY <1>4, <2>1, <2>2 DEF away
  <2> QED BY <1>10, <1>12, <2>3, HoldingStutter
<1>13. CASE kind = "dispatched"
  <2>1. ~away[a] /\ holder[a] # NoId
    BY <1>6, <1>9, <1>13, LendingAssumption DEF CustodyFrom
  <2>2. away' = [away EXCEPT ![a] = TRUE]
    BY <1>8, <1>13 DEF CustodyArtifactStatus
  <2>3. H!HandOver(a)
    BY <1>10, <1>13, <2>1, <2>2 DEF H!HandOver, holder, away, settled
  <2> QED BY <2>3 DEF H!Next
<1>14. CASE kind = "returned"
  <2>1. away[a]
    BY <1>6, <1>9, <1>14 DEF CustodyFrom
  <2>2. away' = [away EXCEPT ![a] = FALSE]
    BY <1>8, <1>14 DEF CustodyArtifactStatus
  <2>3. holder' = [holder EXCEPT ![a] = NoId]
    BY <1>7, <1>14 DEF LoanAfter
  <2>4. settled' = settled \cup {holder[a]}
    BY <1>1, <1>3, <1>9, <1>14 DEF settled
  <2>5. H!TakeBack(a)
    BY <2>1, <2>2, <2>3, <2>4 DEF H!TakeBack, holder, away, settled
  <2> QED BY <2>5 DEF H!Next
<1> QED BY <1>11, <1>12, <1>13, <1>14 DEF CustodyKind

LEMMA HoldingInit == Init => H!Init
<1> SUFFICES ASSUME Init PROVE H!Init
  OBVIOUS
<1>1. \A a \in ArtifactId : artifact[a] = NoArtifact
  BY DEF Init, CollectionInit
<1>2. \A l \in LoanId : loan[l] = NoLoan
  BY DEF Init, LendingInit
<1>3. /\ NoArtifact.activeLoan = NoId /\ NoArtifact.status = "absent"
      /\ NoLoan.status = "absent"
  BY DEF NoArtifact, NoLoan
<1>4. \A a \in ArtifactId : artifact[a].activeLoan = NoId /\ artifact[a].status # "on_loan"
  BY <1>1, <1>3
<1>5. \A l \in LoanId : loan[l].status # "returned"
  BY <1>2, <1>3
<1> QED BY <1>4, <1>5 DEF H!Init

LEMMA HoldingStep == SnapInv /\ LendingInv /\ [Next]_vars => [H!Next]_(H!vars)
<1> SUFFICES ASSUME SnapInv, LendingInv, [Next]_vars PROVE [H!Next]_(H!vars)
  OBVIOUS
<1>1. CASE Quiet
  BY <1>1, QuietStutters
<1>2. ASSUME NEW l \in LoanId, Prepared(l) PROVE [H!Next]_(H!vars)
  BY <1>2, PreparedStutters
<1>3. ASSUME NEW l \in LoanId, NEW a \in ArtifactId, Promised(l, a)
      PROVE  [H!Next]_(H!vars)
  <2>1. H!Promise(a, l)
    BY <1>3, PromisedPromises
  <2> QED BY <2>1 DEF H!Next
<1>4. ASSUME NEW l \in LoanId, NEW a \in ArtifactId, NEW kind \in CustodyKind,
             Handled(l, a, kind)
      PROVE  [H!Next]_(H!vars)
  BY <1>4, HandledMoves
<1> QED BY <1>1, <1>2, <1>3, <1>4, StepClasses

\* Lending keeps Holding's promises in the whole application, for any number of
\* artifacts, loans and callers and whatever the other services do.
THEOREM HoldingImplemented == Spec => ImplementsHolding
BY InitSnapshots, SnapStep, InitLending, LendingStep, HoldingInit, HoldingStep, PTL
   DEF Spec, ImplementsHolding, H!Spec

-----------------------------------------------------------------------------
(* What the steps of the application do to quarantine and to an artifact's   *)
(* case: nothing that counts, or one of three things.                        *)

\* Slots, unresolved cases and the case each artifact names are left alone, and
\* no artifact enters quarantine or treatment or goes on display.
CasesStay ==
  /\ UNCHANGED occupied
  /\ \A q \in QuarantineId :
       /\ Unresolved(q)' <=> Unresolved(q)
       /\ Unresolved(q) => /\ quarantine'[q].artifact = quarantine[q].artifact
                           /\ quarantine'[q].zone = quarantine[q].zone
  /\ \A a \in ArtifactId :
       /\ artifact'[a].currentCase = artifact[a].currentCase
       /\ artifact'[a].status \in {"quarantined", "treatment", "on_display"} =>
            artifact'[a].status = artifact[a].status

\* Case q is opened for artifact a and takes a slot of zone z.
SlotTaken(q, a, z) ==
  /\ ~Unresolved(q)
  /\ NoOpenCase(a)
  /\ quarantine' = [quarantine EXCEPT ![q] =
       [status |-> "open", artifact |-> a, zone |-> z]]
  /\ occupied[z] < Capacity[z]
  /\ occupied' = [occupied EXCEPT ![z] = @ + 1]
  /\ artifact'[a].status = "quarantined" /\ artifact'[a].currentCase = q
  /\ OtherArtifactsStay(a)

\* Case q of artifact a is resolved and gives its slot of zone z back.
SlotFreed(q, a, z) ==
  /\ Unresolved(q) /\ quarantine[q].artifact = a /\ quarantine[q].zone = z
  /\ artifact[a].status \in {"quarantined", "treatment"}
  /\ quarantine' = [quarantine EXCEPT ![q].status = "resolved"]
  /\ occupied' = [occupied EXCEPT ![z] = IF @ > 0 THEN @ - 1 ELSE @]
  /\ artifact'[a].status = "ready" /\ artifact'[a].currentCase = NoId
  /\ OtherArtifactsStay(a)

\* Artifact a is installed in display case d, which becomes its case.
CaseFilled(d, a) ==
  /\ UNCHANGED <<occupied, quarantine>>
  /\ displayCase'[d].status = "active" /\ displayCase'[d].artifact = a
  /\ artifact'[a].status = "on_display" /\ artifact'[a].currentCase = d
  /\ OtherArtifactsStay(a)

\* A step that leaves the quarantine tables alone and moves an artifact, if
\* any, without giving it another case.
LEMMA UpdateStays ==
  ASSUME TypeInv, NEW b \in ArtifactId, NEW row \in ArtifactRow, UpdateArtifact(b, row),
         row.currentCase = artifact[b].currentCase,
         row.status \in {"quarantined", "treatment", "on_display"} => row.status = artifact[b].status,
         UNCHANGED <<occupied, quarantine>>
  PROVE  CasesStay
<1>1. /\ artifact'[b] = [row EXCEPT !.version = @ + 1]
      /\ \A a \in ArtifactId \ {b} : artifact'[a] = artifact[a]
  BY ArtifactUpdate DEF TypeInv, TypeOK
<1>2. artifact'[b].currentCase = row.currentCase /\ artifact'[b].status = row.status
  BY <1>1 DEF ArtifactRow
<1> QED BY <1>1, <1>2 DEF CasesStay, Unresolved

LEMMA IdleStays ==
  ASSUME UNCHANGED <<artifact, occupied, quarantine>>
  PROVE  CasesStay
BY DEF CasesStay, Unresolved

LEMMA LendingSlots ==
  ASSUME TypeInv, LendingNext, UNCHANGED conservationVars
  PROVE  CasesStay
<1>0. UNCHANGED <<occupied, quarantine>>
  BY DEF conservationVars
<1>1. ASSUME UNCHANGED artifact PROVE CasesStay
  BY <1>0, <1>1, IdleStays
<1>2. ASSUME NEW c \in Caller, ApproveLoanAtomically(c) PROVE CasesStay
  <2> DEFINE row == [artifact[call[c].art] EXCEPT !.activeLoan = call[c].row]
  <2>1. call[c] \in CallType /\ call[c].op = "Approve"
    BY <1>2 DEF ApproveLoanAtomically, InFlight, TypeInv, TypeOK
  <2>2. call[c].art \in ArtifactId /\ call[c].artVer \in Pos /\ call[c].row \in LoanId
    BY <2>1, LendingFields
  <2>3. artifact[call[c].art] \in ArtifactRow
    BY <1>2, <2>2, CurrentExists DEF ApproveLoanAtomically, TypeInv
  <2>4. row \in ArtifactRow /\ row.status = artifact[call[c].art].status
        /\ row.currentCase = artifact[call[c].art].currentCase
    BY <2>2, <2>3 DEF ArtifactRow
  <2>5. UpdateArtifact(call[c].art, row)
    BY <1>2 DEF ApproveLoanAtomically
  <2> HIDE DEF row
  <2> QED BY <1>0, <2>2, <2>4, <2>5, UpdateStays
<1>3. ASSUME NEW c \in Caller, SaveCustody(c) PROVE CasesStay
  <2> DEFINE row == [artifact[call[c].art] EXCEPT
               !.status = CustodyArtifactStatus[call[c].arg],
               !.activeLoan = LoanAfter(call[c].arg, call[c].row)]
  <2>1. call[c] \in CallType /\ call[c].op = "RecordCustody"
    BY <1>3 DEF SaveCustody, InFlight, TypeInv, TypeOK
  <2>2. call[c].art \in ArtifactId /\ call[c].artVer \in Pos
        /\ call[c].row \in LoanId /\ call[c].arg \in CustodyKind
    BY <2>1, LendingFields
  <2>3. artifact[call[c].art] \in ArtifactRow
    BY <1>3, <2>2, CurrentExists DEF SaveCustody, TypeInv
  <2>4. /\ CustodyArtifactStatus[call[c].arg]
             \in ArtifactStatus \ {"quarantined", "treatment", "on_display"}
        /\ LoanAfter(call[c].arg, call[c].row) \in LoanId \cup {NoId}
    BY <2>2 DEF CustodyKind, CustodyArtifactStatus, ArtifactStatus, LoanAfter
  <2>5. /\ row \in ArtifactRow
        /\ row.status \notin {"quarantined", "treatment", "on_display"}
        /\ row.currentCase = artifact[call[c].art].currentCase
    BY <2>3, <2>4 DEF ArtifactRow
  <2>6. UpdateArtifact(call[c].art, row)
    BY <1>3 DEF SaveCustody
  <2> HIDE DEF row
  <2> QED BY <1>0, <2>2, <2>5, <2>6, UpdateStays
<1>4. ASSUME NEW c \in Caller, NEW a \in ArtifactId, CreateLoan(c, a) PROVE CasesStay
  BY <1>1, <1>4 DEF CreateLoan
<1>5. ASSUME NEW c \in Caller, NEW l \in LoanId,
             InsertLoan(c, l) \/ Submit(c, l) \/ Approve(c, l)
      PROVE  CasesStay
  BY <1>1, <1>5 DEF InsertLoan, Submit, Approve
<1>6. ASSUME NEW c \in Caller, NEW l \in LoanId, NEW kind \in CustodyKind,
             RecordCustody(c, l, kind)
      PROVE  CasesStay
  BY <1>1, <1>6 DEF RecordCustody
<1>7. ASSUME NEW c \in Caller, CheckCommitments(c) \/ UpdateLoan(c) PROVE CasesStay
  BY <1>1, <1>7 DEF CheckCommitments, UpdateLoan
<1> QED BY <1>2, <1>3, <1>4, <1>5, <1>6, <1>7 DEF LendingNext

LEMMA ExhibitionSlots ==
  ASSUME TypeInv, ExhibitionNext, UNCHANGED conservationVars
  PROVE  CasesStay \/ \E d \in CaseId, a \in ArtifactId : CaseFilled(d, a)
<1>0. UNCHANGED <<occupied, quarantine>>
  BY DEF conservationVars
<1>1. ASSUME UNCHANGED artifact PROVE CasesStay
  BY <1>0, <1>1, IdleStays
<1>2. ASSUME NEW c \in Caller, ActivateInstallation(c)
      PROVE  \E d \in CaseId, a \in ArtifactId : CaseFilled(d, a)
  <2> DEFINE d == call[c].row
             a == call[c].art
             row == [artifact[a] EXCEPT !.status = "on_display", !.currentCase = d]
  <2>1. call[c] \in CallType /\ call[c].op = "Activate"
    BY <1>2 DEF ActivateInstallation, InFlight, TypeInv, TypeOK
  <2>2. a \in ArtifactId /\ call[c].artVer \in Pos /\ d \in CaseId
    BY <2>1, ExhibitionFields
  <2>3. artifact[a] \in ArtifactRow
    BY <1>2, <2>2, CurrentExists DEF ActivateInstallation, TypeInv
  <2>4. row \in ArtifactRow /\ row.status = "on_display" /\ row.currentCase = d
    BY <2>2, <2>3 DEF ArtifactRow, ArtifactStatus
  <2>5. UpdateArtifact(a, row)
    BY <1>2 DEF ActivateInstallation
  <2>6. /\ displayCase' = [displayCase EXCEPT ![d].status = "active", ![d].version = @ + 1]
        /\ displayCase[d].artifact = a
    BY <1>2 DEF ActivateInstallation
  <2> HIDE DEF row
  <2>7. /\ artifact'[a] = [row EXCEPT !.version = @ + 1]
        /\ \A b \in ArtifactId \ {a} : artifact'[b] = artifact[b]
    BY <2>2, <2>4, <2>5, ArtifactUpdate DEF TypeInv, TypeOK
  <2>8. artifact'[a].status = "on_display" /\ artifact'[a].currentCase = d
    BY <2>4, <2>7 DEF ArtifactRow
  <2>9. displayCase'[d].status = "active" /\ displayCase'[d].artifact = a
    BY <2>2, <2>6 DEF TypeInv, TypeOK, ExhibitionTypeOK, CaseRow
  <2> HIDE DEF a, d
  <2>10. CaseFilled(d, a)
    BY <1>0, <2>7, <2>8, <2>9 DEF CaseFilled, OtherArtifactsStay
  <2> QED BY <2>2, <2>10
<1>3. ASSUME NEW i \in IncidentId, NEW d \in CaseId, NEW w \in WindowKey, OpenIncident(i, d, w)
      PROVE  CasesStay
  BY <1>1, <1>3 DEF OpenIncident
<1>4. ASSUME NEW c \in Caller, NEW a \in ArtifactId, NEW d \in CaseId, ReserveArtifact(c, a, d)
      PROVE  CasesStay
  BY <1>1, <1>4 DEF ReserveArtifact
<1>5. ASSUME NEW c \in Caller, NEW a \in ArtifactId, NEW d \in CaseId, NEW complete \in BOOLEAN,
             Activate(c, a, d, complete)
      PROVE  CasesStay
  BY <1>1, <1>5 DEF Activate
<1>6. ASSUME NEW c \in Caller, NEW i \in IncidentId, NEW to \in IncidentStatus,
             NEW r \in BOOLEAN, AdvanceIncident(c, i, to, r)
      PROVE  CasesStay
  BY <1>1, <1>6 DEF AdvanceIncident
<1>7. ASSUME NEW c \in Caller, ReserveCase(c) \/ ReserveDisplayCase(c) \/ UpdateIncident(c)
      PROVE  CasesStay
  BY <1>1, <1>7 DEF ReserveCase, ReserveDisplayCase, UpdateIncident
<1> QED BY <1>2, <1>3, <1>4, <1>5, <1>6, <1>7 DEF ExhibitionNext

LEMMA ConservationSlots ==
  ASSUME TypeInv, ConservationNext
  PROVE  \/ CasesStay
         \/ \E q \in QuarantineId, a \in ArtifactId, z \in ZoneId :
              SlotTaken(q, a, z) \/ SlotFreed(q, a, z)
<1> DEFINE Goal == \/ CasesStay
                   \/ \E q \in QuarantineId, a \in ArtifactId, z \in ZoneId :
                        SlotTaken(q, a, z) \/ SlotFreed(q, a, z)
<1> SUFFICES Goal
  OBVIOUS
<1>1. ASSUME UNCHANGED <<artifact, occupied, quarantine>> PROVE Goal
  BY <1>1, IdleStays
<1>2. ASSUME NEW b \in ArtifactId, Register(b) PROVE Goal
  <2>1. PICK v \in Verdict : artifact' = [artifact EXCEPT ![b] =
           [NoArtifact EXCEPT !.status = "registered", !.version = 1, !.lastReport = v]]
    BY <1>2 DEF Register
  <2>2. artifact[b] = NoArtifact
    BY <1>2 DEF Register
  <2>3. /\ artifact'[b].status = "registered"
        /\ artifact'[b].currentCase = artifact[b].currentCase
        /\ \A a \in ArtifactId \ {b} : artifact'[a] = artifact[a]
    BY <2>1, <2>2 DEF TypeInv, TypeOK, NoArtifact
  <2>4. UNCHANGED <<occupied, quarantine>>
    BY <1>2 DEF Register, conservationVars
  <2> QED BY <2>3, <2>4 DEF CasesStay, Unresolved
<1>3. ASSUME NEW c \in Caller, SaveConditionReport(c) PROVE Goal
  <2> DEFINE row == [artifact[call[c].art] EXCEPT !.status = "assessment",
                                                  !.lastReport = call[c].arg]
  <2>1. call[c] \in CallType /\ call[c].op = "RecordCondition"
    BY <1>3 DEF SaveConditionReport, InFlight, TypeInv, TypeOK
  <2>2. call[c].art \in ArtifactId /\ call[c].artVer \in Pos /\ call[c].arg \in Verdict
    BY <2>1, ConservationFields
  <2>3. artifact[call[c].art] \in ArtifactRow
    BY <1>3, <2>2, CurrentExists DEF SaveConditionReport, TypeInv
  <2>4. row \in ArtifactRow /\ row.status = "assessment"
        /\ row.currentCase = artifact[call[c].art].currentCase
    BY <2>2, <2>3 DEF ArtifactRow, ArtifactStatus
  <2>5. UpdateArtifact(call[c].art, row) /\ UNCHANGED <<occupied, quarantine>>
    BY <1>3 DEF SaveConditionReport, conservationVars
  <2> HIDE DEF row
  <2> QED BY <2>2, <2>4, <2>5, UpdateStays
<1>4. ASSUME NEW c \in Caller, UpdateArtifactStatus(c) PROVE Goal
  <2> DEFINE row == [artifact[call[c].art] EXCEPT !.status = "ready"]
  <2>1. call[c] \in CallType /\ call[c].op = "ReleaseAssessment"
    BY <1>4 DEF UpdateArtifactStatus, InFlight, TypeInv, TypeOK
  <2>2. call[c].art \in ArtifactId /\ call[c].artVer \in Pos
    BY <2>1, ConservationFields
  <2>3. artifact[call[c].art] \in ArtifactRow
    BY <1>4, <2>2, CurrentExists DEF UpdateArtifactStatus, TypeInv
  <2>4. row \in ArtifactRow /\ row.status = "ready"
        /\ row.currentCase = artifact[call[c].art].currentCase
    BY <2>2, <2>3 DEF ArtifactRow, ArtifactStatus
  <2>5. UpdateArtifact(call[c].art, row) /\ UNCHANGED <<occupied, quarantine>>
    BY <1>4 DEF UpdateArtifactStatus, conservationVars
  <2> HIDE DEF row
  <2> QED BY <2>2, <2>4, <2>5, UpdateStays
<1>5. ASSUME NEW c \in Caller, NEW q \in QuarantineId, SaveQuarantine(c, q) PROVE Goal
  <2> DEFINE a == call[c].art
             z == call[c].arg
             row == [artifact[a] EXCEPT !.status = "quarantined", !.currentCase = q]
  <2>1. call[c] \in CallType /\ call[c].op = "OpenQuarantine"
    BY <1>5 DEF SaveQuarantine, InFlight, TypeInv, TypeOK
  <2>2. a \in ArtifactId /\ call[c].artVer \in Pos /\ z \in ZoneId
    BY <2>1, ConservationFields
  <2>3. artifact[a] \in ArtifactRow
    BY <1>5, <2>2, CurrentExists DEF SaveQuarantine, TypeInv
  <2>4. row \in ArtifactRow /\ row.status = "quarantined" /\ row.currentCase = q
    BY <2>2, <2>3 DEF ArtifactRow, ArtifactStatus
  <2>5. UpdateArtifact(a, row)
    BY <1>5 DEF SaveQuarantine
  <2> HIDE DEF row
  <2>6. /\ artifact'[a] = [row EXCEPT !.version = @ + 1]
        /\ \A b \in ArtifactId \ {a} : artifact'[b] = artifact[b]
    BY <2>2, <2>4, <2>5, ArtifactUpdate DEF TypeInv, TypeOK
  <2>7. artifact'[a].status = "quarantined" /\ artifact'[a].currentCase = q
    BY <2>4, <2>6 DEF ArtifactRow
  <2>8. ~Unresolved(q)
    BY <1>5 DEF SaveQuarantine, NoQuarantine, Unresolved
  <2>9. SlotTaken(q, a, z)
    BY <1>5, <2>6, <2>7, <2>8 DEF SaveQuarantine, SlotTaken, HasRoom, OtherArtifactsStay
  <2> QED BY <2>2, <2>9
<1>6. ASSUME NEW c \in Caller, FinishTreatment(c) PROVE Goal
  <2> DEFINE q == plan[call[c].row].quarantine
             a == quarantine[q].artifact
             z == quarantine[q].zone
  <2>1. /\ q \in QuarantineId /\ z \in ZoneId /\ a \in ArtifactId
        /\ artifact[a] \in ArtifactRow
    BY <1>6, CaseOfCompletion DEF TypeInv
  <2>2. /\ Unresolved(q)
        /\ quarantine' = [quarantine EXCEPT ![q].status = "resolved"]
        /\ occupied' = [occupied EXCEPT ![z] = IF @ > 0 THEN @ - 1 ELSE @]
        /\ UpdateArtifact(a, Treated(artifact[a]))
        /\ artifact[a].status \in {"quarantined", "treatment"}
    BY <1>6 DEF FinishTreatment
  <2>3. /\ Treated(artifact[a]) \in ArtifactRow /\ Treated(artifact[a]).status = "ready"
        /\ Treated(artifact[a]).currentCase = NoId
    BY <2>1 DEF Treated, ArtifactRow, ArtifactStatus
  <2>4. /\ artifact'[a] = [Treated(artifact[a]) EXCEPT !.version = @ + 1]
        /\ \A b \in ArtifactId \ {a} : artifact'[b] = artifact[b]
    BY <2>1, <2>2, <2>3, ArtifactUpdate DEF TypeInv, TypeOK
  <2>5. artifact'[a].status = "ready" /\ artifact'[a].currentCase = NoId
    BY <2>3, <2>4 DEF ArtifactRow
  <2>6. SlotFreed(q, a, z)
    BY <2>2, <2>4, <2>5 DEF SlotFreed, OtherArtifactsStay
  <2> QED BY <2>1, <2>6
<1>7. ASSUME NEW c \in Caller, UpdateTreatment(c) PROVE Goal
  <2> DEFINE q == plan[call[c].row].quarantine
  <2>1. q \in QuarantineId
    BY <1>7, PlanOfCall DEF UpdateTreatment, TypeInv
  <2>2. /\ UNCHANGED <<artifact, occupied>>
        /\ \/ UNCHANGED quarantine
           \/ /\ quarantine[q].status = "open"
              /\ quarantine' = [quarantine EXCEPT ![q].status = "treating"]
    BY <1>7 DEF UpdateTreatment
  <2> HIDE DEF q
  <2>3. ASSUME quarantine[q].status = "open",
               quarantine' = [quarantine EXCEPT ![q].status = "treating"]
        PROVE  CasesStay
    <3>1. quarantine \in [QuarantineId -> QuarantineRow \cup {NoQuarantine}]
      BY DEF TypeInv, TypeOK, ConservationTypeOK
    <3>2. /\ quarantine'[q].status = "treating"
          /\ quarantine'[q].artifact = quarantine[q].artifact
          /\ quarantine'[q].zone = quarantine[q].zone
          /\ \A r \in QuarantineId \ {q} : quarantine'[r] = quarantine[r]
      BY <2>1, <2>3, <3>1 DEF QuarantineRow, NoQuarantine
    <3> QED BY <2>2, <2>3, <3>2 DEF CasesStay, Unresolved
  <2> QED BY <1>1, <2>2, <2>3
<1>8. ASSUME NEW p \in PlanId, NEW q \in QuarantineId, DraftTreatment(p, q) PROVE Goal
  BY <1>1, <1>8 DEF DraftTreatment
<1>9. ASSUME NEW c \in Caller, NEW a \in ArtifactId,
             RecordCondition(c, a) \/ ReleaseAssessment(c, a)
      PROVE  Goal
  BY <1>1, <1>9 DEF RecordCondition, ReleaseAssessment, conservationVars
<1>10. ASSUME NEW c \in Caller, NEW a \in ArtifactId, NEW z \in ZoneId, OpenQuarantine(c, a, z)
       PROVE  Goal
  BY <1>1, <1>10 DEF OpenQuarantine, conservationVars
<1>11. ASSUME NEW c \in Caller, NEW p \in PlanId, NEW to \in TreatmentStatus,
              AdvanceTreatment(c, p, to)
       PROVE  Goal
  BY <1>1, <1>11 DEF AdvanceTreatment, conservationVars
<1> HIDE DEF Goal
<1> QED
  BY <1>2, <1>3, <1>4, <1>5, <1>6, <1>7, <1>8, <1>9, <1>10, <1>11 DEF ConservationNext

\* Every step of the application, as quarantine sees it.
LEMMA SlotClasses ==
  ASSUME TypeInv, [Next]_vars
  PROVE  \/ CasesStay
         \/ \E q \in QuarantineId, a \in ArtifactId, z \in ZoneId :
              SlotTaken(q, a, z) \/ SlotFreed(q, a, z)
         \/ \E d \in CaseId, a \in ArtifactId : CaseFilled(d, a)
<1>1. CASE UNCHANGED vars
  BY <1>1, IdleStays DEF vars, conservationVars
<1>2. CASE Fail
  BY <1>2, IdleStays DEF Fail, FailCall, conservationVars
<1>3. CASE ConservationNext
  BY <1>3, ConservationSlots
<1>4. CASE LendingNext /\ UNCHANGED conservationVars
  BY <1>4, LendingSlots
<1>5. CASE ExhibitionNext /\ UNCHANGED conservationVars
  BY <1>5, ExhibitionSlots
<1> QED BY <1>1, <1>2, <1>3, <1>4, <1>5 DEF Next

-----------------------------------------------------------------------------
(* Slot accounting.  The count is of a set that must be known to be finite.  *)

SlotInv ==
  /\ \A z \in ZoneId : IsFiniteSet(Occupants(z))
  /\ ZoneAccounting

LEMMA SlotsKept ==
  ASSUME TypeInv, SlotInv, CasesStay
  PROVE  SlotInv'
<1>1. \A z \in ZoneId : Occupants(z)' = Occupants(z)
  BY DEF CasesStay, Occupants
<1>2. UNCHANGED occupied
  BY DEF CasesStay
<1> QED BY <1>1, <1>2 DEF SlotInv, ZoneAccounting

LEMMA FilledKeepsSlots ==
  ASSUME SlotInv, NEW d \in CaseId, NEW a \in ArtifactId, CaseFilled(d, a)
  PROVE  SlotInv'
<1>1. UNCHANGED occupied /\ \A z \in ZoneId : Occupants(z)' = Occupants(z)
  BY DEF CaseFilled, Occupants, Unresolved
<1> QED BY <1>1 DEF SlotInv, ZoneAccounting

LEMMA SlotTakenKeeps ==
  ASSUME TypeInv, SlotInv, NEW q \in QuarantineId, NEW a \in ArtifactId, NEW z \in ZoneId,
         SlotTaken(q, a, z)
  PROVE  SlotInv'
<1>0. /\ quarantine \in [QuarantineId -> QuarantineRow \cup {NoQuarantine}]
      /\ occupied \in [ZoneId -> Nat]
  BY DEF TypeInv, TypeOK, ConservationTypeOK
<1>1. /\ quarantine'[q] = [status |-> "open", artifact |-> a, zone |-> z]
      /\ \A r \in QuarantineId \ {q} : quarantine'[r] = quarantine[r]
  BY <1>0 DEF SlotTaken
<1>2. q \notin Occupants(z)
  BY DEF SlotTaken, Occupants
<1>3. Occupants(z)' = Occupants(z) \cup {q}
  BY <1>1 DEF Occupants, Unresolved
<1>4. \A y \in ZoneId \ {z} : Occupants(y)' = Occupants(y)
  BY <1>1 DEF SlotTaken, Occupants, Unresolved
<1>5. /\ occupied'[z] = occupied[z] + 1
      /\ \A y \in ZoneId \ {z} : occupied'[y] = occupied[y]
  BY <1>0 DEF SlotTaken
<1>6. /\ IsFiniteSet(Occupants(z)')
      /\ Cardinality(Occupants(z)') = Cardinality(Occupants(z)) + 1
  BY <1>2, <1>3, FS_AddElement DEF SlotInv
<1>7. occupied'[z] = Cardinality(Occupants(z)') /\ occupied'[z] <= Capacity[z]
  <2>1. occupied[z] = Cardinality(Occupants(z)) /\ occupied[z] < Capacity[z]
    BY DEF SlotInv, ZoneAccounting, SlotTaken
  <2>2. occupied[z] \in Nat /\ Capacity[z] \in Nat
    BY <1>0, ConservationAssumption
  <2> QED BY <1>5, <1>6, <2>1, <2>2
<1> QED BY <1>4, <1>5, <1>6, <1>7 DEF SlotInv, ZoneAccounting

LEMMA SlotFreedKeeps ==
  ASSUME TypeInv, SlotInv, NEW q \in QuarantineId, NEW a \in ArtifactId, NEW z \in ZoneId,
         SlotFreed(q, a, z)
  PROVE  SlotInv'
<1>0. /\ quarantine \in [QuarantineId -> QuarantineRow \cup {NoQuarantine}]
      /\ occupied \in [ZoneId -> Nat]
  BY DEF TypeInv, TypeOK, ConservationTypeOK
<1>1. /\ quarantine'[q].status = "resolved"
      /\ \A r \in QuarantineId \ {q} : quarantine'[r] = quarantine[r]
  BY <1>0 DEF SlotFreed, QuarantineRow, NoQuarantine
<1>2. q \in Occupants(z)
  BY DEF SlotFreed, Occupants
<1>3. Occupants(z)' = Occupants(z) \ {q}
  BY <1>1 DEF Occupants, Unresolved
<1>4. \A y \in ZoneId \ {z} : Occupants(y)' = Occupants(y)
  BY <1>1 DEF SlotFreed, Occupants, Unresolved
<1>5. /\ IsFiniteSet(Occupants(z)')
      /\ Cardinality(Occupants(z)') = Cardinality(Occupants(z)) - 1
  BY <1>2, <1>3, FS_RemoveElement DEF SlotInv
<1>6. Cardinality(Occupants(z)') \in Nat
  BY <1>5, FS_CardinalityType
<1>7. /\ occupied'[z] = IF occupied[z] > 0 THEN occupied[z] - 1 ELSE occupied[z]
      /\ \A y \in ZoneId \ {z} : occupied'[y] = occupied[y]
  BY <1>0 DEF SlotFreed
<1>8. occupied'[z] = Cardinality(Occupants(z)') /\ occupied'[z] <= Capacity[z]
  <2>1. occupied[z] = Cardinality(Occupants(z)) /\ occupied[z] <= Capacity[z]
    BY DEF SlotInv, ZoneAccounting
  <2>2. occupied[z] \in Nat /\ Capacity[z] \in Nat
    BY <1>0, ConservationAssumption
  <2> QED BY <1>5, <1>6, <1>7, <2>1, <2>2
<1> QED BY <1>4, <1>5, <1>7, <1>8 DEF SlotInv, ZoneAccounting

LEMMA InitSlots == Init => SlotInv
<1> SUFFICES ASSUME Init PROVE SlotInv
  OBVIOUS
<1>1. \A q \in QuarantineId : quarantine[q] = NoQuarantine
  BY DEF Init, ConservationInit
<1>2. \A z \in ZoneId : occupied[z] = 0
  BY DEF Init, ConservationInit
<1>3. \A z \in ZoneId : Occupants(z) = {}
  BY <1>1 DEF Occupants, Unresolved, NoQuarantine
<1>4. \A z \in ZoneId : 0 <= Capacity[z]
  BY ConservationAssumption
<1> QED BY <1>2, <1>3, <1>4, FS_EmptySet DEF SlotInv, ZoneAccounting

LEMMA SlotStep == TypeInv /\ SlotInv /\ [Next]_vars => SlotInv'
BY SlotClasses, SlotsKept, FilledKeepsSlots, SlotTakenKeeps, SlotFreedKeeps

\* The occupied column of a zone is the number of its unresolved cases and
\* never exceeds its capacity, in the whole application and for any number of
\* zones, cases, plans and callers.
THEOREM ZoneAccountingHolds == Spec => []ZoneAccounting
<1>1. SlotInv => ZoneAccounting
  BY DEF SlotInv
<1> QED BY <1>1, InitTypes, TypeStep, InitSlots, SlotStep, PTL DEF Spec

-----------------------------------------------------------------------------
(* Artifacts in quarantine.                                                  *)

\* b's currentCase is an unresolved case of b's.
OwnCase(b) ==
  \E q \in QuarantineId : /\ artifact[b].currentCase = q
                          /\ quarantine[q].status \in {"open", "treating"}
                          /\ quarantine[q].artifact = b

LEMMA OwnCases ==
  QuarantinedHasCase <=> \A b \in ArtifactId : artifact[b].status = "quarantined" => OwnCase(b)
BY DEF QuarantinedHasCase, OwnCase, Unresolved

LEMMA OwnCaseStep == TypeInv /\ QuarantinedHasCase /\ [Next]_vars => QuarantinedHasCase'
<1> SUFFICES ASSUME TypeInv, QuarantinedHasCase, [Next]_vars,
                    NEW b \in ArtifactId, artifact'[b].status = "quarantined"
             PROVE  OwnCase(b)'
  BY OwnCases DEF QuarantinedHasCase, OwnCase, Unresolved
<1>0. quarantine \in [QuarantineId -> QuarantineRow \cup {NoQuarantine}]
  BY DEF TypeInv, TypeOK, ConservationTypeOK
<1>1. ASSUME artifact[b].status = "quarantined"
      PROVE  \E q \in QuarantineId : /\ artifact[b].currentCase = q
                                     /\ quarantine[q].status \in {"open", "treating"}
                                     /\ quarantine[q].artifact = b
  BY <1>1, OwnCases DEF OwnCase
<1>2. CASE CasesStay
  <2>1. artifact[b].status = "quarantined" /\ artifact'[b].currentCase = artifact[b].currentCase
    BY <1>2 DEF CasesStay
  <2>2. PICK q \in QuarantineId : /\ artifact[b].currentCase = q
                                  /\ quarantine[q].status \in {"open", "treating"}
                                  /\ quarantine[q].artifact = b
    BY <1>1, <2>1
  <2>3. Unresolved(q)' = Unresolved(q) /\ quarantine'[q].artifact = b
    BY <1>2, <2>2 DEF CasesStay, Unresolved
  <2> QED BY <2>1, <2>2, <2>3 DEF OwnCase, Unresolved
<1>3. ASSUME NEW r \in QuarantineId, NEW a \in ArtifactId, NEW z \in ZoneId, SlotTaken(r, a, z)
      PROVE  OwnCase(b)'
  <2>1. /\ quarantine'[r] = [status |-> "open", artifact |-> a, zone |-> z]
        /\ \A s \in QuarantineId \ {r} : quarantine'[s] = quarantine[s]
    BY <1>0, <1>3 DEF SlotTaken
  <2>2. CASE b = a
    <3>1. artifact'[b].currentCase = r
      BY <1>3, <2>2 DEF SlotTaken
    <3>2. quarantine'[r].status = "open" /\ quarantine'[r].artifact = b
      BY <2>1, <2>2
    <3> QED BY <3>1, <3>2 DEF OwnCase
  <2>3. CASE b # a
    <3>1. artifact'[b] = artifact[b]
      BY <1>3, <2>3 DEF SlotTaken, OtherArtifactsStay
    <3>2. PICK q \in QuarantineId : /\ artifact[b].currentCase = q
                                    /\ quarantine[q].status \in {"open", "treating"}
                                    /\ quarantine[q].artifact = b
      BY <1>1, <3>1
    <3>3. q # r
      BY <1>3, <3>2 DEF SlotTaken, Unresolved
    <3> QED BY <2>1, <3>1, <3>2, <3>3 DEF OwnCase
  <2> QED BY <2>2, <2>3
<1>4. ASSUME NEW r \in QuarantineId, NEW a \in ArtifactId, NEW z \in ZoneId, SlotFreed(r, a, z)
      PROVE  OwnCase(b)'
  <2>1. \A s \in QuarantineId \ {r} : quarantine'[s] = quarantine[s]
    BY <1>0, <1>4 DEF SlotFreed
  <2>2. b # a
    BY <1>4 DEF SlotFreed
  <2>3. artifact'[b] = artifact[b]
    BY <1>4, <2>2 DEF SlotFreed, OtherArtifactsStay
  <2>4. PICK q \in QuarantineId : /\ artifact[b].currentCase = q
                                  /\ quarantine[q].status \in {"open", "treating"}
                                  /\ quarantine[q].artifact = b
    BY <1>1, <2>3
  <2>5. q # r
    BY <1>4, <2>2, <2>4 DEF SlotFreed
  <2> QED BY <2>1, <2>3, <2>4, <2>5 DEF OwnCase
<1>5. ASSUME NEW d \in CaseId, NEW a \in ArtifactId, CaseFilled(d, a)
      PROVE  OwnCase(b)'
  <2>1. b # a
    BY <1>5 DEF CaseFilled
  <2>2. artifact'[b] = artifact[b] /\ UNCHANGED quarantine
    BY <1>5, <2>1 DEF CaseFilled, OtherArtifactsStay
  <2> QED BY <1>1, <2>2 DEF OwnCase
<1> QED BY <1>2, <1>3, <1>4, <1>5, SlotClasses

LEMMA InitOwnCases == Init => QuarantinedHasCase
<1> SUFFICES ASSUME Init PROVE QuarantinedHasCase
  OBVIOUS
<1>1. \A a \in ArtifactId : artifact[a] = NoArtifact
  BY DEF Init, CollectionInit
<1>2. NoArtifact.status # "quarantined"
  BY DEF NoArtifact
<1> QED BY <1>1, <1>2 DEF QuarantinedHasCase

\* An artifact whose status is quarantined names an unresolved case that is its
\* own, whatever lending and exhibition do to it meanwhile.
THEOREM QuarantinedHasCaseHolds == Spec => []QuarantinedHasCase
BY InitTypes, TypeStep, InitOwnCases, OwnCaseStep, PTL DEF Spec

-----------------------------------------------------------------------------
(* The case an artifact names.                                               *)

\* Case q is unresolved and about artifact a.
Holds(q, a) == Unresolved(q) /\ quarantine[q].artifact = a

\* What QuarantineHoldsArtifact becomes when other services are at work: the
\* artifact of an unresolved case names that case or was installed meanwhile; a
\* case it names is its own and unresolved or a display case; and it has one
\* unresolved case at most, as the unique index demands.
HeldRight(a) ==
  /\ \A q \in QuarantineId : Holds(q, a) => artifact[a].currentCase \in {q} \cup CaseId
  /\ \A q \in QuarantineId : artifact[a].currentCase = q => q \in CaseId \/ Holds(q, a)
  /\ \A q, r \in QuarantineId : Holds(q, a) /\ Holds(r, a) => q = r

HoldInv == \A a \in ArtifactId : HeldRight(a)

LEMMA InitHolds == Init => HoldInv
<1> SUFFICES ASSUME Init, NEW a \in ArtifactId PROVE HeldRight(a)
  BY DEF HoldInv
<1>1. \A q \in QuarantineId : ~Holds(q, a)
  BY DEF Init, ConservationInit, Holds, Unresolved, NoQuarantine
<1>2. artifact[a].currentCase = NoId
  BY DEF Init, CollectionInit, NoArtifact
<1> QED BY <1>1, <1>2, ConservationAssumption DEF HeldRight

LEMMA HoldStep == TypeInv /\ HoldInv /\ [Next]_vars => HoldInv'
<1> SUFFICES ASSUME TypeInv, HoldInv, [Next]_vars, NEW a \in ArtifactId
             PROVE  HeldRight(a)'
  BY DEF HoldInv
<1>0. HeldRight(a) /\ quarantine \in [QuarantineId -> QuarantineRow \cup {NoQuarantine}]
  BY DEF HoldInv, TypeInv, TypeOK, ConservationTypeOK
<1>1. ASSUME artifact'[a].currentCase = artifact[a].currentCase,
             \A q \in QuarantineId : Holds(q, a)' <=> Holds(q, a)
      PROVE  HeldRight(a)'
  BY <1>0, <1>1 DEF HeldRight
<1>2. CASE CasesStay
  <2>1. \A q \in QuarantineId : Holds(q, a)' <=> Holds(q, a)
    BY <1>2 DEF CasesStay, Holds
  <2>2. artifact'[a].currentCase = artifact[a].currentCase
    BY <1>2 DEF CasesStay
  <2> QED BY <1>1, <2>1, <2>2
<1>3. ASSUME NEW s \in QuarantineId, NEW b \in ArtifactId, NEW z \in ZoneId, SlotTaken(s, b, z)
      PROVE  HeldRight(a)'
  <2>1. /\ quarantine'[s] = [status |-> "open", artifact |-> b, zone |-> z]
        /\ \A q \in QuarantineId \ {s} : quarantine'[q] = quarantine[q]
    BY <1>0, <1>3 DEF SlotTaken
  <2>2. /\ Holds(s, a)' <=> a = b
        /\ \A q \in QuarantineId \ {s} : Holds(q, a)' <=> Holds(q, a)
    BY <2>1 DEF Holds, Unresolved
  <2>3. ~Holds(s, a) /\ \A q \in QuarantineId : ~Holds(q, b)
    BY <1>3 DEF SlotTaken, NoOpenCase, Holds
  <2>4. CASE a = b
    <3>1. artifact'[a].currentCase = s
      BY <1>3, <2>4 DEF SlotTaken
    <3>2. \A q \in QuarantineId : Holds(q, a)' <=> q = s
      BY <2>2, <2>3, <2>4
    <3> QED BY <3>1, <3>2 DEF HeldRight
  <2>5. CASE a # b
    <3>1. artifact'[a] = artifact[a]
      BY <1>3, <2>5 DEF SlotTaken, OtherArtifactsStay
    <3> QED BY <1>1, <2>2, <2>3, <2>5, <3>1
  <2> QED BY <2>4, <2>5
<1>4. ASSUME NEW s \in QuarantineId, NEW b \in ArtifactId, NEW z \in ZoneId, SlotFreed(s, b, z)
      PROVE  HeldRight(a)'
  <2>1. /\ quarantine'[s].status = "resolved"
        /\ \A q \in QuarantineId \ {s} : quarantine'[q] = quarantine[q]
    BY <1>0, <1>4 DEF SlotFreed, QuarantineRow, NoQuarantine
  <2>2. /\ ~Holds(s, a)'
        /\ \A q \in QuarantineId \ {s} : Holds(q, a)' <=> Holds(q, a)
    BY <2>1 DEF Holds, Unresolved
  <2>3. Holds(s, a) <=> a = b
    BY <1>4 DEF SlotFreed, Holds
  <2>4. CASE a = b
    <3>1. artifact'[a].currentCase = NoId
      BY <1>4, <2>4 DEF SlotFreed
    <3>2. \A q \in QuarantineId : ~Holds(q, a)'
      BY <1>0, <2>2, <2>3, <2>4 DEF HeldRight
    <3> QED BY <3>1, <3>2, ConservationAssumption DEF HeldRight
  <2>5. CASE a # b
    <3>1. artifact'[a] = artifact[a]
      BY <1>4, <2>5 DEF SlotFreed, OtherArtifactsStay
    <3> QED BY <1>1, <2>2, <2>3, <2>5, <3>1
  <2> QED BY <2>4, <2>5
<1>5. ASSUME NEW d \in CaseId, NEW b \in ArtifactId, CaseFilled(d, b)
      PROVE  HeldRight(a)'
  <2>1. \A q \in QuarantineId : Holds(q, a)' <=> Holds(q, a)
    BY <1>5 DEF CaseFilled, Holds, Unresolved
  <2>2. CASE a = b
    <3>1. artifact'[a].currentCase = d
      BY <1>5, <2>2 DEF CaseFilled
    <3> QED BY <1>0, <2>1, <3>1 DEF HeldRight
  <2>3. CASE a # b
    <3>1. artifact'[a] = artifact[a]
      BY <1>5, <2>3 DEF CaseFilled, OtherArtifactsStay
    <3> QED BY <1>1, <2>1, <3>1
  <2> QED BY <2>2, <2>3
<1> QED BY <1>2, <1>3, <1>4, <1>5, SlotClasses

\* Whatever the services do, an artifact that is not installed in a display
\* case names a quarantine case exactly while that case is unresolved and its
\* own.
QuarantineHeld ==
  \A q \in QuarantineId, a \in ArtifactId :
    artifact[a].currentCase \notin CaseId =>
      (artifact[a].currentCase = q <=> Unresolved(q) /\ quarantine[q].artifact = a)

THEOREM QuarantineHeldHolds == Spec => []QuarantineHeld
<1>1. HoldInv => QuarantineHeld
  BY DEF HoldInv, HeldRight, Holds, QuarantineHeld
<1> QED BY <1>1, InitTypes, TypeStep, InitHolds, HoldStep, PTL DEF Spec

\* Where nothing is exhibited, QuarantineHoldsArtifact holds, lending or not: an
\* artifact names a quarantine case exactly while that case is unresolved and its
\* own.  (With exhibition it does not: an installation makes the display case the
\* artifact's.)
THEOREM QuarantineHoldsArtifactHolds ==
  ASSUME CaseId = {}
  PROVE  Spec => []QuarantineHoldsArtifact
<1>1. QuarantineHeld => QuarantineHoldsArtifact
  BY DEF QuarantineHeld, QuarantineHoldsArtifact
<1> QED BY <1>1, QuarantineHeldHolds, PTL

-----------------------------------------------------------------------------
(* Quarantine slots that never come free.                                    *)

\* An unresolved case whose artifact is no longer in quarantine: a condition
\* report assessed it, a release or a return made it ready, or it went on display.
Lost(q) ==
  /\ Unresolved(q)
  /\ artifact[quarantine[q].artifact].status \notin {"quarantined", "treatment"}

LEMMA LostStep ==
  ASSUME TypeInv, [Next]_vars, NEW q \in QuarantineId, Lost(q)
  PROVE  Lost(q)'
<1> DEFINE a == quarantine[q].artifact
<1>0. /\ quarantine \in [QuarantineId -> QuarantineRow \cup {NoQuarantine}]
      /\ Unresolved(q) /\ a \in ArtifactId
      /\ artifact[a].status \notin {"quarantined", "treatment"}
  BY DEF TypeInv, TypeOK, ConservationTypeOK, Lost, Unresolved, QuarantineRow, NoQuarantine
<1>1. SUFFICES /\ Unresolved(q)' /\ quarantine'[q].artifact = a
               /\ artifact'[a].status \notin {"quarantined", "treatment"}
  BY DEF Lost
<1>2. CASE CasesStay
  <2>1. Unresolved(q)' /\ quarantine'[q].artifact = a
    BY <1>0, <1>2 DEF CasesStay
  <2>2. artifact'[a].status \notin {"quarantined", "treatment"}
    BY <1>0, <1>2 DEF CasesStay
  <2> QED BY <2>1, <2>2
<1>3. ASSUME NEW s \in QuarantineId, NEW b \in ArtifactId, NEW z \in ZoneId,
             SlotTaken(s, b, z)
      PROVE  /\ Unresolved(q)' /\ quarantine'[q].artifact = a
             /\ artifact'[a].status \notin {"quarantined", "treatment"}
  <2>1. q # s /\ a # b
    BY <1>0, <1>3 DEF SlotTaken, NoOpenCase
  <2>2. quarantine'[q] = quarantine[q] /\ artifact'[a] = artifact[a]
    BY <1>0, <1>3, <2>1 DEF SlotTaken, OtherArtifactsStay
  <2> QED BY <1>0, <2>2 DEF Unresolved
<1>4. ASSUME NEW s \in QuarantineId, NEW b \in ArtifactId, NEW z \in ZoneId,
             SlotFreed(s, b, z)
      PROVE  /\ Unresolved(q)' /\ quarantine'[q].artifact = a
             /\ artifact'[a].status \notin {"quarantined", "treatment"}
  <2>1. q # s /\ a # b
    BY <1>0, <1>4 DEF SlotFreed
  <2>2. quarantine'[q] = quarantine[q] /\ artifact'[a] = artifact[a]
    BY <1>0, <1>4, <2>1 DEF SlotFreed, OtherArtifactsStay
  <2> QED BY <1>0, <2>2 DEF Unresolved
<1>5. ASSUME NEW d \in CaseId, NEW b \in ArtifactId, CaseFilled(d, b)
      PROVE  /\ Unresolved(q)' /\ quarantine'[q].artifact = a
             /\ artifact'[a].status \notin {"quarantined", "treatment"}
  <2>1. quarantine' = quarantine
    BY <1>5 DEF CaseFilled
  <2>2. artifact'[a] = artifact[a] \/ artifact'[a].status = "on_display"
    BY <1>0, <1>5 DEF CaseFilled, OtherArtifactsStay
  <2> QED BY <1>0, <2>1, <2>2 DEF Unresolved
<1> QED BY <1>2, <1>3, <1>4, <1>5, SlotClasses

\* A quarantine slot can be lost for good: once the artifact of an unresolved case
\* is no longer in quarantine, as after a condition report, no call of any service
\* completes its treatment or gives the case up, in the whole application.
\* (FinishTreatment refuses it, SaveQuarantine has the unique index against it and
\* nothing writes the status treatment.)
THEOREM LostSlotStaysLost ==
  ASSUME NEW q \in QuarantineId
  PROVE  Spec => [](Lost(q) => []Lost(q))
<1>1. TypeInv /\ Lost(q) /\ [Next]_vars => Lost(q)'
  BY LostStep
<1> QED BY <1>1, InitTypes, TypeStep, PTL DEF Spec

-----------------------------------------------------------------------------
(* Releases.                                                                 *)

\* Artifact a is released on a report that clears it ...
Cleared(a) == artifact[a].lastReport = "clears"

\* ... or packed for its loan.
Packed(a) ==
  \E l \in LoanId : /\ loan[l].artifact = a
                    /\ loan[l].status = "approved" /\ loan'[l].status = "packed"

\* The status a write to artifact b gives each artifact.
LEMMA StatusAfter ==
  ASSUME TypeInv, NEW b \in ArtifactId, NEW row \in ArtifactRow, UpdateArtifact(b, row),
         NEW a \in ArtifactId
  PROVE  artifact'[a].status = IF a = b THEN row.status ELSE artifact[a].status
<1>1. /\ artifact'[b] = [row EXCEPT !.version = @ + 1]
      /\ \A d \in ArtifactId \ {b} : artifact'[d] = artifact[d]
  BY ArtifactUpdate DEF TypeInv, TypeOK
<1>2. artifact'[b].status = row.status
  BY <1>1 DEF ArtifactRow
<1> QED BY <1>1, <1>2

LEMMA ConservationReleases ==
  ASSUME SnapInv, ConservationNext, NEW a \in ArtifactId,
         artifact[a].status = "assessment", artifact'[a].status = "ready"
  PROVE  Cleared(a)
<1>0. TypeInv
  BY DEF SnapInv
<1>1. ~UNCHANGED artifact
  OBVIOUS
<1>2. ASSUME NEW b \in ArtifactId, Register(b) PROVE FALSE
  <2>1. PICK v \in Verdict : artifact' = [artifact EXCEPT ![b] =
           [NoArtifact EXCEPT !.status = "registered", !.version = 1, !.lastReport = v]]
    BY <1>2 DEF Register
  <2>2. /\ artifact'[b].status = "registered"
        /\ \A d \in ArtifactId \ {b} : artifact'[d] = artifact[d]
    BY <1>0, <2>1 DEF TypeInv, TypeOK, NoArtifact
  <2> QED BY <2>2
<1>3. ASSUME NEW c \in Caller, SaveConditionReport(c) PROVE FALSE
  <2> DEFINE row == [artifact[call[c].art] EXCEPT !.status = "assessment",
                                                  !.lastReport = call[c].arg]
  <2>1. call[c] \in CallType /\ call[c].op = "RecordCondition"
    BY <1>0, <1>3 DEF SaveConditionReport, InFlight, TypeInv, TypeOK
  <2>2. call[c].art \in ArtifactId /\ call[c].artVer \in Pos /\ call[c].arg \in Verdict
    BY <2>1, ConservationFields
  <2>3. artifact[call[c].art] \in ArtifactRow
    BY <1>3, <2>2, CommitSees DEF SaveConditionReport
  <2>4. row \in ArtifactRow /\ row.status = "assessment"
    BY <2>2, <2>3 DEF ArtifactRow, ArtifactStatus
  <2>5. UpdateArtifact(call[c].art, row)
    BY <1>3 DEF SaveConditionReport
  <2> HIDE DEF row
  <2> QED BY <1>0, <2>2, <2>4, <2>5, StatusAfter
<1>4. ASSUME NEW c \in Caller, UpdateArtifactStatus(c) PROVE Cleared(a)
  <2> DEFINE row == [artifact[call[c].art] EXCEPT !.status = "ready"]
  <2>1. call[c] \in CallType /\ call[c].op = "ReleaseAssessment"
    BY <1>0, <1>4 DEF UpdateArtifactStatus, InFlight, TypeInv, TypeOK
  <2>2. call[c].art \in ArtifactId /\ call[c].artVer \in Pos
    BY <2>1, ConservationFields
  <2>3. artifact[call[c].art] \in ArtifactRow
    BY <1>4, <2>2, CommitSees DEF UpdateArtifactStatus
  <2>4. row \in ArtifactRow
    BY <2>3 DEF ArtifactRow, ArtifactStatus
  <2>5. UpdateArtifact(call[c].art, row)
    BY <1>4 DEF UpdateArtifactStatus
  <2> HIDE DEF row
  <2>6. a = call[c].art
    BY <1>0, <2>2, <2>4, <2>5, StatusAfter
  <2>7. ArtifactSnapshot(call[c])
    BY DEF SnapInv, Snapshots
  <2>8. call[c].artVer = artifact[call[c].art].version /\ call[c].art # NoId
    BY <1>4, <2>2, CollectionAssumption DEF UpdateArtifactStatus, Current
  <2> QED BY <2>1, <2>6, <2>7, <2>8 DEF ArtifactSnapshot, Cleared
<1>5. ASSUME NEW c \in Caller, NEW q \in QuarantineId, SaveQuarantine(c, q) PROVE FALSE
  <2> DEFINE row == [artifact[call[c].art] EXCEPT !.status = "quarantined", !.currentCase = q]
  <2>1. call[c] \in CallType /\ call[c].op = "OpenQuarantine"
    BY <1>0, <1>5 DEF SaveQuarantine, InFlight, TypeInv, TypeOK
  <2>2. call[c].art \in ArtifactId /\ call[c].artVer \in Pos
    BY <2>1, ConservationFields
  <2>3. artifact[call[c].art] \in ArtifactRow
    BY <1>5, <2>2, CommitSees DEF SaveQuarantine
  <2>4. row \in ArtifactRow /\ row.status = "quarantined"
    BY <2>2, <2>3 DEF ArtifactRow, ArtifactStatus
  <2>5. UpdateArtifact(call[c].art, row)
    BY <1>5 DEF SaveQuarantine
  <2> HIDE DEF row
  <2> QED BY <1>0, <2>2, <2>4, <2>5, StatusAfter
<1>6. ASSUME NEW c \in Caller, FinishTreatment(c) PROVE FALSE
  <2> DEFINE b == quarantine[plan[call[c].row].quarantine].artifact
  <2>1. /\ b \in ArtifactId /\ artifact[b] \in ArtifactRow
        /\ artifact[b].status \in {"quarantined", "treatment"}
    BY <1>0, <1>6, CaseOfCompletion DEF TypeInv
  <2>2. UpdateArtifact(b, Treated(artifact[b]))
    BY <1>6 DEF FinishTreatment
  <2>3. Treated(artifact[b]) \in ArtifactRow
    BY <2>1 DEF Treated, ArtifactRow, ArtifactStatus
  <2> HIDE DEF b
  <2> QED BY <1>0, <2>1, <2>2, <2>3, StatusAfter
<1>7. ASSUME NEW p \in PlanId, NEW q \in QuarantineId, DraftTreatment(p, q) PROVE FALSE
  BY <1>1, <1>7 DEF DraftTreatment
<1>8. ASSUME NEW c \in Caller, NEW b \in ArtifactId,
             RecordCondition(c, b) \/ ReleaseAssessment(c, b)
      PROVE  FALSE
  BY <1>1, <1>8 DEF RecordCondition, ReleaseAssessment
<1>9. ASSUME NEW c \in Caller, NEW b \in ArtifactId, NEW z \in ZoneId, OpenQuarantine(c, b, z)
      PROVE  FALSE
  BY <1>1, <1>9 DEF OpenQuarantine
<1>10. ASSUME NEW c \in Caller, NEW p \in PlanId, NEW to \in TreatmentStatus,
              AdvanceTreatment(c, p, to)
       PROVE  FALSE
  BY <1>1, <1>10 DEF AdvanceTreatment
<1>11. ASSUME NEW c \in Caller, UpdateTreatment(c) PROVE FALSE
  BY <1>1, <1>11 DEF UpdateTreatment
<1> QED
  BY <1>2, <1>3, <1>4, <1>5, <1>6, <1>7, <1>8, <1>9, <1>10, <1>11 DEF ConservationNext

LEMMA LendingReleases ==
  ASSUME SnapInv, LendingNext, NEW a \in ArtifactId,
         artifact[a].status = "assessment", artifact'[a].status = "ready"
  PROVE  Packed(a)
<1>0. TypeInv
  BY DEF SnapInv
<1>1. ~UNCHANGED artifact
  OBVIOUS
<1>2. ASSUME NEW c \in Caller, ApproveLoanAtomically(c) PROVE FALSE
  <2> DEFINE row == [artifact[call[c].art] EXCEPT !.activeLoan = call[c].row]
  <2>1. call[c] \in CallType /\ call[c].op = "Approve"
    BY <1>0, <1>2 DEF ApproveLoanAtomically, InFlight, TypeInv, TypeOK
  <2>2. call[c].art \in ArtifactId /\ call[c].artVer \in Pos /\ call[c].row \in LoanId
    BY <2>1, LendingFields
  <2>3. artifact[call[c].art] \in ArtifactRow
    BY <1>2, <2>2, CommitSees DEF ApproveLoanAtomically
  <2>4. row \in ArtifactRow /\ row.status = artifact[call[c].art].status
    BY <2>2, <2>3 DEF ArtifactRow
  <2>5. UpdateArtifact(call[c].art, row)
    BY <1>2 DEF ApproveLoanAtomically
  <2> HIDE DEF row
  <2> QED BY <1>0, <2>2, <2>4, <2>5, StatusAfter
<1>3. ASSUME NEW c \in Caller, SaveCustody(c) PROVE Packed(a)
  <2> DEFINE l == call[c].row
             kind == call[c].arg
             row == [artifact[call[c].art] EXCEPT !.status = CustodyArtifactStatus[kind],
                                                  !.activeLoan = LoanAfter(kind, l)]
  <2>1. call[c] \in CallType /\ call[c].op = "RecordCustody"
    BY <1>0, <1>3 DEF SaveCustody, InFlight, TypeInv, TypeOK
  <2>2. call[c].art \in ArtifactId /\ call[c].artVer \in Pos /\ l \in LoanId /\ kind \in CustodyKind
    BY <2>1, LendingFields
  <2>3. artifact[call[c].art] \in ArtifactRow
    BY <1>3, <2>2, CommitSees DEF SaveCustody
  <2>4. /\ CustodyArtifactStatus[kind] \in ArtifactStatus
        /\ LoanAfter(kind, l) \in LoanId \cup {NoId}
        /\ CustodyArtifactStatus[kind] = "ready" => kind = "packed"
    BY <2>2 DEF CustodyKind, CustodyArtifactStatus, ArtifactStatus, LoanAfter
  <2>5. row \in ArtifactRow /\ row.status = CustodyArtifactStatus[kind]
    BY <2>3, <2>4 DEF ArtifactRow
  <2>6. UpdateArtifact(call[c].art, row)
    BY <1>3 DEF SaveCustody
  <2>7. /\ loan' = [loan EXCEPT ![l].status = kind, ![l].version = @ + 1]
        /\ LoanCurrent(l, call[c].rowVer)
    BY <1>3 DEF SaveCustody
  <2> HIDE DEF row
  <2>8. a = call[c].art /\ kind = "packed"
    BY <1>0, <2>2, <2>4, <2>5, <2>6, StatusAfter
  <2>9. /\ loan[l] \in LoanRow /\ loan[l].artifact = a
        /\ loan[l].status = CustodyFrom[kind]
    BY <2>1, <2>7, <2>8, LoanCommitSees
  <2>10. loan[l].status = "approved"
    BY <2>8, <2>9 DEF CustodyFrom
  <2>11. loan'[l].status = "packed"
    BY <1>0, <2>2, <2>7, <2>8, <2>9 DEF TypeInv, TypeOK, LendingTypeOK, LoanRow
  <2> QED BY <2>2, <2>9, <2>10, <2>11 DEF Packed
<1>4. ASSUME NEW c \in Caller, NEW b \in ArtifactId, CreateLoan(c, b) PROVE FALSE
  BY <1>1, <1>4 DEF CreateLoan
<1>5. ASSUME NEW c \in Caller, NEW l \in LoanId,
             InsertLoan(c, l) \/ Submit(c, l) \/ Approve(c, l)
      PROVE  FALSE
  BY <1>1, <1>5 DEF InsertLoan, Submit, Approve
<1>6. ASSUME NEW c \in Caller, NEW l \in LoanId, NEW kind \in CustodyKind,
             RecordCustody(c, l, kind)
      PROVE  FALSE
  BY <1>1, <1>6 DEF RecordCustody
<1>7. ASSUME NEW c \in Caller, CheckCommitments(c) \/ UpdateLoan(c) PROVE FALSE
  BY <1>1, <1>7 DEF CheckCommitments, UpdateLoan
<1> QED BY <1>2, <1>3, <1>4, <1>5, <1>6, <1>7 DEF LendingNext

\* An installation puts its artifact on display and no other step of exhibition
\* touches one: it releases nothing.
LEMMA ExhibitionReleases ==
  ASSUME TypeInv, ExhibitionNext, UNCHANGED conservationVars, NEW a \in ArtifactId,
         artifact'[a].status = "ready"
  PROVE  artifact[a].status = "ready"
<1>1. ASSUME UNCHANGED artifact PROVE artifact[a].status = "ready"
  BY <1>1
<1>2. ASSUME NEW c \in Caller, ActivateInstallation(c) PROVE artifact[a].status = "ready"
  <2> DEFINE row == [artifact[call[c].art] EXCEPT !.status = "on_display",
                                                  !.currentCase = call[c].row]
  <2>1. call[c] \in CallType /\ call[c].op = "Activate"
    BY <1>2 DEF ActivateInstallation, InFlight, TypeInv, TypeOK
  <2>2. call[c].art \in ArtifactId /\ call[c].artVer \in Pos /\ call[c].row \in CaseId
    BY <2>1, ExhibitionFields
  <2>3. artifact[call[c].art] \in ArtifactRow
    BY <1>2, <2>2, CurrentExists DEF ActivateInstallation, TypeInv
  <2>4. row \in ArtifactRow /\ row.status = "on_display"
    BY <2>2, <2>3 DEF ArtifactRow, ArtifactStatus
  <2>5. UpdateArtifact(call[c].art, row)
    BY <1>2 DEF ActivateInstallation
  <2> HIDE DEF row
  <2> QED BY <2>2, <2>4, <2>5, StatusAfter
<1>3. ASSUME NEW c \in Caller, ReserveCase(c) \/ ReserveDisplayCase(c) \/ UpdateIncident(c)
      PROVE  artifact[a].status = "ready"
  BY <1>1, <1>3 DEF ReserveCase, ReserveDisplayCase, UpdateIncident
<1>4. ASSUME NEW i \in IncidentId, NEW d \in CaseId, NEW w \in WindowKey, OpenIncident(i, d, w)
      PROVE  artifact[a].status = "ready"
  BY <1>1, <1>4 DEF OpenIncident
<1>5. ASSUME NEW c \in Caller, NEW b \in ArtifactId, NEW d \in CaseId, ReserveArtifact(c, b, d)
      PROVE  artifact[a].status = "ready"
  BY <1>1, <1>5 DEF ReserveArtifact
<1>6. ASSUME NEW c \in Caller, NEW b \in ArtifactId, NEW d \in CaseId, NEW complete \in BOOLEAN,
             Activate(c, b, d, complete)
      PROVE  artifact[a].status = "ready"
  BY <1>1, <1>6 DEF Activate
<1>7. ASSUME NEW c \in Caller, NEW i \in IncidentId, NEW to \in IncidentStatus,
             NEW r \in BOOLEAN, AdvanceIncident(c, i, to, r)
      PROVE  artifact[a].status = "ready"
  BY <1>1, <1>7 DEF AdvanceIncident
<1> QED BY <1>2, <1>3, <1>4, <1>5, <1>6, <1>7 DEF ExhibitionNext

LEMMA ReleaseStep ==
  SnapInv /\ [Next]_vars =>
    \A a \in ArtifactId : artifact[a].status = "assessment" /\ artifact'[a].status = "ready"
                          => Cleared(a) \/ Packed(a)
<1> SUFFICES ASSUME SnapInv, [Next]_vars, NEW a \in ArtifactId,
                    artifact[a].status = "assessment", artifact'[a].status = "ready"
             PROVE  Cleared(a) \/ Packed(a)
  OBVIOUS
<1>1. CASE UNCHANGED vars
  BY <1>1 DEF vars
<1>2. CASE Fail
  BY <1>2 DEF Fail, FailCall
<1>3. CASE ConservationNext
  BY <1>3, ConservationReleases
<1>4. CASE LendingNext
  BY <1>4, LendingReleases
<1>5. CASE ExhibitionNext /\ UNCHANGED conservationVars
  BY <1>5, ExhibitionReleases DEF SnapInv
<1> QED BY <1>1, <1>2, <1>3, <1>4, <1>5 DEF Next

\* In the whole application an artifact leaves assessment for ready on a report
\* that clears it, or because its loan is packed, which looks at no report.
ReleasedOrPacked ==
  [][\A a \in ArtifactId :
       artifact[a].status = "assessment" /\ artifact'[a].status = "ready"
       => Cleared(a) \/ Packed(a)]_artifact

THEOREM ReleasedOrPackedHolds == Spec => ReleasedOrPacked
<1>1. SnapInv /\ [Next]_vars =>
        [\A a \in ArtifactId :
           artifact[a].status = "assessment" /\ artifact'[a].status = "ready"
           => Cleared(a) \/ Packed(a)]_artifact
  BY ReleaseStep
<1> QED BY <1>1, InitSnapshots, SnapStep, PTL DEF Spec, ReleasedOrPacked

\* Where nothing is lent, an assessment is released only on a report that
\* clears the artifact, even if a worse one arrived after the release was
\* decided: the version the release carries is then out of date.
THEOREM ReleaseInspectedHolds ==
  ASSUME LoanId = {}
  PROVE  Spec => ReleaseInspected
<1>1. SnapInv /\ [Next]_vars =>
        [\A a \in ArtifactId :
           artifact[a].status = "assessment" /\ artifact'[a].status = "ready"
           => artifact[a].lastReport = "clears"]_artifact
  BY ReleaseStep DEF Cleared, Packed
<1> QED BY <1>1, InitSnapshots, SnapStep, PTL DEF Spec, ReleaseInspected

-----------------------------------------------------------------------------
(* The steps of the application, as incidents and cases see them.          *)

\* The tables of the exhibition service that these properties read.
caseVars == <<incident, displayCase, installation>>

\* No caller takes up a call of method op.
NoNew(op) == \A c \in Caller : call'[c].op = op => call'[c] = call[c]

\* The advance of an incident, and of a treatment plan.
Advances == {"AdvanceIncident", "AdvanceTreatment"}

LEMMA LoadOther ==
  ASSUME TypeInv, NEW op, NEW c \in Caller, NEW k, k.op # op,
         call' = [call EXCEPT ![c] = k]
  PROVE  NoNew(op)
BY DEF NoNew, TypeInv, TypeOK

LEMMA ReturnOther ==
  ASSUME TypeInv, NEW op \in Advances, NEW c \in Caller, Return(c)
  PROVE  NoNew(op)
<1>1. NoCall.op # op
  BY DEF NoCall, Advances
<1> QED BY <1>1, LoadOther DEF Return

LEMMA AdvanceNames == "AdvanceIncident" \in Advances /\ "AdvanceTreatment" \in Advances
BY DEF Advances

LEMMA ConservationElsewhere ==
  ASSUME TypeInv, ConservationNext
  PROVE  UNCHANGED incident /\ NoNew("AdvanceIncident")
<1> DEFINE Goal == UNCHANGED incident /\ NoNew("AdvanceIncident")
<1> SUFFICES Goal
  OBVIOUS
<1>1. ASSUME NEW a \in ArtifactId, Register(a) PROVE Goal
  BY <1>1 DEF Register, NoNew
<1>2. ASSUME NEW p \in PlanId, NEW q \in QuarantineId, DraftTreatment(p, q) PROVE Goal
  BY <1>2 DEF DraftTreatment, NoNew
<1>3. ASSUME NEW c \in Caller, NEW a \in ArtifactId, RecordCondition(c, a) PROVE Goal
  <2>1. PICK v \in Verdict : call' = [call EXCEPT ![c] =
           [NoCall EXCEPT !.op = "RecordCondition", !.art = a,
                          !.artVer = artifact[a].version, !.arg = v]]
    BY <1>3 DEF RecordCondition, Load
  <2>2. [NoCall EXCEPT !.op = "RecordCondition", !.art = a,
                       !.artVer = artifact[a].version, !.arg = v].op # "AdvanceIncident"
    BY DEF NoCall
  <2> QED BY <1>3, <2>1, <2>2, LoadOther DEF RecordCondition
<1>4. ASSUME NEW c \in Caller, NEW a \in ArtifactId, ReleaseAssessment(c, a) PROVE Goal
  <2> DEFINE k == [NoCall EXCEPT !.op = "ReleaseAssessment", !.art = a,
                                 !.artVer = artifact[a].version]
  <2>1. k.op # "AdvanceIncident"
    BY DEF NoCall
  <2>2. call' = [call EXCEPT ![c] = k] /\ UNCHANGED incident
    BY <1>4 DEF ReleaseAssessment, Load
  <2> QED BY <2>1, <2>2, LoadOther
<1>5. ASSUME NEW c \in Caller, NEW a \in ArtifactId, NEW z \in ZoneId, OpenQuarantine(c, a, z)
      PROVE  Goal
  <2> DEFINE k == [NoCall EXCEPT !.op = "OpenQuarantine", !.art = a,
                                 !.artVer = artifact[a].version, !.arg = z]
  <2>1. k.op # "AdvanceIncident"
    BY DEF NoCall
  <2>2. call' = [call EXCEPT ![c] = k] /\ UNCHANGED incident
    BY <1>5 DEF OpenQuarantine, Load
  <2> QED BY <2>1, <2>2, LoadOther
<1>6. ASSUME NEW c \in Caller, NEW p \in PlanId, NEW to \in TreatmentStatus,
             AdvanceTreatment(c, p, to)
      PROVE  Goal
  <2> DEFINE k == [NoCall EXCEPT !.op = "AdvanceTreatment", !.row = p,
                                 !.rowVer = plan[p].version, !.arg = to]
  <2>1. k.op # "AdvanceIncident"
    BY DEF NoCall
  <2>2. call' = [call EXCEPT ![c] = k] /\ UNCHANGED incident
    BY <1>6 DEF AdvanceTreatment, Load
  <2> QED BY <2>1, <2>2, LoadOther
<1>7. ASSUME NEW c \in Caller, NEW q \in QuarantineId, SaveQuarantine(c, q) PROVE Goal
  BY <1>7, ReturnOther, AdvanceNames DEF SaveQuarantine
<1>8. ASSUME NEW c \in Caller,
             \/ SaveConditionReport(c) \/ UpdateArtifactStatus(c)
             \/ UpdateTreatment(c) \/ FinishTreatment(c)
      PROVE  Goal
  BY <1>8, ReturnOther, AdvanceNames
  DEF SaveConditionReport, UpdateArtifactStatus, UpdateTreatment, FinishTreatment, UpdatePlan
<1> HIDE DEF Goal
<1> QED BY <1>1, <1>2, <1>3, <1>4, <1>5, <1>6, <1>7, <1>8 DEF ConservationNext

LEMMA LendingElsewhere ==
  ASSUME TypeInv, LendingNext, NEW op \in Advances
  PROVE  UNCHANGED incident /\ NoNew(op)
<1> DEFINE Goal == UNCHANGED incident /\ NoNew(op)
<1> SUFFICES Goal
  OBVIOUS
<1>1. ASSUME NEW c \in Caller, NEW a \in ArtifactId, CreateLoan(c, a) PROVE Goal
  <2>1. PICK p \in Period : call' = [call EXCEPT ![c] =
           [NoCall EXCEPT !.op = "CreateLoan", !.art = a, !.arg = p]]
    BY <1>1 DEF CreateLoan, Load
  <2>2. [NoCall EXCEPT !.op = "CreateLoan", !.art = a, !.arg = p].op # op
    BY DEF NoCall, Advances
  <2> QED BY <1>1, <2>1, <2>2, LoadOther DEF CreateLoan
<1>2. ASSUME NEW c \in Caller, NEW l \in LoanId, Submit(c, l) PROVE Goal
  <2> DEFINE k == [NoCall EXCEPT !.op = "Submit", !.row = l, !.rowVer = loan[l].version]
  <2>1. k.op # op
    BY DEF NoCall, Advances
  <2>2. call' = [call EXCEPT ![c] = k] /\ UNCHANGED incident
    BY <1>2 DEF Submit, Load
  <2> QED BY <2>1, <2>2, LoadOther
<1>3. ASSUME NEW c \in Caller, NEW l \in LoanId, Approve(c, l) PROVE Goal
  <2> DEFINE k == [NoCall EXCEPT !.op = "Approve", !.art = loan[l].artifact, !.row = l,
                     !.artVer = artifact[loan[l].artifact].version,
                     !.rowVer = loan[l].version]
  <2>1. k.op # op
    BY DEF NoCall, Advances
  <2>2. call' = [call EXCEPT ![c] = k] /\ UNCHANGED incident
    BY <1>3 DEF Approve, Load
  <2> QED BY <2>1, <2>2, LoadOther
<1>4. ASSUME NEW c \in Caller, NEW l \in LoanId, NEW kind \in CustodyKind,
             RecordCustody(c, l, kind)
      PROVE  Goal
  <2> DEFINE k == [NoCall EXCEPT !.op = "RecordCustody", !.art = loan[l].artifact, !.row = l,
                     !.artVer = artifact[loan[l].artifact].version,
                     !.rowVer = loan[l].version, !.arg = kind]
  <2>1. k.op # op
    BY DEF NoCall, Advances
  <2>2. call' = [call EXCEPT ![c] = k] /\ UNCHANGED incident
    BY <1>4 DEF RecordCustody, Load
  <2> QED BY <2>1, <2>2, LoadOther
<1>5. ASSUME NEW c \in Caller, CheckCommitments(c) PROVE Goal
  <2>1. call[c] \in CallType /\ call[c].op = "CreateLoan"
    BY <1>5 DEF CheckCommitments, InFlight, TypeInv, TypeOK
  <2> DEFINE k == [call[c] EXCEPT !.op = "InsertLoan"]
  <2>2. k.op = "InsertLoan"
    BY <2>1, LendingFields, CallService DEF LendingCalls, Calls
  <2>4. k.op # op
    BY <2>2 DEF Advances
  <2>3. call' = [call EXCEPT ![c] = k] /\ UNCHANGED incident
    BY <1>5 DEF CheckCommitments
  <2> QED BY <2>3, <2>4, LoadOther
<1>6. ASSUME NEW c \in Caller, NEW l \in LoanId, InsertLoan(c, l) PROVE Goal
  BY <1>6, ReturnOther DEF InsertLoan
<1>7. ASSUME NEW c \in Caller, UpdateLoan(c) \/ ApproveLoanAtomically(c) \/ SaveCustody(c)
      PROVE  Goal
  BY <1>7, ReturnOther DEF UpdateLoan, ApproveLoanAtomically, SaveCustody
<1> HIDE DEF Goal
<1> QED BY <1>1, <1>2, <1>3, <1>4, <1>5, <1>6, <1>7 DEF LendingNext

\* The steps that matter to incidents and cases: an incident is opened ...
Opened(i) ==
  /\ incident[i] = NoIncident
  /\ incident'[i] \in IncidentRow
  /\ incident'[i].status = "open"
  /\ \A j \in IncidentId \ {i} : incident'[j] = incident[j]
  /\ UNCHANGED <<displayCase, installation>>

\* ... or advanced along a transition, with its case following it; ...
Advanced(i, to) ==
  /\ incident[i] \in IncidentRow
  /\ <<incident[i].status, to>> \in IncidentTransitions
  /\ incident'[i] \in IncidentRow
  /\ incident'[i].status = to
  /\ incident'[i].version = incident[i].version + 1
  /\ incident'[i].case = incident[i].case
  /\ \A j \in IncidentId \ {i} : incident'[j] = incident[j]
  /\ LET d == incident[i].case IN
       \/ displayCase[d].status \notin {"active", "incident"} /\ UNCHANGED displayCase
       \/ /\ displayCase[d].status \in {"active", "incident"}
          /\ displayCase'[d].status = CaseAfter(to)
          /\ displayCase'[d].artifact = displayCase[d].artifact
          /\ \A e \in CaseId \ {d} : displayCase'[e] = displayCase[e]
  /\ UNCHANGED installation

\* ... a case is reserved for an artifact, ...
Reserved(d, a) ==
  /\ displayCase[d].status = "available"
  /\ displayCase'[d].status = "reserved" /\ displayCase'[d].artifact = a
  /\ \A e \in CaseId \ {d} : displayCase'[e] = displayCase[e]
  /\ UNCHANGED <<incident, installation>>

\* The installation row of artifact a in case d, its checklist complete.
Shown(d, a) == [artifact |-> a, case |-> d, complete |-> TRUE] \in installation

\* ... or the artifact it is reserved for is installed in it.
Installed(d, a) ==
  /\ displayCase[d].status = "reserved" /\ displayCase[d].artifact = a
  /\ displayCase'[d].status = "active" /\ displayCase'[d].artifact = a
  /\ \A e \in CaseId \ {d} : displayCase'[e] = displayCase[e]
  /\ installation' = installation \cup {[artifact |-> a, case |-> d, complete |-> TRUE]}
  /\ UNCHANGED incident

\* A call that advances an incident saw a status it may advance from, and its
\* version is the row's only while the row still has that status.
IncidentSnapshot(k) ==
  k.op = "AdvanceIncident" =>
    /\ k.rowVer <= incident[k.row].version
    /\ k.rowVer = incident[k.row].version =>
         <<incident[k.row].status, k.arg>> \in IncidentTransitions

IncidentSnapshots == \A c \in Caller : IncidentSnapshot(call[c])

\* Every step of the application, as incidents and cases see it.
CaseStep ==
  \/ UNCHANGED caseVars
  \/ \E i \in IncidentId : Opened(i)
  \/ \E i \in IncidentId, to \in IncidentStatus : Advanced(i, to)
  \/ \E d \in CaseId, a \in ArtifactId : Reserved(d, a) \/ Installed(d, a)

\* Every call is left alone or ended, or takes up an advance from incidents
\* that the step leaves alone.
CallsStep ==
  \A c \in Caller : call'[c].op = "AdvanceIncident" =>
    \/ call'[c] = call[c]
    \/ UNCHANGED incident /\ IncidentSnapshot(call'[c])

LEMMA AdvanceStep ==
  ASSUME TypeInv, IncidentSnapshots, NEW c \in Caller, UpdateIncident(c)
  PROVE  \E i \in IncidentId, to \in IncidentStatus : Advanced(i, to)
<1> DEFINE k == call[c]
           d == incident[k.row].case
<1>1. k \in CallType /\ k.op = "AdvanceIncident"
  BY DEF UpdateIncident, InFlight, TypeInv, TypeOK
<1>2. k.row \in IncidentId /\ k.rowVer \in Pos /\ k.arg \in IncidentStatus /\ k.flag \in BOOLEAN
  BY <1>1, ExhibitionFields
<1>3. incident[k.row].version = k.rowVer
  BY DEF UpdateIncident, IncidentCurrent
<1>4. <<incident[k.row].status, k.arg>> \in IncidentTransitions
  BY <1>1, <1>3 DEF IncidentSnapshots, IncidentSnapshot
<1>5. incident \in [IncidentId -> IncidentRow \cup {NoIncident}]
  BY DEF TypeInv, TypeOK
<1>6. incident[k.row] \in IncidentRow
  <2>1. NoIncident.version = 0
    BY DEF NoIncident
  <2>2. incident[k.row] # NoIncident
    BY <1>2, <1>3, <2>1, PosFacts
  <2> QED BY <1>2, <1>5, <2>2
<1>7. incident' = [incident EXCEPT ![k.row].status = k.arg, ![k.row].remediated = k.flag,
                                   ![k.row].version = @ + 1]
  BY DEF UpdateIncident
<1>8. displayCase' =
       IF displayCase[d].status \in {"active", "incident"}
       THEN [displayCase EXCEPT ![d].status = CaseAfter(k.arg), ![d].version = @ + 1]
       ELSE displayCase
  BY DEF UpdateIncident
<1>9. UNCHANGED installation
  BY DEF UpdateIncident
<1>10. d \in CaseId
  BY <1>6 DEF IncidentRow
<1>11. displayCase \in [CaseId -> CaseRow]
  BY DEF TypeInv, TypeOK, ExhibitionTypeOK
<1> HIDE DEF k
<1>12. /\ incident'[k.row] \in IncidentRow
       /\ incident'[k.row].status = k.arg
       /\ incident'[k.row].version = incident[k.row].version + 1
       /\ incident'[k.row].case = incident[k.row].case
       /\ \A j \in IncidentId \ {k.row} : incident'[j] = incident[j]
  BY <1>2, <1>5, <1>6, <1>7, PosFacts DEF IncidentRow
<1>13. \/ displayCase[d].status \notin {"active", "incident"} /\ UNCHANGED displayCase
       \/ /\ displayCase[d].status \in {"active", "incident"}
          /\ displayCase'[d].status = CaseAfter(k.arg)
          /\ displayCase'[d].artifact = displayCase[d].artifact
          /\ \A e \in CaseId \ {d} : displayCase'[e] = displayCase[e]
  <2>1. CASE displayCase[d].status \in {"active", "incident"}
    BY <1>8, <1>10, <1>11, <2>1 DEF CaseRow
  <2>2. CASE displayCase[d].status \notin {"active", "incident"}
    BY <1>8, <2>2
  <2> QED BY <2>1, <2>2
<1>14. Advanced(k.row, k.arg)
  BY <1>4, <1>6, <1>9, <1>12, <1>13 DEF Advanced
<1> QED BY <1>2, <1>14

LEMMA OpenStep ==
  ASSUME TypeInv, NEW i \in IncidentId, NEW d \in CaseId, NEW w \in WindowKey,
         OpenIncident(i, d, w)
  PROVE  Opened(i)
<1> DEFINE row == [NoIncident EXCEPT !.status = "open", !.version = 1, !.case = d, !.window = w]
<1>1. row \in IncidentRow /\ row.status = "open"
  BY PosFacts DEF NoIncident, IncidentRow, IncidentStatus
<1>2. incident' = [incident EXCEPT ![i] = row]
  BY DEF OpenIncident
<1>3. incident[i] = NoIncident /\ UNCHANGED <<displayCase, installation>>
  BY DEF OpenIncident
<1> HIDE DEF row
<1>4. incident'[i] = row /\ \A j \in IncidentId \ {i} : incident'[j] = incident[j]
  BY <1>2 DEF TypeInv, TypeOK
<1> QED BY <1>1, <1>3, <1>4 DEF Opened

LEMMA ReserveStep ==
  ASSUME TypeInv, NEW c \in Caller, ReserveDisplayCase(c)
  PROVE  \E d \in CaseId, a \in ArtifactId : Reserved(d, a)
<1> DEFINE k == call[c]
<1>1. k \in CallType /\ k.op = "ReserveDisplayCase"
  BY DEF ReserveDisplayCase, InFlight, TypeInv, TypeOK
<1>2. k.art \in ArtifactId /\ k.row \in CaseId
  BY <1>1, ExhibitionFields
<1>3. /\ displayCase[k.row].status = "available"
      /\ displayCase' = [displayCase EXCEPT ![k.row] =
           [status |-> "reserved", version |-> @.version + 1, artifact |-> k.art]]
      /\ UNCHANGED <<incident, installation>>
  BY DEF ReserveDisplayCase
<1> HIDE DEF k
<1>4. /\ displayCase'[k.row].status = "reserved" /\ displayCase'[k.row].artifact = k.art
      /\ \A e \in CaseId \ {k.row} : displayCase'[e] = displayCase[e]
  BY <1>2, <1>3 DEF TypeInv, TypeOK, ExhibitionTypeOK
<1>5. Reserved(k.row, k.art)
  BY <1>3, <1>4 DEF Reserved
<1> QED BY <1>2, <1>5

LEMMA InstallStep ==
  ASSUME TypeInv, NEW c \in Caller, ActivateInstallation(c)
  PROVE  \E d \in CaseId, a \in ArtifactId : Installed(d, a)
<1> DEFINE k == call[c]
<1>1. k \in CallType /\ k.op = "Activate"
  BY DEF ActivateInstallation, InFlight, TypeInv, TypeOK
<1>2. k.art \in ArtifactId /\ k.row \in CaseId /\ k.flag \in BOOLEAN
  BY <1>1, ExhibitionFields
<1>3. /\ displayCase[k.row].status = "reserved" /\ displayCase[k.row].artifact = k.art
      /\ displayCase' = [displayCase EXCEPT ![k.row].status = "active",
                                            ![k.row].version = @ + 1]
      /\ installation' = installation \cup
           {[artifact |-> k.art, case |-> k.row, complete |-> k.flag]}
      /\ UNCHANGED incident
  BY DEF ActivateInstallation
<1>4. k.flag = TRUE
  BY <1>2 DEF ActivateInstallation, Complete
<1> HIDE DEF k
<1>5. displayCase \in [CaseId -> CaseRow]
  BY DEF TypeInv, TypeOK, ExhibitionTypeOK
<1>6. /\ displayCase'[k.row].status = "active"
      /\ displayCase'[k.row].artifact = displayCase[k.row].artifact
      /\ \A e \in CaseId \ {k.row} : displayCase'[e] = displayCase[e]
  BY <1>2, <1>3, <1>5 DEF CaseRow
<1>7. Installed(k.row, k.art)
  BY <1>3, <1>4, <1>6 DEF Installed
<1> QED BY <1>2, <1>7

LEMMA ExhibitionSteps ==
  ASSUME TypeInv, IncidentSnapshots, ExhibitionNext
  PROVE  CaseStep /\ CallsStep
<1> DEFINE Goal == CaseStep /\ CallsStep
<1> SUFFICES Goal
  OBVIOUS
<1>0. NoNew("AdvanceIncident") => CallsStep
  BY DEF NoNew, CallsStep
<1>1. ASSUME NEW i \in IncidentId, NEW d \in CaseId, NEW w \in WindowKey, OpenIncident(i, d, w)
      PROVE  Goal
  <2>1. UNCHANGED call
    BY <1>1 DEF OpenIncident
  <2> QED BY <1>1, <2>1, OpenStep DEF CaseStep, CallsStep
<1>2. ASSUME NEW c \in Caller, NEW a \in ArtifactId, NEW d \in CaseId, ReserveArtifact(c, a, d)
      PROVE  Goal
  <2> DEFINE k == [NoCall EXCEPT !.op = "Reserve", !.art = a, !.row = d]
  <2>1. k.op # "AdvanceIncident"
    BY DEF NoCall
  <2>2. call' = [call EXCEPT ![c] = k] /\ UNCHANGED caseVars
    BY <1>2 DEF ReserveArtifact, Load, exhibitionVars, caseVars
  <2> QED BY <1>0, <2>1, <2>2, LoadOther DEF CaseStep
<1>3. ASSUME NEW c \in Caller, NEW a \in ArtifactId, NEW d \in CaseId, NEW complete \in BOOLEAN,
             Activate(c, a, d, complete)
      PROVE  Goal
  <2> DEFINE k == [NoCall EXCEPT !.op = "Activate", !.art = a, !.row = d, !.flag = complete,
                     !.artVer = artifact[a].version, !.rowVer = displayCase[d].version]
  <2>1. k.op # "AdvanceIncident"
    BY DEF NoCall
  <2>2. call' = [call EXCEPT ![c] = k] /\ UNCHANGED caseVars
    BY <1>3 DEF Activate, Load, exhibitionVars, caseVars
  <2> QED BY <1>0, <2>1, <2>2, LoadOther DEF CaseStep
<1>4. ASSUME NEW c \in Caller, ReserveCase(c) PROVE Goal
  <2> DEFINE k == [call[c] EXCEPT !.op = "ReserveDisplayCase",
                                  !.rowVer = displayCase[call[c].row].version]
  <2>1. call[c] \in CallType /\ call[c].op = "Reserve"
    BY <1>4 DEF ReserveCase, InFlight, TypeInv, TypeOK
  <2>2. k.op = "ReserveDisplayCase"
    BY <2>1, ExhibitionFields, CallService DEF ExhibitionCalls, Calls
  <2>3. call' = [call EXCEPT ![c] = k] /\ UNCHANGED caseVars
    BY <1>4 DEF ReserveCase, exhibitionVars, caseVars
  <2> QED BY <1>0, <2>2, <2>3, LoadOther DEF CaseStep
<1>5. ASSUME NEW c \in Caller, NEW i \in IncidentId, NEW to \in IncidentStatus,
             NEW r \in BOOLEAN, AdvanceIncident(c, i, to, r)
      PROVE  Goal
  <2> DEFINE k == [NoCall EXCEPT !.op = "AdvanceIncident", !.row = i, !.arg = to,
                     !.rowVer = incident[i].version, !.flag = r]
  <2>1. k.row = i /\ k.arg = to /\ k.rowVer = incident[i].version
    BY DEF NoCall
  <2>2. call' = [call EXCEPT ![c] = k] /\ UNCHANGED caseVars
    BY <1>5 DEF AdvanceIncident, Load, exhibitionVars, caseVars
  <2>3. <<incident[i].status, to>> \in IncidentTransitions
    BY <1>5 DEF AdvanceIncident, IncidentCanTransition
  <2>4. incident[i].version \in Nat
    <3>1. NoIncident.version = 0
      BY DEF NoIncident
    <3>2. \A row \in IncidentRow : row.version \in Nat
      BY PosFacts DEF IncidentRow
    <3> QED BY <3>1, <3>2 DEF TypeInv, TypeOK
  <2> HIDE DEF k
  <2>5. IncidentSnapshot(k)
    BY <2>1, <2>3, <2>4 DEF IncidentSnapshot
  <2>6. \A b \in Caller : call'[b] = call[b] \/ call'[b] = k
    BY <2>2 DEF TypeInv, TypeOK
  <2> QED BY <2>2, <2>5, <2>6 DEF CaseStep, CallsStep, caseVars
<1>6. ASSUME NEW c \in Caller, ReserveDisplayCase(c) PROVE Goal
  <2>1. Return(c)
    BY <1>6 DEF ReserveDisplayCase
  <2> QED BY <1>0, <1>6, <2>1, ReserveStep, ReturnOther, AdvanceNames DEF CaseStep
<1>7. ASSUME NEW c \in Caller, ActivateInstallation(c) PROVE Goal
  <2>1. Return(c)
    BY <1>7 DEF ActivateInstallation
  <2> QED BY <1>0, <1>7, <2>1, InstallStep, ReturnOther, AdvanceNames DEF CaseStep
<1>8. ASSUME NEW c \in Caller, UpdateIncident(c) PROVE Goal
  <2>1. Return(c)
    BY <1>8 DEF UpdateIncident
  <2> QED BY <1>0, <1>8, <2>1, AdvanceStep, ReturnOther, AdvanceNames DEF CaseStep
<1> HIDE DEF Goal
<1> QED BY <1>1, <1>2, <1>3, <1>4, <1>5, <1>6, <1>7, <1>8 DEF ExhibitionNext

LEMMA CaseSteps ==
  ASSUME TypeInv, IncidentSnapshots, [Next]_vars
  PROVE  CaseStep /\ CallsStep
<1>0. NoNew("AdvanceIncident") => CallsStep
  BY DEF NoNew, CallsStep
<1>1. CASE UNCHANGED vars
  BY <1>1 DEF vars, exhibitionVars, caseVars, CaseStep, CallsStep
<1>2. CASE Fail
  <2>1. PICK c \in Caller : Return(c) /\ UNCHANGED incident
    BY <1>2 DEF Fail, FailCall
  <2>2. UNCHANGED caseVars
    BY <1>2, <2>1 DEF Fail, exhibitionVars, caseVars
  <2> QED BY <1>0, <2>1, <2>2, ReturnOther, AdvanceNames DEF CaseStep
<1>3. CASE ConservationNext /\ UNCHANGED exhibitionVars
  BY <1>0, <1>3, ConservationElsewhere DEF exhibitionVars, caseVars, CaseStep
<1>4. CASE LendingNext /\ UNCHANGED exhibitionVars
  BY <1>0, <1>4, LendingElsewhere, AdvanceNames DEF exhibitionVars, caseVars, CaseStep
<1>5. CASE ExhibitionNext
  BY <1>5, ExhibitionSteps
<1> QED BY <1>1, <1>2, <1>3, <1>4, <1>5 DEF Next

-----------------------------------------------------------------------------
(* Closed incidents.                                                       *)

LEMMA InitAdvances == Init => IncidentSnapshots
BY DEF Init, CollectionInit, IncidentSnapshots, IncidentSnapshot, NoCall

LEMMA IncidentSnapshotStep ==
  TypeInv /\ IncidentSnapshots /\ [Next]_vars => IncidentSnapshots'
<1> SUFFICES ASSUME TypeInv, IncidentSnapshots, [Next]_vars, NEW c \in Caller,
                    call'[c].op = "AdvanceIncident"
             PROVE  /\ call'[c].rowVer <= incident'[call'[c].row].version
                    /\ call'[c].rowVer = incident'[call'[c].row].version =>
                         <<incident'[call'[c].row].status, call'[c].arg>> \in IncidentTransitions
  BY DEF IncidentSnapshots, IncidentSnapshot
<1>1. CaseStep /\ CallsStep
  BY CaseSteps
<1>2. CASE UNCHANGED incident
  BY <1>1, <1>2 DEF CallsStep, IncidentSnapshots, IncidentSnapshot
<1>3. CASE ~UNCHANGED incident
  <2>1. call'[c] = call[c]
    BY <1>1, <1>3 DEF CallsStep
  <2>2. call[c] \in CallType /\ call[c].op = "AdvanceIncident"
    BY <2>1 DEF TypeInv, TypeOK
  <2>3. call[c].row \in IncidentId /\ call[c].rowVer \in Nat /\ call[c].rowVer # 0
    BY <2>2, ExhibitionFields, PosFacts
  <2>4. /\ call[c].rowVer <= incident[call[c].row].version
        /\ call[c].rowVer = incident[call[c].row].version =>
             <<incident[call[c].row].status, call[c].arg>> \in IncidentTransitions
    BY <2>2 DEF IncidentSnapshots, IncidentSnapshot
  <2>5. ASSUME NEW i \in IncidentId, Opened(i) PROVE incident'[call[c].row] = incident[call[c].row]
    <3>1. NoIncident.version = 0
      BY DEF NoIncident
    <3>2. incident[call[c].row] # NoIncident
      BY <2>3, <2>4, <3>1
    <3> QED BY <2>3, <2>5, <3>2 DEF Opened
  <2>6. ASSUME NEW i \in IncidentId, NEW to \in IncidentStatus, Advanced(i, to)
        PROVE  \/ incident'[call[c].row] = incident[call[c].row]
               \/ call[c].rowVer < incident'[call[c].row].version
    <3>1. CASE call[c].row # i
      BY <2>3, <2>6, <3>1 DEF Advanced
    <3>2. CASE call[c].row = i
      <4>1. incident[i].version \in Nat
        BY <2>6, PosFacts DEF Advanced, IncidentRow
      <4> QED BY <2>3, <2>4, <2>6, <3>2, <4>1 DEF Advanced
    <3> QED BY <3>1, <3>2
  <2>7. \/ incident'[call[c].row] = incident[call[c].row]
        \/ call[c].rowVer < incident'[call[c].row].version
           /\ incident'[call[c].row].version \in Nat
    <3>1. CASE \E i \in IncidentId, to \in IncidentStatus : Advanced(i, to)
      <4>1. PICK i \in IncidentId, to \in IncidentStatus : Advanced(i, to)
        BY <3>1
      <4>2. incident'[i].version \in Nat
        BY <4>1, PosFacts DEF Advanced, IncidentRow
      <4> QED BY <2>3, <2>6, <4>1, <4>2 DEF Advanced
    <3> QED BY <1>1, <1>3, <2>5, <3>1 DEF CaseStep, Reserved, Installed, caseVars
  <2> QED BY <2>1, <2>3, <2>4, <2>7
<1> QED BY <1>2, <1>3

LEMMA ClosedStep ==
  TypeInv /\ IncidentSnapshots /\ [Next]_vars =>
    \A i \in IncidentId : incident[i].status = "closed" => incident'[i] = incident[i]
<1> SUFFICES ASSUME TypeInv, IncidentSnapshots, [Next]_vars,
                    NEW i \in IncidentId, incident[i].status = "closed"
             PROVE  incident'[i] = incident[i]
  OBVIOUS
<1>1. CaseStep
  BY CaseSteps
<1>2. ASSUME NEW j \in IncidentId, Opened(j) PROVE incident'[i] = incident[i]
  <2>1. NoIncident.status # "closed"
    BY DEF NoIncident
  <2> QED BY <1>2, <2>1 DEF Opened
<1>3. ASSUME NEW j \in IncidentId, NEW to \in IncidentStatus, Advanced(j, to)
      PROVE  incident'[i] = incident[i]
  <2>1. incident[j].status # "closed"
    BY <1>3 DEF Advanced, IncidentTransitions
  <2> QED BY <1>3, <2>1 DEF Advanced
<1> QED BY <1>1, <1>2, <1>3 DEF CaseStep, Reserved, Installed, caseVars

\* A closed incident stays as it is: a call that saw it in monitoring and
\* writes after the one that closed it finds the version moved.
THEOREM ClosedIsFinalHolds == Spec => ClosedIsFinal
<1>1. TypeInv /\ IncidentSnapshots /\ [Next]_vars =>
        [\A i \in IncidentId :
           incident[i].status = "closed" => incident'[i] = incident[i]]_incident
  BY ClosedStep
<1> QED
  BY <1>1, InitTypes, TypeStep, InitAdvances, IncidentSnapshotStep, PTL DEF Spec, ClosedIsFinal

-----------------------------------------------------------------------------
(* Cases in incident.                                                      *)

LEMMA InitJustified == Init => IncidentJustified
BY DEF Init, ExhibitionInit, IncidentJustified

LEMMA JustifiedStep ==
  TypeInv /\ IncidentSnapshots /\ IncidentJustified /\ [Next]_vars => IncidentJustified'
<1> SUFFICES ASSUME TypeInv, IncidentSnapshots, IncidentJustified, [Next]_vars,
                    NEW d \in CaseId, displayCase'[d].status = "incident"
             PROVE  \E i \in IncidentId : /\ incident'[i].case = d
                                          /\ incident'[i].status \in {"responding", "monitoring"}
  BY DEF IncidentJustified
<1>1. CaseStep
  BY CaseSteps
<1>2. ASSUME displayCase[d].status = "incident"
      PROVE  \E i \in IncidentId : /\ incident[i].case = d
                                   /\ incident[i].status \in {"responding", "monitoring"}
  BY <1>2 DEF IncidentJustified
<1>3. CASE UNCHANGED caseVars
  BY <1>2, <1>3 DEF caseVars
<1>4. ASSUME NEW i \in IncidentId, Opened(i)
      PROVE  \E j \in IncidentId : /\ incident'[j].case = d
                                   /\ incident'[j].status \in {"responding", "monitoring"}
  <2>1. PICK j \in IncidentId : /\ incident[j].case = d
                                /\ incident[j].status \in {"responding", "monitoring"}
    BY <1>2, <1>4 DEF Opened
  <2>2. NoIncident.status = "absent"
    BY DEF NoIncident
  <2>3. incident'[j] = incident[j]
    BY <1>4, <2>1, <2>2 DEF Opened
  <2> QED BY <2>1, <2>3
<1>5. ASSUME NEW i \in IncidentId, NEW to \in IncidentStatus, Advanced(i, to)
      PROVE  \E j \in IncidentId : /\ incident'[j].case = d
                                   /\ incident'[j].status \in {"responding", "monitoring"}
  <2>1. CASE incident[i].case = d
    <3>1. displayCase[d].status \in {"active", "incident"} => displayCase'[d].status = CaseAfter(to)
      BY <1>5, <2>1 DEF Advanced
    <3>2. displayCase[d].status \notin {"active", "incident"} =>
            displayCase'[d].status = displayCase[d].status
      BY <1>5, <2>1 DEF Advanced
    <3>3. to # "closed"
      BY <3>1, <3>2 DEF CaseAfter
    <3>4. to \in {"responding", "monitoring"}
      BY <1>5, <3>3 DEF Advanced, IncidentTransitions
    <3> QED BY <1>5, <2>1, <3>4 DEF Advanced
  <2>2. CASE incident[i].case # d
    <3>1. displayCase'[d] = displayCase[d]
      BY <1>5, <2>2 DEF Advanced
    <3>2. PICK j \in IncidentId : /\ incident[j].case = d
                                  /\ incident[j].status \in {"responding", "monitoring"}
      BY <1>2, <3>1
    <3>3. incident'[j] = incident[j]
      BY <1>5, <2>2, <3>2 DEF Advanced
    <3> QED BY <3>2, <3>3
  <2> QED BY <2>1, <2>2
<1>6. ASSUME NEW e \in CaseId, NEW a \in ArtifactId, Reserved(e, a) \/ Installed(e, a)
      PROVE  \E j \in IncidentId : /\ incident'[j].case = d
                                   /\ incident'[j].status \in {"responding", "monitoring"}
  <2>1. displayCase'[d] = displayCase[d] /\ UNCHANGED incident
    BY <1>6 DEF Reserved, Installed
  <2> QED BY <1>2, <2>1
<1> QED BY <1>1, <1>3, <1>4, <1>5, <1>6 DEF CaseStep

\* A case is in incident only while an incident of its own is being handled.
THEOREM IncidentJustifiedHolds == Spec => []IncidentJustified
BY InitTypes, TypeStep, InitAdvances, IncidentSnapshotStep, InitJustified, JustifiedStep,
   PTL DEF Spec

-----------------------------------------------------------------------------
(* What a case shows.                                                      *)

\* With CaseBinding: an artifact is shown only in the case that is its own.
\* It is what tells an available case apart from one shown before.
CaseInv ==
  /\ CaseBinding
  /\ \A d \in CaseId, a \in ArtifactId : Shown(d, a) => displayCase[d].artifact = a

LEMMA ShownFacts ==
  ASSUME TypeInv, NEW d \in CaseId
  PROVE  /\ ~Shown(d, NoId)
         /\ displayCase[d].artifact \in ArtifactId \cup {NoId}
<1>1. NoId \notin ArtifactId
  BY CollectionAssumption
<1>2. installation \subseteq [artifact : ArtifactId, case : CaseId, complete : BOOLEAN]
  BY DEF TypeInv, TypeOK, ExhibitionTypeOK
<1>3. displayCase[d].artifact \in ArtifactId \cup {NoId}
  BY DEF TypeInv, TypeOK, ExhibitionTypeOK, CaseRow
<1> QED BY <1>1, <1>2, <1>3 DEF Shown

\* CaseBinding for one case, the artifact of the case named a.
CaseBound(d, a) ==
  displayCase[d].artifact = a =>
    /\ displayCase[d].status = "available" <=> a = NoId
    /\ displayCase[d].status \in {"active", "incident"} <=> Shown(d, a)

LEMMA BindingByCase ==
  ASSUME TypeInv
  PROVE  CaseBinding <=> \A d \in CaseId, a \in ArtifactId \cup {NoId} : CaseBound(d, a)
BY ShownFacts DEF CaseBinding, CaseBound, Shown

LEMMA InitCases == Init => CaseInv
<1> SUFFICES ASSUME Init PROVE CaseInv
  OBVIOUS
<1>1. \A d \in CaseId : displayCase[d].status = "available" /\ displayCase[d].artifact = NoId
  BY DEF Init, ExhibitionInit
<1>2. installation = {}
  BY DEF Init, ExhibitionInit
<1> QED BY <1>1, <1>2 DEF CaseInv, CaseBinding, Shown

LEMMA CaseInvStep == TypeInv /\ TypeInv' /\ IncidentSnapshots /\ CaseInv /\ [Next]_vars => CaseInv'
<1> SUFFICES ASSUME TypeInv, TypeInv', IncidentSnapshots, CaseInv, [Next]_vars
             PROVE  CaseInv'
  OBVIOUS
<1>1. CaseStep
  BY CaseSteps
<1>2. \A d \in CaseId, a \in ArtifactId \cup {NoId} : CaseBound(d, a)
  BY BindingByCase DEF CaseInv
<1>3. \A d \in CaseId, a \in ArtifactId : Shown(d, a) => displayCase[d].artifact = a
  BY DEF CaseInv
<1>4. SUFFICES ASSUME NEW d \in CaseId
               PROVE  /\ \A a \in ArtifactId \cup {NoId} : CaseBound(d, a)'
                      /\ \A a \in ArtifactId : Shown(d, a)' => displayCase'[d].artifact = a
  <2>1. \A d \in CaseId, a \in ArtifactId \cup {NoId} : CaseBound(d, a)'
    BY <1>4
  <2>2. \A d \in CaseId : displayCase'[d].artifact \in ArtifactId \cup {NoId}
    BY DEF TypeInv, TypeOK, ExhibitionTypeOK, CaseRow
  <2>3. CaseBinding'
    BY <2>1, <2>2 DEF CaseBinding, CaseBound, Shown
  <2> QED BY <1>4, <2>3 DEF CaseInv
<1> DEFINE Goal == /\ \A a \in ArtifactId \cup {NoId} : CaseBound(d, a)'
                   /\ \A a \in ArtifactId : Shown(d, a)' => displayCase'[d].artifact = a
<1>5. ASSUME UNCHANGED <<displayCase, installation>> PROVE Goal
  BY <1>2, <1>3, <1>5 DEF CaseBound, Shown
<1>6. ASSUME displayCase'[d] = displayCase[d],
             \A a \in ArtifactId \cup {NoId} : Shown(d, a)' <=> Shown(d, a)
      PROVE  Goal
  BY <1>2, <1>3, <1>6 DEF CaseBound
<1>7. ASSUME NEW i \in IncidentId, NEW to \in IncidentStatus, Advanced(i, to) PROVE Goal
  <2>1. \A a \in ArtifactId \cup {NoId} : Shown(d, a)' <=> Shown(d, a)
    BY <1>7 DEF Advanced, Shown
  <2>2. CASE displayCase'[d] = displayCase[d]
    BY <1>6, <2>1, <2>2
  <2>3. CASE displayCase'[d] # displayCase[d]
    <3>1. /\ displayCase[d].status \in {"active", "incident"}
          /\ displayCase'[d].status = CaseAfter(to)
          /\ displayCase'[d].artifact = displayCase[d].artifact
      BY <1>7, <2>3 DEF Advanced
    <3>2. CaseAfter(to) \in {"active", "incident"}
      BY DEF CaseAfter
    <3> QED BY <1>2, <1>3, <2>1, <3>1, <3>2 DEF CaseBound
  <2> QED BY <2>2, <2>3
<1>8. ASSUME NEW e \in CaseId, NEW b \in ArtifactId, Reserved(e, b) PROVE Goal
  <2>1. \A a \in ArtifactId \cup {NoId} : Shown(d, a)' <=> Shown(d, a)
    BY <1>8 DEF Reserved, Shown
  <2>2. CASE d # e
    BY <1>6, <1>8, <2>1, <2>2 DEF Reserved
  <2>3. CASE d = e
    <3>1. /\ displayCase[d].status = "available"
          /\ displayCase'[d].status = "reserved" /\ displayCase'[d].artifact = b
      BY <1>8, <2>3 DEF Reserved
    <3>2. displayCase[d].artifact = NoId
      BY <1>2, <3>1, ShownFacts DEF CaseBound
    <3>3. NoId \notin ArtifactId
      BY CollectionAssumption
    <3>4. \A a \in ArtifactId : ~Shown(d, a)
      BY <1>3, <3>2, <3>3
    <3> QED BY <2>1, <3>1, <3>3, <3>4 DEF CaseBound
  <2> QED BY <2>2, <2>3
<1>9. ASSUME NEW e \in CaseId, NEW b \in ArtifactId, Installed(e, b) PROVE Goal
  <2>1. \A a \in ArtifactId \cup {NoId} : Shown(d, a)' <=> Shown(d, a) \/ (d = e /\ a = b)
    BY <1>9 DEF Installed, Shown
  <2>2. CASE d # e
    BY <1>6, <1>9, <2>1, <2>2 DEF Installed
  <2>3. CASE d = e
    <3>1. /\ displayCase[d].artifact = b
          /\ displayCase'[d].status = "active" /\ displayCase'[d].artifact = b
      BY <1>9, <2>3 DEF Installed
    <3>2. NoId \notin ArtifactId
      BY CollectionAssumption
    <3> QED BY <1>3, <2>1, <2>3, <3>1, <3>2 DEF CaseBound
  <2> QED BY <2>2, <2>3
<1> HIDE DEF Goal
<1>10. Goal
  BY <1>1, <1>5, <1>7, <1>8, <1>9 DEF CaseStep, Opened, caseVars
<1> QED BY <1>10 DEF Goal

\* A case shows an artifact exactly when the artifact was installed there with
\* a complete checklist, and is empty exactly while it was never reserved.
THEOREM CaseBindingHolds == Spec => []CaseBinding
<1>1. CaseInv => CaseBinding
  BY DEF CaseInv
<1> QED
  BY <1>1, InitTypes, TypeStep, InitAdvances, IncidentSnapshotStep, InitCases, CaseInvStep,
     PTL DEF Spec

-----------------------------------------------------------------------------
(* Artifacts on display.                                                   *)

\* Display case d shows artifact a: it is active or in incident.
Shows(d, a) == displayCase[d].artifact = a /\ displayCase[d].status \in {"active", "incident"}

\* Nothing takes an artifact out of the case that shows it.
LEMMA ShowsStays ==
  ASSUME CaseStep, NEW d \in CaseId, NEW a, Shows(d, a)
  PROVE  Shows(d, a)'
<1>1. CASE UNCHANGED caseVars
  BY <1>1 DEF caseVars, Shows
<1>2. ASSUME NEW i \in IncidentId, Opened(i) PROVE Shows(d, a)'
  BY <1>2 DEF Opened, Shows
<1>3. ASSUME NEW i \in IncidentId, NEW to \in IncidentStatus, Advanced(i, to)
      PROVE  Shows(d, a)'
  <2>1. CASE displayCase'[d] = displayCase[d]
    BY <2>1 DEF Shows
  <2>2. CASE displayCase'[d] # displayCase[d]
    <3>1. /\ displayCase'[d].status = CaseAfter(to)
          /\ displayCase'[d].artifact = displayCase[d].artifact
      BY <1>3, <2>2 DEF Advanced
    <3> QED BY <3>1 DEF Shows, CaseAfter
  <2> QED BY <2>1, <2>2
<1>4. ASSUME NEW e \in CaseId, NEW b \in ArtifactId, Reserved(e, b) \/ Installed(e, b)
      PROVE  Shows(d, a)'
  <2>1. d # e
    BY <1>4 DEF Reserved, Installed, Shows
  <2> QED BY <1>4, <2>1 DEF Reserved, Installed, Shows
<1> QED BY <1>1, <1>2, <1>3, <1>4 DEF CaseStep

LEMMA InitDisplay == Init => DisplayedInItsCase
<1> SUFFICES ASSUME Init PROVE DisplayedInItsCase
  OBVIOUS
<1>1. \A a \in ArtifactId : artifact[a] = NoArtifact
  BY DEF Init, CollectionInit
<1>2. NoArtifact.status # "on_display"
  BY DEF NoArtifact
<1> QED BY <1>1, <1>2 DEF DisplayedInItsCase

LEMMA DisplayStep ==
  TypeInv /\ IncidentSnapshots /\ DisplayedInItsCase /\ [Next]_vars => DisplayedInItsCase'
<1> SUFFICES ASSUME TypeInv, IncidentSnapshots, DisplayedInItsCase, [Next]_vars,
                    NEW a \in ArtifactId, artifact'[a].status = "on_display"
             PROVE  \E d \in CaseId : artifact'[a].currentCase = d /\ Shows(d, a)'
  BY DEF DisplayedInItsCase, Shows
<1>1. ASSUME artifact[a].status = "on_display",
             artifact'[a].currentCase = artifact[a].currentCase
      PROVE  \E d \in CaseId : artifact'[a].currentCase = d /\ Shows(d, a)'
  <2>1. PICK d \in CaseId : artifact[a].currentCase = d /\ Shows(d, a)
    BY <1>1 DEF DisplayedInItsCase, Shows
  <2>2. Shows(d, a)'
    BY <2>1, CaseSteps, ShowsStays
  <2> QED BY <1>1, <2>1, <2>2
<1>2. CASE CasesStay
  BY <1>1, <1>2 DEF CasesStay
<1>3. ASSUME NEW q \in QuarantineId, NEW b \in ArtifactId, NEW z \in ZoneId,
             SlotTaken(q, b, z) \/ SlotFreed(q, b, z)
      PROVE  \E d \in CaseId : artifact'[a].currentCase = d /\ Shows(d, a)'
  <2>1. a # b
    BY <1>3 DEF SlotTaken, SlotFreed
  <2> QED BY <1>1, <1>3, <2>1 DEF SlotTaken, SlotFreed, OtherArtifactsStay
<1>4. ASSUME NEW e \in CaseId, NEW b \in ArtifactId, CaseFilled(e, b)
      PROVE  \E d \in CaseId : artifact'[a].currentCase = d /\ Shows(d, a)'
  <2>1. CASE a = b
    BY <1>4, <2>1 DEF CaseFilled, Shows
  <2>2. CASE a # b
    BY <1>1, <1>4, <2>2 DEF CaseFilled, OtherArtifactsStay
  <2> QED BY <2>1, <2>2
<1> QED BY <1>2, <1>3, <1>4, SlotClasses

\* An artifact on display names the case that shows it, whatever lending and
\* conservation do to artifacts and whatever incidents do to cases.
THEOREM DisplayedInItsCaseHolds == Spec => []DisplayedInItsCase
BY InitTypes, TypeStep, InitAdvances, IncidentSnapshotStep, InitDisplay, DisplayStep, PTL
   DEF Spec

-----------------------------------------------------------------------------
(* Treatment plans and the resolution of their cases.                      *)

\* A call that advances a plan saw a status it may advance from, and its
\* version is the row's only while the row still has that status.
PlanSnapshot(k) ==
  k.op = "AdvanceTreatment" =>
    /\ k.rowVer <= plan[k.row].version
    /\ k.rowVer = plan[k.row].version => <<plan[k.row].status, k.arg>> \in TreatmentTransitions

PlanSnapshots == \A c \in Caller : PlanSnapshot(call[c])

\* The cases that are resolved stay the same.
SameResolved ==
  \A q \in QuarantineId : quarantine'[q].status = "resolved" <=> quarantine[q].status = "resolved"

\* The steps that matter to plans: one is drafted ...
Drafted(p) ==
  /\ plan[p] = NoPlan
  /\ plan'[p].status = "draft"
  /\ \A o \in PlanId \ {p} : plan'[o] = plan[o]
  /\ SameResolved

\* ... or advanced along a transition, the completion of a plan resolving the
\* plan's case and nothing else resolving any.
Moved(p, to) ==
  /\ plan[p] \in PlanRow
  /\ <<plan[p].status, to>> \in TreatmentTransitions
  /\ plan'[p].status = to
  /\ plan'[p].version = plan[p].version + 1
  /\ plan'[p].quarantine = plan[p].quarantine
  /\ \A o \in PlanId \ {p} : plan'[o] = plan[o]
  /\ to # "completed" => SameResolved
  /\ to = "completed" =>
       \A q \in QuarantineId :
         IF q = plan[p].quarantine
         THEN quarantine[q].status # "resolved" /\ quarantine'[q].status = "resolved"
         ELSE quarantine'[q] = quarantine[q]

\* Every step of the application, as plans see it.
PlanStep ==
  \/ UNCHANGED plan /\ SameResolved
  \/ \E p \in PlanId : Drafted(p)
  \/ \E p \in PlanId, to \in TreatmentStatus : Moved(p, to)

\* Every call is left alone or ended, or takes up an advance from plans that the
\* step leaves alone.
PlanCallsStep ==
  \A c \in Caller : call'[c].op = "AdvanceTreatment" =>
    \/ call'[c] = call[c]
    \/ UNCHANGED plan /\ PlanSnapshot(call'[c])

\* The row an advance finds, and what it makes of it.
LEMMA PlanUpdated ==
  ASSUME TypeInv, PlanSnapshots, NEW c \in Caller, UpdatePlan(c)
  PROVE  LET p == call[c].row
             to == call[c].arg
         IN  /\ p \in PlanId /\ to \in TreatmentStatus
             /\ plan[p] \in PlanRow
             /\ <<plan[p].status, to>> \in TreatmentTransitions
             /\ plan'[p].status = to
             /\ plan'[p].version = plan[p].version + 1
             /\ plan'[p].quarantine = plan[p].quarantine
             /\ \A o \in PlanId \ {p} : plan'[o] = plan[o]
<1> DEFINE k == call[c]
<1>1. k.row \in PlanId /\ k.arg \in TreatmentStatus /\ plan[k.row] \in PlanRow
  BY PlanOfCall DEF TypeInv
<1>2. k.op = "AdvanceTreatment" /\ k.rowVer = plan[k.row].version
  BY DEF UpdatePlan, InFlight, PlanCurrent
<1>3. <<plan[k.row].status, k.arg>> \in TreatmentTransitions
  BY <1>2 DEF PlanSnapshots, PlanSnapshot
<1>4. plan' = [plan EXCEPT ![k.row].status = k.arg, ![k.row].version = @ + 1]
  BY DEF UpdatePlan
<1>5. plan \in [PlanId -> PlanRow \cup {NoPlan}]
  BY DEF TypeInv, TypeOK, ConservationTypeOK
<1> HIDE DEF k
<1>6. /\ plan'[k.row].status = k.arg
      /\ plan'[k.row].version = plan[k.row].version + 1
      /\ plan'[k.row].quarantine = plan[k.row].quarantine
      /\ \A o \in PlanId \ {k.row} : plan'[o] = plan[o]
  BY <1>1, <1>4, <1>5 DEF PlanRow
<1> QED BY <1>1, <1>3, <1>6 DEF k

LEMMA TreatmentStep ==
  ASSUME TypeInv, PlanSnapshots, NEW c \in Caller, UpdateTreatment(c)
  PROVE  \E p \in PlanId, to \in TreatmentStatus : Moved(p, to)
<1>1. UpdatePlan(c) /\ call[c].arg # "completed"
  BY DEF UpdateTreatment
<1>2. plan[call[c].row].quarantine \in QuarantineId
  BY <1>1, PlanOfCall DEF TypeInv
<1>3. SameResolved
  <2>1. quarantine \in [QuarantineId -> QuarantineRow \cup {NoQuarantine}]
    BY DEF TypeInv, TypeOK, ConservationTypeOK
  <2>2. CASE UNCHANGED quarantine
    BY <2>2 DEF SameResolved
  <2>3. CASE ~UNCHANGED quarantine
    <3> DEFINE q == plan[call[c].row].quarantine
    <3>1. /\ quarantine[q].status = "open"
          /\ quarantine' = [quarantine EXCEPT ![q].status = "treating"]
      BY <2>3 DEF UpdateTreatment
    <3> HIDE DEF q
    <3> QED BY <2>1, <3>1 DEF SameResolved, QuarantineRow, NoQuarantine
  <2> QED BY <2>2, <2>3
<1>4. Moved(call[c].row, call[c].arg)
  BY <1>1, <1>3, PlanUpdated DEF Moved
<1> QED BY <1>1, <1>4, PlanUpdated

LEMMA CompletionStep ==
  ASSUME TypeInv, PlanSnapshots, NEW c \in Caller, FinishTreatment(c)
  PROVE  \E p \in PlanId, to \in TreatmentStatus : Moved(p, to)
<1> DEFINE q == plan[call[c].row].quarantine
<1>1. UpdatePlan(c) /\ call[c].arg = "completed"
  BY DEF FinishTreatment
<1>2. q \in QuarantineId /\ Unresolved(q)
  BY CaseOfCompletion DEF TypeInv
<1>3. quarantine' = [quarantine EXCEPT ![q].status = "resolved"]
  BY DEF FinishTreatment
<1>4. quarantine \in [QuarantineId -> QuarantineRow \cup {NoQuarantine}]
  BY DEF TypeInv, TypeOK, ConservationTypeOK
<1>5. \A r \in QuarantineId :
        IF r = q
        THEN quarantine[r].status # "resolved" /\ quarantine'[r].status = "resolved"
        ELSE quarantine'[r] = quarantine[r]
  <2> HIDE DEF q
  <2> QED BY <1>2, <1>3, <1>4 DEF Unresolved, QuarantineRow, NoQuarantine
<1>6. Moved(call[c].row, call[c].arg)
  BY <1>1, <1>5, PlanUpdated DEF Moved
<1> QED BY <1>1, <1>6, PlanUpdated

\* No step of exhibition takes up a treatment.
LEMMA ExhibitionElsewhere ==
  ASSUME TypeInv, ExhibitionNext
  PROVE  NoNew("AdvanceTreatment")
<1> DEFINE Goal == NoNew("AdvanceTreatment")
<1> SUFFICES Goal
  OBVIOUS
<1>1. ASSUME NEW i \in IncidentId, NEW d \in CaseId, NEW w \in WindowKey, OpenIncident(i, d, w)
      PROVE  Goal
  BY <1>1 DEF OpenIncident, NoNew
<1>2. ASSUME NEW c \in Caller, NEW a \in ArtifactId, NEW d \in CaseId, ReserveArtifact(c, a, d)
      PROVE  Goal
  <2> DEFINE k == [NoCall EXCEPT !.op = "Reserve", !.art = a, !.row = d]
  <2>1. k.op # "AdvanceTreatment"
    BY DEF NoCall
  <2>2. call' = [call EXCEPT ![c] = k]
    BY <1>2 DEF ReserveArtifact, Load
  <2> QED BY <2>1, <2>2, LoadOther
<1>3. ASSUME NEW c \in Caller, NEW a \in ArtifactId, NEW d \in CaseId, NEW complete \in BOOLEAN,
             Activate(c, a, d, complete)
      PROVE  Goal
  <2> DEFINE k == [NoCall EXCEPT !.op = "Activate", !.art = a, !.row = d, !.flag = complete,
                     !.artVer = artifact[a].version, !.rowVer = displayCase[d].version]
  <2>1. k.op # "AdvanceTreatment"
    BY DEF NoCall
  <2>2. call' = [call EXCEPT ![c] = k]
    BY <1>3 DEF Activate, Load
  <2> QED BY <2>1, <2>2, LoadOther
<1>4. ASSUME NEW c \in Caller, NEW i \in IncidentId, NEW to \in IncidentStatus,
             NEW r \in BOOLEAN, AdvanceIncident(c, i, to, r)
      PROVE  Goal
  <2> DEFINE k == [NoCall EXCEPT !.op = "AdvanceIncident", !.row = i, !.arg = to,
                     !.rowVer = incident[i].version, !.flag = r]
  <2>1. k.op # "AdvanceTreatment"
    BY DEF NoCall
  <2>2. call' = [call EXCEPT ![c] = k]
    BY <1>4 DEF AdvanceIncident, Load
  <2> QED BY <2>1, <2>2, LoadOther
<1>5. ASSUME NEW c \in Caller, ReserveCase(c) PROVE Goal
  <2> DEFINE k == [call[c] EXCEPT !.op = "ReserveDisplayCase",
                                  !.rowVer = displayCase[call[c].row].version]
  <2>1. call[c] \in CallType /\ call[c].op = "Reserve"
    BY <1>5 DEF ReserveCase, InFlight, TypeInv, TypeOK
  <2>2. k.op = "ReserveDisplayCase"
    BY <2>1, ExhibitionFields, CallService DEF ExhibitionCalls, Calls
  <2>3. k.op # "AdvanceTreatment"
    BY <2>2
  <2>4. call' = [call EXCEPT ![c] = k]
    BY <1>5 DEF ReserveCase
  <2> QED BY <2>3, <2>4, LoadOther
<1>6. ASSUME NEW c \in Caller,
             ReserveDisplayCase(c) \/ ActivateInstallation(c) \/ UpdateIncident(c)
      PROVE  Goal
  BY <1>6, ReturnOther, AdvanceNames DEF ReserveDisplayCase, ActivateInstallation, UpdateIncident
<1> HIDE DEF Goal
<1> QED BY <1>1, <1>2, <1>3, <1>4, <1>5, <1>6 DEF ExhibitionNext

LEMMA ConservationPlans ==
  ASSUME TypeInv, PlanSnapshots, ConservationNext
  PROVE  PlanStep /\ PlanCallsStep
<1> DEFINE Goal == PlanStep /\ PlanCallsStep
<1> SUFFICES Goal
  OBVIOUS
<1>1. NoNew("AdvanceTreatment") => PlanCallsStep
  BY DEF NoNew, PlanCallsStep
<1>2. UNCHANGED <<plan, quarantine>> => PlanStep
  BY DEF PlanStep, SameResolved
<1>3. ASSUME NEW a \in ArtifactId, Register(a) PROVE Goal
  BY <1>1, <1>2, <1>3 DEF Register, conservationVars, NoNew
<1>4. ASSUME NEW p \in PlanId, NEW q \in QuarantineId, DraftTreatment(p, q) PROVE Goal
  <2> DEFINE row == [NoPlan EXCEPT !.status = "draft", !.version = 1, !.quarantine = q]
  <2>1. plan[p] = NoPlan /\ plan' = [plan EXCEPT ![p] = row] /\ UNCHANGED <<call, quarantine>>
    BY <1>4 DEF DraftTreatment
  <2>2. row.status = "draft"
    BY DEF NoPlan
  <2> HIDE DEF row
  <2>3. Drafted(p)
    BY <2>1, <2>2 DEF Drafted, SameResolved, TypeInv, TypeOK, ConservationTypeOK
  <2> QED BY <1>1, <2>1, <2>3 DEF PlanStep, NoNew
<1>5. ASSUME NEW c \in Caller, NEW a \in ArtifactId, RecordCondition(c, a) PROVE Goal
  <2>1. PICK v \in Verdict : call' = [call EXCEPT ![c] =
           [NoCall EXCEPT !.op = "RecordCondition", !.art = a,
                          !.artVer = artifact[a].version, !.arg = v]]
    BY <1>5 DEF RecordCondition, Load
  <2>2. [NoCall EXCEPT !.op = "RecordCondition", !.art = a,
                       !.artVer = artifact[a].version, !.arg = v].op # "AdvanceTreatment"
    BY DEF NoCall
  <2> QED BY <1>1, <1>2, <1>5, <2>1, <2>2, LoadOther DEF RecordCondition, conservationVars
<1>6. ASSUME NEW c \in Caller, NEW a \in ArtifactId, ReleaseAssessment(c, a) PROVE Goal
  <2> DEFINE k == [NoCall EXCEPT !.op = "ReleaseAssessment", !.art = a,
                                 !.artVer = artifact[a].version]
  <2>1. k.op # "AdvanceTreatment"
    BY DEF NoCall
  <2>2. call' = [call EXCEPT ![c] = k] /\ UNCHANGED <<plan, quarantine>>
    BY <1>6 DEF ReleaseAssessment, Load, conservationVars
  <2> QED BY <1>1, <1>2, <2>1, <2>2, LoadOther
<1>7. ASSUME NEW c \in Caller, NEW a \in ArtifactId, NEW z \in ZoneId, OpenQuarantine(c, a, z)
      PROVE  Goal
  <2> DEFINE k == [NoCall EXCEPT !.op = "OpenQuarantine", !.art = a,
                                 !.artVer = artifact[a].version, !.arg = z]
  <2>1. k.op # "AdvanceTreatment"
    BY DEF NoCall
  <2>2. call' = [call EXCEPT ![c] = k] /\ UNCHANGED <<plan, quarantine>>
    BY <1>7 DEF OpenQuarantine, Load, conservationVars
  <2> QED BY <1>1, <1>2, <2>1, <2>2, LoadOther
<1>8. ASSUME NEW c \in Caller, NEW p \in PlanId, NEW to \in TreatmentStatus,
             AdvanceTreatment(c, p, to)
      PROVE  Goal
  <2> DEFINE k == [NoCall EXCEPT !.op = "AdvanceTreatment", !.row = p,
                                 !.rowVer = plan[p].version, !.arg = to]
  <2>1. k.row = p /\ k.arg = to /\ k.rowVer = plan[p].version
    BY DEF NoCall
  <2>2. call' = [call EXCEPT ![c] = k] /\ UNCHANGED <<plan, quarantine>>
    BY <1>8 DEF AdvanceTreatment, Load, conservationVars
  <2>3. <<plan[p].status, to>> \in TreatmentTransitions
    BY <1>8 DEF AdvanceTreatment
  <2>4. plan[p].version \in Nat
    <3>1. NoPlan.version = 0
      BY DEF NoPlan
    <3>2. \A row \in PlanRow : row.version \in Nat
      BY PosFacts DEF PlanRow
    <3> QED BY <3>1, <3>2 DEF TypeInv, TypeOK, ConservationTypeOK
  <2> HIDE DEF k
  <2>5. PlanSnapshot(k)
    BY <2>1, <2>3, <2>4 DEF PlanSnapshot
  <2>6. \A b \in Caller : call'[b] = call[b] \/ call'[b] = k
    BY <2>2 DEF TypeInv, TypeOK
  <2> QED BY <1>2, <2>2, <2>5, <2>6 DEF PlanCallsStep
<1>9. ASSUME NEW c \in Caller, NEW q \in QuarantineId, SaveQuarantine(c, q) PROVE Goal
  <2>1. Return(c) /\ UNCHANGED plan
    BY <1>9 DEF SaveQuarantine
  <2>2. /\ quarantine[q] = NoQuarantine
        /\ quarantine' = [quarantine EXCEPT ![q] =
             [status |-> "open", artifact |-> call[c].art, zone |-> call[c].arg]]
    BY <1>9 DEF SaveQuarantine
  <2>3. SameResolved
    BY <2>2 DEF SameResolved, NoQuarantine, TypeInv, TypeOK, ConservationTypeOK
  <2> QED BY <1>1, <2>1, <2>3, ReturnOther, AdvanceNames DEF PlanStep
<1>10. ASSUME NEW c \in Caller, SaveConditionReport(c) \/ UpdateArtifactStatus(c)
       PROVE  Goal
  BY <1>1, <1>2, <1>10, ReturnOther, AdvanceNames
  DEF SaveConditionReport, UpdateArtifactStatus, conservationVars
<1>11. ASSUME NEW c \in Caller, UpdateTreatment(c) PROVE Goal
  <2>1. Return(c)
    BY <1>11 DEF UpdateTreatment, UpdatePlan
  <2> QED BY <1>1, <1>11, <2>1, TreatmentStep, ReturnOther, AdvanceNames DEF PlanStep
<1>12. ASSUME NEW c \in Caller, FinishTreatment(c) PROVE Goal
  <2>1. Return(c)
    BY <1>12 DEF FinishTreatment, UpdatePlan
  <2> QED BY <1>1, <1>12, <2>1, CompletionStep, ReturnOther, AdvanceNames DEF PlanStep
<1> HIDE DEF Goal
<1> QED
  BY <1>3, <1>4, <1>5, <1>6, <1>7, <1>8, <1>9, <1>10, <1>11, <1>12 DEF ConservationNext

LEMMA PlanSteps ==
  ASSUME TypeInv, PlanSnapshots, [Next]_vars
  PROVE  PlanStep /\ PlanCallsStep
<1>1. NoNew("AdvanceTreatment") => PlanCallsStep
  BY DEF NoNew, PlanCallsStep
<1>2. UNCHANGED conservationVars => PlanStep
  BY DEF PlanStep, SameResolved, conservationVars
<1>3. CASE UNCHANGED vars
  BY <1>1, <1>2, <1>3 DEF vars, NoNew
<1>4. CASE Fail
  <2>1. PICK c \in Caller : Return(c)
    BY <1>4 DEF Fail, FailCall
  <2> QED BY <1>1, <1>2, <1>4, <2>1, ReturnOther, AdvanceNames DEF Fail
<1>5. CASE ConservationNext
  BY <1>5, ConservationPlans
<1>6. CASE LendingNext /\ UNCHANGED conservationVars
  BY <1>1, <1>2, <1>6, LendingElsewhere, AdvanceNames
<1>7. CASE ExhibitionNext /\ UNCHANGED conservationVars
  BY <1>1, <1>2, <1>7, ExhibitionElsewhere
<1> QED BY <1>3, <1>4, <1>5, <1>6, <1>7 DEF Next

LEMMA InitPlans == Init => PlanSnapshots
BY DEF Init, CollectionInit, PlanSnapshots, PlanSnapshot, NoCall

LEMMA PlanSnapshotStep ==
  TypeInv /\ PlanSnapshots /\ [Next]_vars => PlanSnapshots'
<1> SUFFICES ASSUME TypeInv, PlanSnapshots, [Next]_vars, NEW c \in Caller,
                    call'[c].op = "AdvanceTreatment"
             PROVE  /\ call'[c].rowVer <= plan'[call'[c].row].version
                    /\ call'[c].rowVer = plan'[call'[c].row].version =>
                         <<plan'[call'[c].row].status, call'[c].arg>> \in TreatmentTransitions
  BY DEF PlanSnapshots, PlanSnapshot
<1>1. PlanStep /\ PlanCallsStep
  BY PlanSteps
<1>2. CASE UNCHANGED plan
  BY <1>1, <1>2 DEF PlanCallsStep, PlanSnapshots, PlanSnapshot
<1>3. CASE ~UNCHANGED plan
  <2>1. call'[c] = call[c]
    BY <1>1, <1>3 DEF PlanCallsStep
  <2>2. call[c] \in CallType /\ call[c].op = "AdvanceTreatment"
    BY <2>1 DEF TypeInv, TypeOK
  <2>3. call[c].row \in PlanId /\ call[c].rowVer \in Nat /\ call[c].rowVer # 0
    BY <2>2, ConservationFields, PosFacts
  <2>4. /\ call[c].rowVer <= plan[call[c].row].version
        /\ call[c].rowVer = plan[call[c].row].version =>
             <<plan[call[c].row].status, call[c].arg>> \in TreatmentTransitions
    BY <2>2 DEF PlanSnapshots, PlanSnapshot
  <2>5. ASSUME NEW p \in PlanId, Drafted(p) PROVE plan'[call[c].row] = plan[call[c].row]
    <3>1. NoPlan.version = 0
      BY DEF NoPlan
    <3>2. plan[call[c].row] # NoPlan
      BY <2>3, <2>4, <3>1
    <3> QED BY <2>3, <2>5, <3>2 DEF Drafted
  <2>6. ASSUME NEW p \in PlanId, NEW to \in TreatmentStatus, Moved(p, to)
        PROVE  \/ plan'[call[c].row] = plan[call[c].row]
               \/ /\ call[c].rowVer < plan'[call[c].row].version
                  /\ plan'[call[c].row].version \in Nat
    <3>1. CASE call[c].row # p
      BY <2>3, <2>6, <3>1 DEF Moved
    <3>2. CASE call[c].row = p
      <4>1. plan[p].version \in Nat
        BY <2>6, PosFacts DEF Moved, PlanRow
      <4> QED BY <2>3, <2>4, <2>6, <3>2, <4>1 DEF Moved
    <3> QED BY <3>1, <3>2
  <2>7. \/ plan'[call[c].row] = plan[call[c].row]
        \/ /\ call[c].rowVer < plan'[call[c].row].version
           /\ plan'[call[c].row].version \in Nat
    BY <1>1, <1>3, <2>5, <2>6 DEF PlanStep
  <2> QED BY <2>1, <2>3, <2>4, <2>7
<1> QED BY <1>2, <1>3

\* The plans of case q that are completed.
Completed(q) == {p \in PlanId : plan[p].quarantine = q /\ plan[p].status = "completed"}

\* With QuarantineResolution: which plan it was.
ResolvedOnce(q) ==
  IF quarantine[q].status = "resolved"
  THEN \E p \in PlanId : Completed(q) = {p}
  ELSE Completed(q) = {}

ResolutionInv == \A q \in QuarantineId : ResolvedOnce(q)

LEMMA InitResolution == Init => ResolutionInv
BY DEF Init, ConservationInit, ResolutionInv, ResolvedOnce, Completed, NoPlan, NoQuarantine

LEMMA ResolutionStep ==
  TypeInv /\ PlanSnapshots /\ ResolutionInv /\ [Next]_vars => ResolutionInv'
<1> SUFFICES ASSUME TypeInv, PlanSnapshots, ResolutionInv, [Next]_vars, NEW q \in QuarantineId
             PROVE  ResolvedOnce(q)'
  BY DEF ResolutionInv
<1>1. PlanStep
  BY PlanSteps
<1>2. ResolvedOnce(q)
  BY DEF ResolutionInv
<1>3. ASSUME Completed(q)' = Completed(q),
             quarantine'[q].status = "resolved" <=> quarantine[q].status = "resolved"
      PROVE  ResolvedOnce(q)'
  BY <1>2, <1>3 DEF ResolvedOnce
<1>4. CASE UNCHANGED plan /\ SameResolved
  BY <1>3, <1>4 DEF Completed, SameResolved
<1>5. ASSUME NEW p \in PlanId, Drafted(p) PROVE ResolvedOnce(q)'
  <2>1. plan[p].status # "completed" /\ plan'[p].status # "completed"
    BY <1>5 DEF Drafted, NoPlan
  <2>2. Completed(q)' = Completed(q)
    BY <1>5, <2>1 DEF Drafted, Completed
  <2> QED BY <1>3, <1>5, <2>2 DEF Drafted, SameResolved
<1>6. ASSUME NEW p \in PlanId, NEW to \in TreatmentStatus, Moved(p, to) PROVE ResolvedOnce(q)'
  <2>1. plan[p].status # "completed"
    BY <1>6 DEF Moved, TreatmentTransitions
  <2>2. CASE to # "completed"
    <3>1. Completed(q)' = Completed(q)
      BY <1>6, <2>1, <2>2 DEF Moved, Completed
    <3> QED BY <1>3, <1>6, <2>2, <3>1 DEF Moved, SameResolved
  <2>3. CASE to = "completed" /\ q # plan[p].quarantine
    <3>1. Completed(q)' = Completed(q)
      BY <1>6, <2>1, <2>3 DEF Moved, Completed
    <3>2. quarantine'[q] = quarantine[q]
      BY <1>6, <2>3 DEF Moved
    <3> QED BY <1>3, <3>1, <3>2
  <2>4. CASE to = "completed" /\ q = plan[p].quarantine
    <3>1. quarantine[q].status # "resolved" /\ quarantine'[q].status = "resolved"
      BY <1>6, <2>4 DEF Moved
    <3>2. Completed(q) = {}
      BY <1>2, <3>1 DEF ResolvedOnce
    <3>3. Completed(q)' = Completed(q) \cup {p}
      BY <1>6, <2>1, <2>4 DEF Moved, Completed
    <3> QED BY <3>1, <3>2, <3>3 DEF ResolvedOnce
  <2> QED BY <2>2, <2>3, <2>4
<1> QED BY <1>1, <1>4, <1>5, <1>6 DEF PlanStep

LEMMA ResolvedOnceCounts == ResolutionInv => QuarantineResolution
<1> SUFFICES ASSUME ResolutionInv, NEW q \in QuarantineId
             PROVE  Cardinality(Completed(q)) = IF quarantine[q].status = "resolved" THEN 1 ELSE 0
  BY DEF QuarantineResolution, Completed
<1>1. ResolvedOnce(q)
  BY DEF ResolutionInv
<1> QED BY <1>1, FS_EmptySet, FS_Singleton DEF ResolvedOnce

\* A case is resolved by the completion of exactly one treatment plan, whichever
\* plans were drafted for it and whatever else the application does.
THEOREM QuarantineResolutionHolds == Spec => []QuarantineResolution
BY InitTypes, TypeStep, InitPlans, PlanSnapshotStep, InitResolution, ResolutionStep,
   ResolvedOnceCounts, PTL DEF Spec
=============================================================================
