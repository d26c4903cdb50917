---------------------------- MODULE MuseumProofs ----------------------------
(***************************************************************************)
(* Type correctness of Museum and its optimistic locking, with the lemmas  *)
(* about single steps that ServiceProofs builds on.                        *)
(***************************************************************************)
EXTENDS Museum, TLAPS

TypeInv == TypeOK /\ ArtifactsExist

LEMMA PosFacts ==
  1 \in Pos /\ 0 \notin Pos /\ Pos \subseteq Nat /\ \A n \in Nat : n + 1 \in Pos
BY DEF Pos

-----------------------------------------------------------------------------
(* Calls.                                                                  *)

\* The method a call is in tells which service it belongs to.
LEMMA CallService ==
  ASSUME NEW k \in CallType
  PROVE  /\ k \in ConservationCalls =>
              k.op \in {"RecordCondition", "ReleaseAssessment", "OpenQuarantine",
                        "AdvanceTreatment"}
         /\ k \in LendingCalls =>
              k.op \in {"CreateLoan", "InsertLoan", "Submit", "Approve", "RecordCustody"}
         /\ k \in ExhibitionCalls =>
              k.op \in {"Reserve", "ReserveDisplayCase", "Activate", "AdvanceIncident"}
         /\ k \in {NoCall} => k.op = "none"
         /\ k \in {NoCall} \cup ConservationCalls \cup LendingCalls \cup ExhibitionCalls
<1>1. k \in ConservationCalls =>
        k.op \in {"RecordCondition", "ReleaseAssessment", "OpenQuarantine",
                  "AdvanceTreatment"}
  BY DEF ConservationCalls, Calls
<1>2. k \in LendingCalls =>
        k.op \in {"CreateLoan", "InsertLoan", "Submit", "Approve", "RecordCustody"}
  BY DEF LendingCalls, Calls
<1>3. k \in ExhibitionCalls =>
        k.op \in {"Reserve", "ReserveDisplayCase", "Activate", "AdvanceIncident"}
  BY DEF ExhibitionCalls, Calls
<1> QED BY <1>1, <1>2, <1>3 DEF CallType, NoCall

\* What a call of conservation carries.
LEMMA ConservationFields ==
  ASSUME NEW k \in CallType
  PROVE  /\ k.op \in {"RecordCondition", "ReleaseAssessment", "OpenQuarantine"} =>
              k.art \in ArtifactId /\ k.artVer \in Pos
         /\ k.op = "RecordCondition" => k.arg \in Verdict
         /\ k.op = "OpenQuarantine" => k.arg \in ZoneId
         /\ k.op = "AdvanceTreatment" =>
              k.row \in PlanId /\ k.rowVer \in Pos /\ k.arg \in TreatmentStatus
<1>1. k.op \in {"RecordCondition", "ReleaseAssessment", "OpenQuarantine",
                "AdvanceTreatment"} => k \in ConservationCalls
  BY CallService
<1> QED BY <1>1 DEF ConservationCalls, Calls

\* What a call of lending carries.
LEMMA LendingFields ==
  ASSUME NEW k \in CallType
  PROVE  /\ k.op \in {"CreateLoan", "InsertLoan"} =>
              k.art \in ArtifactId /\ k.arg \in Period
         /\ k.op \in {"Submit", "Approve", "RecordCustody"} =>
              k.row \in LoanId /\ k.rowVer \in Pos
         /\ k.op \in {"Approve", "RecordCustody"} =>
              k.art \in ArtifactId /\ k.artVer \in Pos
         /\ k.op = "RecordCustody" => k.arg \in CustodyKind
<1>1. k.op \in {"CreateLoan", "InsertLoan", "Submit", "Approve", "RecordCustody"}
        => k \in LendingCalls
  BY CallService
<1> QED BY <1>1 DEF LendingCalls, Calls

\* What a call of exhibition carries.
LEMMA ExhibitionFields ==
  ASSUME NEW k \in CallType
  PROVE  /\ k.op \in {"Reserve", "ReserveDisplayCase", "Activate"} =>
              k.art \in ArtifactId /\ k.row \in CaseId
         /\ k.op = "Activate" => k.artVer \in Pos /\ k.rowVer \in Pos /\ k.flag \in BOOLEAN
         /\ k.op = "ReserveDisplayCase" => k.rowVer \in Pos
         /\ k.op = "AdvanceIncident" =>
              /\ k.row \in IncidentId /\ k.rowVer \in Pos
              /\ k.arg \in IncidentStatus /\ k.flag \in BOOLEAN
<1>1. k.op \in {"Reserve", "ReserveDisplayCase", "Activate", "AdvanceIncident"}
        => k \in ExhibitionCalls
  BY CallService
<1> QED BY <1>1 DEF ExhibitionCalls, Calls

\* What every call carries.
LEMMA AnyFields ==
  ASSUME NEW k \in CallType
  PROVE  k.art \in ArtifactId \cup {NoId} /\ k.artVer \in Nat /\ k.rowVer \in Nat
<1>1. Pos \subseteq Nat /\ 0 \in Nat
  BY DEF Pos
<1>2. CASE k \in ConservationCalls
  BY <1>1, <1>2 DEF ConservationCalls, Calls
<1>3. CASE k \in LendingCalls
  BY <1>1, <1>3 DEF LendingCalls, Calls
<1>4. CASE k \in ExhibitionCalls
  BY <1>1, <1>4 DEF ExhibitionCalls, Calls
<1> QED BY <1>1, <1>2, <1>3, <1>4 DEF CallType, NoCall

LEMMA LoadType ==
  ASSUME call \in [Caller -> CallType], NEW c \in Caller, NEW k \in CallType, Load(c, k)
  PROVE  call' \in [Caller -> CallType]
BY DEF Load

LEMMA ReturnType ==
  ASSUME call \in [Caller -> CallType], NEW c \in Caller, Return(c)
  PROVE  call' \in [Caller -> CallType]
<1>1. NoCall \in CallType
  BY DEF CallType
<1> QED BY <1>1 DEF Return

-----------------------------------------------------------------------------
(* Artifact rows.                                                          *)

\* A row exists as soon as it has a version, and has one as soon as it exists.
LEMMA RowExists ==
  ASSUME TypeOK, NEW a \in ArtifactId
  PROVE  /\ artifact[a] # NoArtifact <=> artifact[a] \in ArtifactRow
         /\ artifact[a].version \in Pos => artifact[a] \in ArtifactRow
         /\ artifact[a].status # "absent" => artifact[a] \in ArtifactRow
BY DEF TypeOK, ArtifactRow, NoArtifact, Pos

\* An update of a row leaves a row.
LEMMA ArtifactUpdate ==
  ASSUME artifact \in [ArtifactId -> ArtifactRow \cup {NoArtifact}],
         NEW a \in ArtifactId, NEW row \in ArtifactRow, UpdateArtifact(a, row)
  PROVE  /\ artifact' \in [ArtifactId -> ArtifactRow \cup {NoArtifact}]
         /\ artifact'[a] = [row EXCEPT !.version = @ + 1]
         /\ artifact'[a] \in ArtifactRow
         /\ \A b \in ArtifactId \ {a} : artifact'[b] = artifact[b]
<1>1. [row EXCEPT !.version = @ + 1] \in ArtifactRow
  BY DEF ArtifactRow, Pos
<1> QED BY <1>1 DEF UpdateArtifact

\* The versions of the rows a transaction updates are those of existing rows.
LEMMA CurrentExists ==
  ASSUME TypeOK, NEW a \in ArtifactId, NEW v \in Pos, Current(a, v)
  PROVE  artifact[a] \in ArtifactRow
BY RowExists DEF Current

\* The plan an UPDATE of treatment_plans finds exists and names a case.
LEMMA PlanOfCall ==
  ASSUME TypeOK, NEW c \in Caller, UpdatePlan(c)
  PROVE  /\ call[c].row \in PlanId
         /\ call[c].arg \in TreatmentStatus
         /\ plan[call[c].row] \in PlanRow
         /\ plan[call[c].row].quarantine \in QuarantineId
<1>1. call[c] \in CallType /\ call[c].op = "AdvanceTreatment"
  BY DEF UpdatePlan, InFlight, TypeOK
<1>2. call[c].row \in PlanId /\ call[c].rowVer \in Pos /\ call[c].arg \in TreatmentStatus
  BY <1>1, ConservationFields
<1>3. PlanCurrent(call[c].row, call[c].rowVer)
  BY DEF UpdatePlan
<1>4. plan[call[c].row] \in PlanRow
  BY <1>2, <1>3 DEF PlanCurrent, TypeOK, ConservationTypeOK, NoPlan, Pos
<1> QED BY <1>2, <1>4 DEF PlanRow

\* Completion finds the case of its plan, unresolved, and the case's artifact.
LEMMA CaseOfCompletion ==
  ASSUME TypeOK, NEW c \in Caller, FinishTreatment(c),
         NEW q, q = plan[call[c].row].quarantine
  PROVE  /\ q \in QuarantineId
         /\ Unresolved(q)
         /\ quarantine[q] \in QuarantineRow
         /\ quarantine[q].zone \in ZoneId
         /\ quarantine[q].artifact \in ArtifactId
         /\ artifact[quarantine[q].artifact] \in ArtifactRow
         /\ artifact[quarantine[q].artifact].status \in {"quarantined", "treatment"}
         /\ artifact[quarantine[q].artifact].currentCase = q
<1>1. q \in QuarantineId
  BY PlanOfCall DEF FinishTreatment
<1>2. Unresolved(q)
  BY DEF FinishTreatment
<1>3. quarantine[q] \in QuarantineRow
  BY <1>1, <1>2 DEF Unresolved, TypeOK, ConservationTypeOK, NoQuarantine
<1>4. quarantine[q].zone \in ZoneId /\ quarantine[q].artifact \in ArtifactId
  BY <1>3 DEF QuarantineRow
<1>5. /\ artifact[quarantine[q].artifact].status \in {"quarantined", "treatment"}
      /\ artifact[quarantine[q].artifact].currentCase = q
  BY DEF FinishTreatment
<1>6. artifact[quarantine[q].artifact] \in ArtifactRow
  BY <1>4, <1>5, RowExists
<1> QED BY <1>1, <1>2, <1>3, <1>4, <1>5, <1>6

-----------------------------------------------------------------------------
(* Steps of conservation.                                                  *)

\* Loading and returning are the only changes to the calls; each step of
\* conservation changes the rows of its own tables and of the artifacts.
LEMMA ConservationTypes ==
  ASSUME TypeInv, ConservationNext, UNCHANGED <<lendingVars, exhibitionVars>>
  PROVE  TypeOK'
<1> USE DEF TypeInv
<1>1. ASSUME NEW a \in ArtifactId, Register(a)
      PROVE  TypeOK'
  <2>1. PICK v \in Verdict : artifact' = [artifact EXCEPT ![a] =
           [NoArtifact EXCEPT !.status = "registered", !.version = 1, !.lastReport = v]]
    BY <1>1 DEF Register
  <2>2. [NoArtifact EXCEPT !.status = "registered", !.version = 1, !.lastReport = v]
          \in ArtifactRow
    BY PosFacts DEF NoArtifact, ArtifactRow, ArtifactStatus
  <2>3. artifact' \in [ArtifactId -> ArtifactRow \cup {NoArtifact}]
    BY <2>1, <2>2 DEF TypeOK
  <2>4. UNCHANGED <<incident, call, conservationVars>>
    BY <1>1 DEF Register
  <2> QED
    BY <2>3, <2>4 DEF TypeOK, ConservationTypeOK, LendingTypeOK,
                      ExhibitionTypeOK, conservationVars, lendingVars, exhibitionVars
<1>2. ASSUME NEW p \in PlanId, NEW q \in QuarantineId, DraftTreatment(p, q)
      PROVE  TypeOK'
  <2>1. [NoPlan EXCEPT !.status = "draft", !.version = 1, !.quarantine = q] \in PlanRow
    BY PosFacts DEF NoPlan, PlanRow, TreatmentStatus
  <2>2. plan' \in [PlanId -> PlanRow \cup {NoPlan}]
    BY <1>2, <2>1 DEF DraftTreatment, TypeOK, ConservationTypeOK
  <2>3. UNCHANGED <<artifact, incident, call, occupied, quarantine>>
    BY <1>2 DEF DraftTreatment
  <2> QED
    BY <2>2, <2>3 DEF TypeOK, ConservationTypeOK, LendingTypeOK,
                      ExhibitionTypeOK, lendingVars, exhibitionVars
<1>3. ASSUME NEW c \in Caller, NEW k \in CallType, Load(c, k),
             UNCHANGED <<artifact, incident, conservationVars>>
      PROVE  TypeOK'
  BY <1>3, LoadType DEF TypeOK, ConservationTypeOK, LendingTypeOK,
                        ExhibitionTypeOK, conservationVars, lendingVars, exhibitionVars
<1>4. ASSUME NEW c \in Caller, NEW a \in ArtifactId, RecordCondition(c, a)
      PROVE  TypeOK'
  <2>1. PICK v \in Verdict : Load(c, [NoCall EXCEPT !.op = "RecordCondition", !.art = a,
                              !.artVer = artifact[a].version, !.arg = v])
    BY <1>4 DEF RecordCondition
  <2>2. artifact[a].version \in Pos
    BY <1>4, RowExists DEF RecordCondition, ArtifactRow
  <2>3. [NoCall EXCEPT !.op = "RecordCondition", !.art = a,
                       !.artVer = artifact[a].version, !.arg = v] \in CallType
    BY <2>2 DEF NoCall, CallType, ConservationCalls, Calls
  <2> QED
    BY <1>4, <2>1, <2>3, <1>3 DEF RecordCondition
<1>5. ASSUME NEW c \in Caller, NEW a \in ArtifactId, ReleaseAssessment(c, a)
      PROVE  TypeOK'
  <2>1. artifact[a].version \in Pos
    BY <1>5, RowExists DEF ReleaseAssessment, ArtifactRow
  <2>2. [NoCall EXCEPT !.op = "ReleaseAssessment", !.art = a,
                       !.artVer = artifact[a].version] \in CallType
    BY <2>1 DEF NoCall, CallType, ConservationCalls, Calls
  <2> QED
    BY <1>5, <2>2, <1>3 DEF ReleaseAssessment
<1>6. ASSUME NEW c \in Caller, NEW a \in ArtifactId, NEW z \in ZoneId,
             OpenQuarantine(c, a, z)
      PROVE  TypeOK'
  <2>1. artifact[a].version \in Pos
    BY <1>6, RowExists DEF OpenQuarantine, ArtifactRow, CanTransition, ArtifactTransitions
  <2>2. [NoCall EXCEPT !.op = "OpenQuarantine", !.art = a,
                       !.artVer = artifact[a].version, !.arg = z] \in CallType
    BY <2>1 DEF NoCall, CallType, ConservationCalls, Calls
  <2> QED
    BY <1>6, <2>2, <1>3 DEF OpenQuarantine
<1>7. ASSUME NEW c \in Caller, NEW p \in PlanId, NEW to \in TreatmentStatus,
             AdvanceTreatment(c, p, to)
      PROVE  TypeOK'
  <2>1. plan[p].version \in Pos
    BY <1>7 DEF AdvanceTreatment, TreatmentTransitions, TypeOK, ConservationTypeOK, PlanRow, NoPlan
  <2>2. [NoCall EXCEPT !.op = "AdvanceTreatment", !.row = p,
                       !.rowVer = plan[p].version, !.arg = to] \in CallType
    BY <2>1 DEF NoCall, CallType, ConservationCalls, Calls
  <2> QED
    BY <1>7, <2>2, <1>3 DEF AdvanceTreatment
<1>8. ASSUME NEW c \in Caller, SaveConditionReport(c)
      PROVE  TypeOK'
  <2> DEFINE k == call[c]
             row == [artifact[k.art] EXCEPT !.status = "assessment", !.lastReport = k.arg]
  <2>1. k \in CallType /\ k.op = "RecordCondition"
    BY <1>8 DEF SaveConditionReport, InFlight, TypeOK
  <2>2. artifact[k.art] \in ArtifactRow
    BY <1>8, <2>1, ConservationFields, CurrentExists DEF SaveConditionReport
  <2>3. row \in ArtifactRow
    BY <2>1, <2>2, ConservationFields DEF ArtifactRow, ArtifactStatus
  <2>4. artifact' \in [ArtifactId -> ArtifactRow \cup {NoArtifact}]
    BY <1>8, <2>1, <2>3, ConservationFields, ArtifactUpdate DEF SaveConditionReport, TypeOK
  <2>5. Return(c) /\ UNCHANGED <<incident, conservationVars>>
    BY <1>8 DEF SaveConditionReport
  <2> QED
    BY <2>4, <2>5, ReturnType DEF TypeOK, ConservationTypeOK, LendingTypeOK,
                      ExhibitionTypeOK, conservationVars, lendingVars, exhibitionVars
<1>9. ASSUME NEW c \in Caller, UpdateArtifactStatus(c)
      PROVE  TypeOK'
  <2> DEFINE k == call[c]
             row == [artifact[k.art] EXCEPT !.status = "ready"]
  <2>1. k \in CallType /\ k.op = "ReleaseAssessment"
    BY <1>9 DEF UpdateArtifactStatus, InFlight, TypeOK
  <2>2. artifact[k.art] \in ArtifactRow
    BY <1>9, <2>1, ConservationFields, CurrentExists DEF UpdateArtifactStatus
  <2>3. row \in ArtifactRow
    BY <2>2 DEF ArtifactRow, ArtifactStatus
  <2>4. artifact' \in [ArtifactId -> ArtifactRow \cup {NoArtifact}]
    BY <1>9, <2>1, <2>3, ConservationFields, ArtifactUpdate DEF UpdateArtifactStatus, TypeOK
  <2>5. Return(c) /\ UNCHANGED <<incident, conservationVars>>
    BY <1>9 DEF UpdateArtifactStatus
  <2> QED
    BY <2>4, <2>5, ReturnType DEF TypeOK, ConservationTypeOK, LendingTypeOK,
                      ExhibitionTypeOK, conservationVars, lendingVars, exhibitionVars
<1>10. ASSUME NEW c \in Caller, NEW q \in QuarantineId, SaveQuarantine(c, q)
       PROVE  TypeOK'
  <2> DEFINE k == call[c]
             row == [artifact[k.art] EXCEPT !.status = "quarantined", !.currentCase = q]
  <2>1. k \in CallType /\ k.op = "OpenQuarantine"
    BY <1>10 DEF SaveQuarantine, InFlight, TypeOK
  <2>2. artifact[k.art] \in ArtifactRow
    BY <1>10, <2>1, ConservationFields, CurrentExists DEF SaveQuarantine
  <2>3. row \in ArtifactRow
    BY <2>2 DEF ArtifactRow, ArtifactStatus
  <2>4. artifact' \in [ArtifactId -> ArtifactRow \cup {NoArtifact}]
    BY <1>10, <2>1, <2>3, ConservationFields, ArtifactUpdate DEF SaveQuarantine, TypeOK
  <2>5. quarantine' \in [QuarantineId -> QuarantineRow \cup {NoQuarantine}]
    BY <1>10, <2>1, ConservationFields
    DEF SaveQuarantine, TypeOK, ConservationTypeOK, QuarantineRow, QuarantineStatus
  <2>6. occupied' \in [ZoneId -> Nat]
    BY <1>10, <2>1, ConservationFields DEF SaveQuarantine, TypeOK, ConservationTypeOK
  <2>7. Return(c) /\ UNCHANGED <<incident, plan>>
    BY <1>10 DEF SaveQuarantine
  <2> QED
    BY <2>4, <2>5, <2>6, <2>7, ReturnType DEF TypeOK, ConservationTypeOK, LendingTypeOK,
                      ExhibitionTypeOK, lendingVars, exhibitionVars
<1>11. ASSUME NEW c \in Caller, UpdatePlan(c)
       PROVE  /\ plan' \in [PlanId -> PlanRow \cup {NoPlan}]
              /\ call' \in [Caller -> CallType]
  <2>1. plan' \in [PlanId -> PlanRow \cup {NoPlan}]
    BY <1>11, PlanOfCall, PosFacts DEF UpdatePlan, TypeOK, ConservationTypeOK, PlanRow
  <2>2. call' \in [Caller -> CallType]
    BY <1>11, ReturnType DEF UpdatePlan, TypeOK
  <2> QED BY <2>1, <2>2
<1>12. ASSUME NEW c \in Caller, UpdateTreatment(c)
       PROVE  TypeOK'
  <2> DEFINE q == plan[call[c].row].quarantine
  <2>1. q \in QuarantineId
    BY <1>12, PlanOfCall DEF UpdateTreatment
  <2>2. quarantine' \in [QuarantineId -> QuarantineRow \cup {NoQuarantine}]
    BY <1>12, <2>1 DEF UpdateTreatment, TypeOK, ConservationTypeOK, QuarantineRow,
                       QuarantineStatus, NoQuarantine
  <2>3. UpdatePlan(c) /\ UNCHANGED <<artifact, incident, occupied>>
    BY <1>12 DEF UpdateTreatment
  <2> QED
    BY <1>11, <2>2, <2>3 DEF TypeOK, ConservationTypeOK, LendingTypeOK,
                             ExhibitionTypeOK, lendingVars, exhibitionVars
<1>13. ASSUME NEW c \in Caller, FinishTreatment(c)
       PROVE  TypeOK'
  <2> DEFINE q == plan[call[c].row].quarantine
             z == quarantine[q].zone
             a == quarantine[q].artifact
  <2>1. /\ q \in QuarantineId /\ z \in ZoneId /\ a \in ArtifactId
        /\ quarantine[q] \in QuarantineRow
        /\ artifact[a] \in ArtifactRow
    BY <1>13, CaseOfCompletion
  <2>2. quarantine' \in [QuarantineId -> QuarantineRow \cup {NoQuarantine}]
    BY <1>13, <2>1 DEF FinishTreatment, TypeOK, ConservationTypeOK, QuarantineRow,
                       QuarantineStatus
  <2>3. occupied' = [occupied EXCEPT ![z] = IF @ > 0 THEN @ - 1 ELSE @]
    BY <1>13 DEF FinishTreatment
  <2>4. occupied' \in [ZoneId -> Nat]
    <3> HIDE DEF z
    <3>1. occupied \in [ZoneId -> Nat]
      BY DEF TypeInv, TypeOK, ConservationTypeOK
    <3>2. (IF occupied[z] > 0 THEN occupied[z] - 1 ELSE occupied[z]) \in Nat
      BY <2>1, <3>1
    <3> QED BY <2>1, <2>3, <3>1, <3>2
  <2>5. Treated(artifact[a]) \in ArtifactRow
    BY <2>1 DEF Treated, ArtifactRow, ArtifactStatus
  <2>6. artifact' \in [ArtifactId -> ArtifactRow \cup {NoArtifact}]
    BY <1>13, <2>1, <2>5, ArtifactUpdate DEF FinishTreatment, TypeOK
  <2>7. UpdatePlan(c) /\ UNCHANGED incident
    BY <1>13 DEF FinishTreatment
  <2> QED
    BY <1>11, <2>2, <2>4, <2>6, <2>7 DEF TypeOK, ConservationTypeOK, LendingTypeOK,
                                         ExhibitionTypeOK, lendingVars, exhibitionVars
<1> QED
  BY <1>1, <1>2, <1>4, <1>5, <1>6, <1>7, <1>8, <1>9, <1>10, <1>12, <1>13
  DEF ConservationNext

-----------------------------------------------------------------------------
(* Steps of lending.                                                       *)

\* Every step of lending keeps the types: a loan is drafted for an artifact
\* that exists, so the artifact a custody event moves exists too.
LEMMA LendingTypes ==
  ASSUME TypeInv, LendingNext, UNCHANGED <<conservationVars, exhibitionVars>>
  PROVE  TypeOK'
<1> USE DEF TypeInv
<1>1. ASSUME NEW c \in Caller, NEW k \in CallType, Load(c, k),
             UNCHANGED <<artifact, incident, lendingVars>>
      PROVE  TypeOK'
  BY <1>1, LoadType DEF TypeOK, ConservationTypeOK, LendingTypeOK,
                        ExhibitionTypeOK, conservationVars, lendingVars, exhibitionVars
<1>2. ASSUME NEW c \in Caller, NEW a \in ArtifactId, CreateLoan(c, a)
      PROVE  TypeOK'
  <2>1. PICK p \in Period : Load(c, [NoCall EXCEPT !.op = "CreateLoan", !.art = a, !.arg = p])
    BY <1>2 DEF CreateLoan
  <2>2. [NoCall EXCEPT !.op = "CreateLoan", !.art = a, !.arg = p] \in CallType
    BY DEF NoCall, CallType, LendingCalls, Calls
  <2> QED
    BY <1>2, <2>1, <2>2, <1>1 DEF CreateLoan
<1>3. ASSUME NEW c \in Caller, CheckCommitments(c)
      PROVE  TypeOK'
  <2>1. call[c] \in CallType /\ call[c].op = "CreateLoan"
    BY <1>3 DEF CheckCommitments, InFlight, TypeOK
  <2>2. call[c] \in Calls("CreateLoan", ArtifactId, {0}, {NoId}, {0}, Period, {FALSE})
    BY <2>1, CallService DEF LendingCalls, Calls
  <2>3. [call[c] EXCEPT !.op = "InsertLoan"] \in CallType
    BY <2>2 DEF CallType, LendingCalls, Calls
  <2>4. call' = [call EXCEPT ![c] = [call[c] EXCEPT !.op = "InsertLoan"]]
        /\ UNCHANGED <<artifact, incident, lendingVars>>
    BY <1>3 DEF CheckCommitments
  <2> QED
    BY <2>3, <2>4 DEF TypeOK, ConservationTypeOK, LendingTypeOK,
                      ExhibitionTypeOK, conservationVars, lendingVars, exhibitionVars
<1>4. ASSUME NEW c \in Caller, NEW l \in LoanId, InsertLoan(c, l)
      PROVE  TypeOK'
  <2>1. call[c] \in CallType /\ call[c].op = "InsertLoan"
    BY <1>4 DEF InsertLoan, InFlight, TypeOK
  <2>2. loan' \in [LoanId -> LoanRow \cup {NoLoan}]
    BY <1>4, <2>1, LendingFields, PosFacts
    DEF InsertLoan, TypeOK, LendingTypeOK, LoanRow, LoanStatus
  <2>3. Return(c) /\ UNCHANGED <<artifact, incident, custody>>
    BY <1>4 DEF InsertLoan
  <2> QED
    BY <2>2, <2>3, ReturnType DEF TypeOK, ConservationTypeOK, LendingTypeOK,
                      ExhibitionTypeOK, conservationVars, exhibitionVars
<1>5. ASSUME NEW c \in Caller, NEW l \in LoanId, Submit(c, l)
      PROVE  TypeOK'
  <2>1. loan[l].version \in Pos
    BY <1>5 DEF Submit, LoanCanTransition, LoanTransitions, TypeOK, LendingTypeOK,
                LoanRow, NoLoan
  <2>2. [NoCall EXCEPT !.op = "Submit", !.row = l, !.rowVer = loan[l].version] \in CallType
    BY <2>1 DEF NoCall, CallType, LendingCalls, Calls
  <2> QED
    BY <1>5, <2>2, <1>1 DEF Submit
<1>6. ASSUME NEW l \in LoanId, loan[l].status # "absent"
      PROVE  /\ loan[l] \in LoanRow
             /\ artifact[loan[l].artifact] \in ArtifactRow
  <2>1. loan[l] \in LoanRow /\ loan[l] # NoLoan
    BY <1>6 DEF TypeOK, LendingTypeOK, NoLoan
  <2> QED
    BY <2>1, RowExists DEF ArtifactsExist, LoanRow
<1>7. ASSUME NEW c \in Caller, NEW l \in LoanId, Approve(c, l)
      PROVE  TypeOK'
  <2>1. loan[l].status # "absent"
    BY <1>7 DEF Approve, LoanCanTransition, LoanTransitions
  <2>2. loan[l].version \in Pos /\ loan[l].artifact \in ArtifactId
        /\ artifact[loan[l].artifact].version \in Pos
    BY <2>1, <1>6 DEF LoanRow, ArtifactRow
  <2>3. [NoCall EXCEPT !.op = "Approve", !.art = loan[l].artifact, !.row = l,
                       !.artVer = artifact[loan[l].artifact].version,
                       !.rowVer = loan[l].version] \in CallType
    BY <2>2 DEF NoCall, CallType, LendingCalls, Calls
  <2> QED
    BY <1>7, <2>3, <1>1 DEF Approve
<1>8. ASSUME NEW c \in Caller, NEW l \in LoanId, NEW kind \in CustodyKind,
             RecordCustody(c, l, kind)
      PROVE  TypeOK'
  <2>1. loan[l].status # "absent"
    BY <1>8 DEF RecordCustody, CustodyFrom, CustodyKind
  <2>2. loan[l].version \in Pos /\ loan[l].artifact \in ArtifactId
        /\ artifact[loan[l].artifact].version \in Pos
    BY <2>1, <1>6 DEF LoanRow, ArtifactRow
  <2>3. [NoCall EXCEPT !.op = "RecordCustody", !.art = loan[l].artifact, !.row = l,
                       !.artVer = artifact[loan[l].artifact].version,
                       !.rowVer = loan[l].version, !.arg = kind] \in CallType
    BY <2>2 DEF NoCall, CallType, LendingCalls, Calls
  <2> QED
    BY <1>8, <2>3, <1>1 DEF RecordCustody
<1>9. ASSUME NEW c \in Caller, call[c].row \in LoanId, call[c].rowVer \in Pos,
             LoanCurrent(call[c].row, call[c].rowVer)
      PROVE  loan[call[c].row] \in LoanRow
  BY <1>9 DEF LoanCurrent, TypeOK, LendingTypeOK, NoLoan, Pos
<1>10. ASSUME NEW c \in Caller, UpdateLoan(c)
       PROVE  TypeOK'
  <2>1. call[c] \in CallType /\ call[c].op = "Submit"
    BY <1>10 DEF UpdateLoan, InFlight, TypeOK
  <2>2. call[c].row \in LoanId /\ loan[call[c].row] \in LoanRow
    BY <1>9, <1>10, <2>1, LendingFields DEF UpdateLoan
  <2>3. loan' \in [LoanId -> LoanRow \cup {NoLoan}]
    BY <1>10, <2>2, PosFacts DEF UpdateLoan, TypeOK, LendingTypeOK, LoanRow, LoanStatus
  <2>4. Return(c) /\ UNCHANGED <<artifact, incident, custody>>
    BY <1>10 DEF UpdateLoan
  <2> QED
    BY <2>3, <2>4, ReturnType DEF TypeOK, ConservationTypeOK, LendingTypeOK,
                      ExhibitionTypeOK, conservationVars, exhibitionVars
<1>11. ASSUME NEW c \in Caller, ApproveLoanAtomically(c)
       PROVE  TypeOK'
  <2> DEFINE k == call[c]
             row == [artifact[k.art] EXCEPT !.activeLoan = k.row]
  <2>1. k \in CallType /\ k.op = "Approve"
    BY <1>11 DEF ApproveLoanAtomically, InFlight, TypeOK
  <2>2. k.row \in LoanId /\ k.art \in ArtifactId
    BY <2>1, LendingFields
  <2>3. loan[k.row] \in LoanRow
    BY <1>9, <1>11, <2>1, LendingFields DEF ApproveLoanAtomically
  <2>4. loan' \in [LoanId -> LoanRow \cup {NoLoan}]
    BY <1>11, <2>2, <2>3, PosFacts
    DEF ApproveLoanAtomically, TypeOK, LendingTypeOK, LoanRow, LoanStatus
  <2>5. artifact[k.art] \in ArtifactRow
    BY <1>11, <2>1, LendingFields, CurrentExists DEF ApproveLoanAtomically
  <2>6. row \in ArtifactRow
    BY <2>2, <2>5 DEF ArtifactRow
  <2>7. artifact' \in [ArtifactId -> ArtifactRow \cup {NoArtifact}]
    BY <1>11, <2>2, <2>6, ArtifactUpdate DEF ApproveLoanAtomically, TypeOK
  <2>8. Return(c) /\ UNCHANGED <<incident, custody>>
    BY <1>11 DEF ApproveLoanAtomically
  <2> QED
    BY <2>4, <2>7, <2>8, ReturnType DEF TypeOK, ConservationTypeOK, LendingTypeOK,
                      ExhibitionTypeOK, conservationVars, exhibitionVars
<1>12. ASSUME NEW c \in Caller, SaveCustody(c)
       PROVE  TypeOK'
  <2> DEFINE k == call[c]
             row == [artifact[k.art] EXCEPT !.status = CustodyArtifactStatus[k.arg],
                                            !.activeLoan = LoanAfter(k.arg, k.row)]
  <2>1. k \in CallType /\ k.op = "RecordCustody"
    BY <1>12 DEF SaveCustody, InFlight, TypeOK
  <2>2. k.row \in LoanId /\ k.art \in ArtifactId /\ k.arg \in CustodyKind
    BY <2>1, LendingFields
  <2>3. loan[k.row] \in LoanRow
    BY <1>9, <1>12, <2>1, LendingFields DEF SaveCustody
  <2>4. loan' \in [LoanId -> LoanRow \cup {NoLoan}]
    BY <1>12, <2>2, <2>3, PosFacts
    DEF SaveCustody, TypeOK, LendingTypeOK, LoanRow, LoanStatus, CustodyKind
  <2>5. artifact[k.art] \in ArtifactRow
    BY <1>12, <2>1, LendingFields, CurrentExists DEF SaveCustody
  <2>6. CustodyArtifactStatus[k.arg] \in ArtifactStatus
    BY <2>2 DEF CustodyArtifactStatus, CustodyKind, ArtifactStatus
  <2>7. row \in ArtifactRow
    BY <2>2, <2>5, <2>6 DEF ArtifactRow, LoanAfter
  <2>8. artifact' \in [ArtifactId -> ArtifactRow \cup {NoArtifact}]
    BY <1>12, <2>2, <2>7, ArtifactUpdate DEF SaveCustody, TypeOK
  <2>9. custody' \in [LoanId -> Seq(CustodyKind)]
    BY <1>12, <2>2 DEF SaveCustody, TypeOK, LendingTypeOK
  <2>10. Return(c) /\ UNCHANGED incident
    BY <1>12 DEF SaveCustody
  <2> QED
    BY <2>4, <2>8, <2>9, <2>10, ReturnType DEF TypeOK, ConservationTypeOK, LendingTypeOK,
                      ExhibitionTypeOK, conservationVars, exhibitionVars
<1> QED
  BY <1>2, <1>3, <1>4, <1>5, <1>7, <1>8, <1>10, <1>11, <1>12 DEF LendingNext

-----------------------------------------------------------------------------
(* Steps of exhibition.                                                    *)

\* Every step of exhibition keeps the types.
LEMMA ExhibitionTypes ==
  ASSUME TypeInv, ExhibitionNext, UNCHANGED <<conservationVars, lendingVars>>
  PROVE  TypeOK'
<1> USE DEF TypeInv
<1>1. ASSUME NEW c \in Caller, NEW k \in CallType, Load(c, k),
             UNCHANGED <<artifact, incident, exhibitionVars>>
      PROVE  TypeOK'
  BY <1>1, LoadType DEF TypeOK, ConservationTypeOK, LendingTypeOK,
                        ExhibitionTypeOK, conservationVars, lendingVars, exhibitionVars
<1>2. ASSUME NEW i \in IncidentId, NEW d \in CaseId, NEW w \in WindowKey,
             OpenIncident(i, d, w)
      PROVE  TypeOK'
  <2>1. [NoIncident EXCEPT !.status = "open", !.version = 1, !.case = d, !.window = w]
          \in IncidentRow
    BY PosFacts DEF NoIncident, IncidentRow, IncidentStatus
  <2>2. incident' \in [IncidentId -> IncidentRow \cup {NoIncident}]
    BY <1>2, <2>1 DEF OpenIncident, TypeOK
  <2>3. outbox' \subseteq IncidentId
    BY <1>2 DEF OpenIncident, TypeOK, ExhibitionTypeOK
  <2>4. UNCHANGED <<artifact, call, displayCase, installation>>
    BY <1>2 DEF OpenIncident
  <2> QED
    BY <2>2, <2>3, <2>4 DEF TypeOK, ConservationTypeOK, LendingTypeOK,
                      ExhibitionTypeOK, conservationVars, lendingVars
<1>3. ASSUME NEW c \in Caller, NEW a \in ArtifactId, NEW d \in CaseId,
             ReserveArtifact(c, a, d)
      PROVE  TypeOK'
  <2>1. [NoCall EXCEPT !.op = "Reserve", !.art = a, !.row = d] \in CallType
    BY DEF NoCall, CallType, ExhibitionCalls, Calls
  <2> QED
    BY <1>3, <2>1, <1>1 DEF ReserveArtifact
<1>4. ASSUME NEW c \in Caller, ReserveCase(c)
      PROVE  TypeOK'
  <2> DEFINE k == call[c]
  <2>1. k \in CallType /\ k.op = "Reserve"
    BY <1>4 DEF ReserveCase, InFlight, TypeOK
  <2>2. k \in Calls("Reserve", ArtifactId, {0}, CaseId, {0}, {NoId}, {FALSE})
    BY <2>1, CallService DEF ExhibitionCalls, Calls
  <2>3. displayCase[k.row].version \in Pos
    BY <2>2 DEF Calls, TypeOK, ExhibitionTypeOK, CaseRow
  <2>4. [k EXCEPT !.op = "ReserveDisplayCase", !.rowVer = displayCase[k.row].version]
          \in CallType
    BY <2>2, <2>3 DEF CallType, ExhibitionCalls, Calls
  <2>5. call' = [call EXCEPT ![c] =
          [k EXCEPT !.op = "ReserveDisplayCase", !.rowVer = displayCase[k.row].version]]
        /\ UNCHANGED <<artifact, incident, exhibitionVars>>
    BY <1>4 DEF ReserveCase
  <2> QED
    BY <2>4, <2>5 DEF TypeOK, ConservationTypeOK, LendingTypeOK,
                      ExhibitionTypeOK, conservationVars, lendingVars, exhibitionVars
<1>5. ASSUME NEW c \in Caller, ReserveDisplayCase(c)
      PROVE  TypeOK'
  <2>1. call[c] \in CallType /\ call[c].op = "ReserveDisplayCase"
    BY <1>5 DEF ReserveDisplayCase, InFlight, TypeOK
  <2>2. displayCase' \in [CaseId -> CaseRow]
    BY <1>5, <2>1, ExhibitionFields, PosFacts
    DEF ReserveDisplayCase, TypeOK, ExhibitionTypeOK, CaseRow, CaseStatus
  <2>3. Return(c) /\ UNCHANGED <<artifact, incident, installation, outbox>>
    BY <1>5 DEF ReserveDisplayCase
  <2> QED
    BY <2>2, <2>3, ReturnType DEF TypeOK, ConservationTypeOK, LendingTypeOK,
                      ExhibitionTypeOK, conservationVars, lendingVars
<1>6. ASSUME NEW c \in Caller, NEW a \in ArtifactId, NEW d \in CaseId,
             NEW complete \in BOOLEAN, Activate(c, a, d, complete)
      PROVE  TypeOK'
  <2>1. artifact[a].version \in Pos /\ displayCase[d].version \in Pos
    BY <1>6, RowExists DEF Activate, ArtifactRow, TypeOK, ExhibitionTypeOK, CaseRow
  <2>2. [NoCall EXCEPT !.op = "Activate", !.art = a, !.row = d, !.flag = complete,
                       !.artVer = artifact[a].version,
                       !.rowVer = displayCase[d].version] \in CallType
    BY <2>1 DEF NoCall, CallType, ExhibitionCalls, Calls
  <2> QED
    BY <1>6, <2>2, <1>1 DEF Activate
<1>7. ASSUME NEW c \in Caller, ActivateInstallation(c)
      PROVE  TypeOK'
  <2> DEFINE k == call[c]
             row == [artifact[k.art] EXCEPT !.status = "on_display", !.currentCase = k.row]
  <2>1. k \in CallType /\ k.op = "Activate"
    BY <1>7 DEF ActivateInstallation, InFlight, TypeOK
  <2>2. k.row \in CaseId /\ k.art \in ArtifactId /\ k.flag \in BOOLEAN
    BY <2>1, ExhibitionFields
  <2>3. displayCase' \in [CaseId -> CaseRow]
    BY <1>7, <2>2, PosFacts
    DEF ActivateInstallation, TypeOK, ExhibitionTypeOK, CaseRow, CaseStatus
  <2>4. artifact[k.art] \in ArtifactRow
    BY <1>7, <2>1, ExhibitionFields, CurrentExists DEF ActivateInstallation
  <2>5. row \in ArtifactRow
    BY <2>2, <2>4 DEF ArtifactRow, ArtifactStatus
  <2>6. artifact' \in [ArtifactId -> ArtifactRow \cup {NoArtifact}]
    BY <1>7, <2>2, <2>5, ArtifactUpdate DEF ActivateInstallation, TypeOK
  <2>7. installation' \subseteq [artifact : ArtifactId, case : CaseId, complete : BOOLEAN]
    BY <1>7, <2>2 DEF ActivateInstallation, TypeOK, ExhibitionTypeOK
  <2>8. Return(c) /\ UNCHANGED <<incident, outbox>>
    BY <1>7 DEF ActivateInstallation
  <2> QED
    BY <2>3, <2>6, <2>7, <2>8, ReturnType DEF TypeOK, ConservationTypeOK, LendingTypeOK,
                      ExhibitionTypeOK, conservationVars, lendingVars
<1>8. ASSUME NEW c \in Caller, NEW i \in IncidentId, NEW to \in IncidentStatus,
             NEW r \in BOOLEAN, AdvanceIncident(c, i, to, r)
      PROVE  TypeOK'
  <2>1. incident[i].version \in Pos
    BY <1>8 DEF AdvanceIncident, IncidentCanTransition, IncidentTransitions, TypeOK,
                IncidentRow, NoIncident
  <2>2. [NoCall EXCEPT !.op = "AdvanceIncident", !.row = i, !.arg = to,
                       !.rowVer = incident[i].version, !.flag = r] \in CallType
    BY <2>1 DEF NoCall, CallType, ExhibitionCalls, Calls
  <2> QED
    BY <1>8, <2>2, <1>1 DEF AdvanceIncident
<1>9. ASSUME NEW c \in Caller, UpdateIncident(c)
      PROVE  TypeOK'
  <2> DEFINE k == call[c]
             d == incident[k.row].case
  <2>1. k \in CallType /\ k.op = "AdvanceIncident"
    BY <1>9 DEF UpdateIncident, InFlight, TypeOK
  <2>2. k.row \in IncidentId /\ k.rowVer \in Pos /\ k.arg \in IncidentStatus
        /\ k.flag \in BOOLEAN
    BY <2>1, ExhibitionFields
  <2>3. incident[k.row] \in IncidentRow
    <3>1. incident[k.row].version = k.rowVer
      BY <1>9 DEF UpdateIncident, IncidentCurrent
    <3>2. incident[k.row] # NoIncident
      BY <2>2, <3>1, PosFacts DEF NoIncident
    <3> QED BY <2>2, <3>2 DEF TypeOK
  <2>4. incident' \in [IncidentId -> IncidentRow \cup {NoIncident}]
    BY <1>9, <2>2, <2>3, PosFacts DEF UpdateIncident, TypeOK, IncidentRow
  <2>5. d \in CaseId /\ CaseAfter(k.arg) \in CaseStatus
    BY <2>3 DEF IncidentRow, CaseAfter, CaseStatus
  <2>6. displayCase' = IF displayCase[d].status \in {"active", "incident"}
          THEN [displayCase EXCEPT ![d].status = CaseAfter(k.arg), ![d].version = @ + 1]
          ELSE displayCase
    BY <1>9 DEF UpdateIncident
  <2>7. displayCase' \in [CaseId -> CaseRow]
    BY <2>5, <2>6, PosFacts DEF TypeOK, ExhibitionTypeOK, CaseRow
  <2>8. Return(c) /\ UNCHANGED <<artifact, installation, outbox>>
    BY <1>9 DEF UpdateIncident
  <2> QED
    BY <2>4, <2>7, <2>8, ReturnType DEF TypeOK, ConservationTypeOK, LendingTypeOK,
                      ExhibitionTypeOK, conservationVars, lendingVars
<1> QED
  BY <1>2, <1>3, <1>4, <1>5, <1>6, <1>7, <1>8, <1>9 DEF ExhibitionNext

-----------------------------------------------------------------------------
(* Versions: what optimistic locking rests on.                             *)

\* One way an artifact row may change: a row with the next version.
Bumped(a) ==
  /\ artifact'[a] \in ArtifactRow
  /\ artifact'[a].version = artifact[a].version + 1

LEMMA UpdateBumps ==
  ASSUME TypeOK, NEW b \in ArtifactId, NEW row \in ArtifactRow,
         row.version = artifact[b].version, UpdateArtifact(b, row)
  PROVE  \A a \in ArtifactId : artifact'[a] = artifact[a] \/ Bumped(a)
<1>1. /\ artifact'[b] = [row EXCEPT !.version = @ + 1]
      /\ artifact'[b] \in ArtifactRow
      /\ \A a \in ArtifactId \ {b} : artifact'[a] = artifact[a]
  BY ArtifactUpdate DEF TypeOK
<1>2. artifact'[b].version = artifact[b].version + 1
  BY <1>1 DEF ArtifactRow
<1> QED BY <1>1, <1>2 DEF Bumped

\* No operation of any service changes an artifact row without moving its
\* version to the next one.
LEMMA ArtifactVersions ==
  ASSUME TypeInv, Next
  PROVE  \A a \in ArtifactId : artifact'[a] = artifact[a] \/ Bumped(a)
<1> DEFINE Goal == \A a \in ArtifactId : artifact'[a] = artifact[a] \/ Bumped(a)
<1> SUFFICES Goal
  OBVIOUS
<1>1. ASSUME UNCHANGED artifact PROVE Goal
  BY <1>1
<1> HIDE DEF Goal
<1>2. ASSUME NEW c \in Caller, NEW b, b = call[c].art, NEW v, v = call[c].artVer,
             b \in ArtifactId, v \in Pos, Current(b, v),
             NEW row, UpdateArtifact(b, row),
             artifact[b] \in ArtifactRow => row \in ArtifactRow /\ row.version = artifact[b].version
      PROVE  Goal
  <2>1. artifact[b] \in ArtifactRow
    BY <1>2, CurrentExists DEF TypeInv
  <2> QED BY <1>2, <2>1, UpdateBumps DEF TypeInv, Goal
<1>3. ASSUME NEW b \in ArtifactId, Register(b)
      PROVE  Goal
  <2>1. PICK v \in Verdict : artifact' = [artifact EXCEPT ![b] =
           [NoArtifact EXCEPT !.status = "registered", !.version = 1, !.lastReport = v]]
    BY <1>3 DEF Register
  <2>2. [NoArtifact EXCEPT !.status = "registered", !.version = 1, !.lastReport = v]
          \in ArtifactRow
    BY PosFacts DEF NoArtifact, ArtifactRow, ArtifactStatus
  <2>3. artifact[b].version = 0
    BY <1>3 DEF Register, NoArtifact
  <2>4. artifact'[b] \in ArtifactRow /\ artifact'[b].version = 1
        /\ \A a \in ArtifactId \ {b} : artifact'[a] = artifact[a]
    BY <2>1, <2>2 DEF TypeInv, TypeOK, NoArtifact
  <2> QED BY <2>3, <2>4 DEF Goal, Bumped
<1>4. ASSUME NEW c \in Caller, SaveConditionReport(c)
      PROVE  Goal
  <2> DEFINE row == [artifact[call[c].art] EXCEPT !.status = "assessment",
                                                  !.lastReport = call[c].arg]
  <2>1. call[c] \in CallType /\ call[c].op = "RecordCondition"
    BY <1>4 DEF SaveConditionReport, InFlight, TypeInv, TypeOK
  <2>2. call[c].art \in ArtifactId /\ call[c].artVer \in Pos /\ call[c].arg \in Verdict
    BY <2>1, ConservationFields
  <2>3. artifact[call[c].art] \in ArtifactRow =>
          row \in ArtifactRow /\ row.version = artifact[call[c].art].version
    BY <2>2 DEF ArtifactRow, ArtifactStatus
  <2> HIDE DEF row
  <2> QED BY <1>2, <1>4, <2>2, <2>3 DEF SaveConditionReport, row
<1>5. ASSUME NEW c \in Caller, UpdateArtifactStatus(c)
      PROVE  Goal
  <2> DEFINE row == [artifact[call[c].art] EXCEPT !.status = "ready"]
  <2>1. call[c] \in CallType /\ call[c].op = "ReleaseAssessment"
    BY <1>5 DEF UpdateArtifactStatus, InFlight, TypeInv, TypeOK
  <2>2. call[c].art \in ArtifactId /\ call[c].artVer \in Pos
    BY <2>1, ConservationFields
  <2>3. artifact[call[c].art] \in ArtifactRow =>
          row \in ArtifactRow /\ row.version = artifact[call[c].art].version
    BY <2>2 DEF ArtifactRow, ArtifactStatus
  <2> HIDE DEF row
  <2> QED BY <1>2, <1>5, <2>2, <2>3 DEF UpdateArtifactStatus, row
<1>6. ASSUME NEW c \in Caller, NEW q \in QuarantineId, SaveQuarantine(c, q)
      PROVE  Goal
  <2> DEFINE row == [artifact[call[c].art] EXCEPT !.status = "quarantined", !.currentCase = q]
  <2>1. call[c] \in CallType /\ call[c].op = "OpenQuarantine"
    BY <1>6 DEF SaveQuarantine, InFlight, TypeInv, TypeOK
  <2>2. call[c].art \in ArtifactId /\ call[c].artVer \in Pos
    BY <2>1, ConservationFields
  <2>3. artifact[call[c].art] \in ArtifactRow =>
          row \in ArtifactRow /\ row.version = artifact[call[c].art].version
    BY <2>2 DEF ArtifactRow, ArtifactStatus
  <2> HIDE DEF row
  <2> QED BY <1>2, <1>6, <2>2, <2>3 DEF SaveQuarantine, row
<1>7. ASSUME NEW c \in Caller, ApproveLoanAtomically(c)
      PROVE  Goal
  <2> DEFINE row == [artifact[call[c].art] EXCEPT !.activeLoan = call[c].row]
  <2>1. call[c] \in CallType /\ call[c].op = "Approve"
    BY <1>7 DEF ApproveLoanAtomically, InFlight, TypeInv, TypeOK
  <2>2. call[c].art \in ArtifactId /\ call[c].artVer \in Pos /\ call[c].row \in LoanId
    BY <2>1, LendingFields
  <2>3. artifact[call[c].art] \in ArtifactRow =>
          row \in ArtifactRow /\ row.version = artifact[call[c].art].version
    BY <2>2 DEF ArtifactRow, ArtifactStatus
  <2> HIDE DEF row
  <2> QED BY <1>2, <1>7, <2>2, <2>3 DEF ApproveLoanAtomically, row
<1>8. ASSUME NEW c \in Caller, SaveCustody(c)
      PROVE  Goal
  <2> DEFINE row == [artifact[call[c].art] EXCEPT
               !.status = CustodyArtifactStatus[call[c].arg],
               !.activeLoan = LoanAfter(call[c].arg, call[c].row)]
  <2>1. call[c] \in CallType /\ call[c].op = "RecordCustody"
    BY <1>8 DEF SaveCustody, InFlight, TypeInv, TypeOK
  <2>2. call[c].art \in ArtifactId /\ call[c].artVer \in Pos
        /\ call[c].row \in LoanId /\ call[c].arg \in CustodyKind
    BY <2>1, LendingFields
  <2>4. CustodyArtifactStatus[call[c].arg] \in ArtifactStatus
    BY <2>2 DEF CustodyKind, CustodyArtifactStatus, ArtifactStatus
  <2>3. artifact[call[c].art] \in ArtifactRow =>
          row \in ArtifactRow /\ row.version = artifact[call[c].art].version
    BY <2>2, <2>4 DEF ArtifactRow, LoanAfter
  <2> HIDE DEF row
  <2> QED BY <1>2, <1>8, <2>2, <2>3 DEF SaveCustody, row
<1>9. ASSUME NEW c \in Caller, ActivateInstallation(c)
      PROVE  Goal
  <2> DEFINE row == [artifact[call[c].art] EXCEPT !.status = "on_display",
                                                  !.currentCase = call[c].row]
  <2>1. call[c] \in CallType /\ call[c].op = "Activate"
    BY <1>9 DEF ActivateInstallation, InFlight, TypeInv, TypeOK
  <2>2. call[c].art \in ArtifactId /\ call[c].artVer \in Pos /\ call[c].row \in CaseId
    BY <2>1, ExhibitionFields
  <2>3. artifact[call[c].art] \in ArtifactRow =>
          row \in ArtifactRow /\ row.version = artifact[call[c].art].version
    BY <2>2 DEF ArtifactRow, ArtifactStatus
  <2> HIDE DEF row
  <2> QED BY <1>2, <1>9, <2>2, <2>3 DEF ActivateInstallation, row
<1>10. ASSUME NEW c \in Caller, FinishTreatment(c)
       PROVE  Goal
  <2> DEFINE a == quarantine[plan[call[c].row].quarantine].artifact
  <2>1. a \in ArtifactId /\ artifact[a] \in ArtifactRow
    BY <1>10, CaseOfCompletion DEF TypeInv
  <2>2. UpdateArtifact(a, Treated(artifact[a]))
    BY <1>10 DEF FinishTreatment
  <2>3. Treated(artifact[a]) \in ArtifactRow /\ Treated(artifact[a]).version = artifact[a].version
    BY <2>1 DEF Treated, ArtifactRow, ArtifactStatus
  <2> QED BY <2>1, <2>2, <2>3, UpdateBumps DEF TypeInv, Goal
<1>11. CASE ConservationNext
  <2>1. ASSUME NEW p \in PlanId, NEW q \in QuarantineId, DraftTreatment(p, q) PROVE Goal
    BY <1>1, <2>1 DEF DraftTreatment
  <2>2. ASSUME NEW c \in Caller, NEW a \in ArtifactId,
               RecordCondition(c, a) \/ ReleaseAssessment(c, a)
        PROVE  Goal
    BY <1>1, <2>2 DEF RecordCondition, ReleaseAssessment
  <2>3. ASSUME NEW c \in Caller, NEW a \in ArtifactId, NEW z \in ZoneId, OpenQuarantine(c, a, z)
        PROVE  Goal
    BY <1>1, <2>3 DEF OpenQuarantine
  <2>4. ASSUME NEW c \in Caller, NEW p \in PlanId, NEW to \in TreatmentStatus,
               AdvanceTreatment(c, p, to)
        PROVE  Goal
    BY <1>1, <2>4 DEF AdvanceTreatment
  <2>5. ASSUME NEW c \in Caller, UpdateTreatment(c) PROVE Goal
    BY <1>1, <2>5 DEF UpdateTreatment
  <2> QED
    BY <1>3, <1>4, <1>5, <1>6, <1>10, <1>11, <2>1, <2>2, <2>3, <2>4, <2>5 DEF ConservationNext
<1>12. CASE LendingNext
  <2>1. ASSUME NEW c \in Caller, NEW a \in ArtifactId, CreateLoan(c, a) PROVE Goal
    BY <1>1, <2>1 DEF CreateLoan
  <2>2. ASSUME NEW c \in Caller, NEW l \in LoanId,
               InsertLoan(c, l) \/ Submit(c, l) \/ Approve(c, l)
        PROVE  Goal
    BY <1>1, <2>2 DEF InsertLoan, Submit, Approve
  <2>3. ASSUME NEW c \in Caller, NEW l \in LoanId, NEW kind \in CustodyKind,
               RecordCustody(c, l, kind)
        PROVE  Goal
    BY <1>1, <2>3 DEF RecordCustody
  <2>4. ASSUME NEW c \in Caller, CheckCommitments(c) \/ UpdateLoan(c) PROVE Goal
    BY <1>1, <2>4 DEF CheckCommitments, UpdateLoan
  <2> QED
    BY <1>7, <1>8, <1>12, <2>1, <2>2, <2>3, <2>4 DEF LendingNext
<1>13. CASE ExhibitionNext
  <2>1. ASSUME NEW i \in IncidentId, NEW d \in CaseId, NEW w \in WindowKey, OpenIncident(i, d, w)
        PROVE  Goal
    BY <1>1, <2>1 DEF OpenIncident
  <2>2. ASSUME NEW c \in Caller, NEW a \in ArtifactId, NEW d \in CaseId, ReserveArtifact(c, a, d)
        PROVE  Goal
    BY <1>1, <2>2 DEF ReserveArtifact
  <2>3. ASSUME NEW c \in Caller, NEW a \in ArtifactId, NEW d \in CaseId,
               NEW complete \in BOOLEAN, Activate(c, a, d, complete)
        PROVE  Goal
    BY <1>1, <2>3 DEF Activate
  <2>4. ASSUME NEW c \in Caller, NEW i \in IncidentId, NEW to \in IncidentStatus,
               NEW r \in BOOLEAN, AdvanceIncident(c, i, to, r)
        PROVE  Goal
    BY <1>1, <2>4 DEF AdvanceIncident
  <2>5. ASSUME NEW c \in Caller, ReserveCase(c) \/ ReserveDisplayCase(c) \/ UpdateIncident(c)
        PROVE  Goal
    BY <1>1, <2>5 DEF ReserveCase, ReserveDisplayCase, UpdateIncident
  <2> QED
    BY <1>9, <1>13, <2>1, <2>2, <2>3, <2>4, <2>5 DEF ExhibitionNext
<1>14. CASE Fail
  BY <1>1, <1>14 DEF Fail, FailCall
<1> QED BY <1>11, <1>12, <1>13, <1>14 DEF Next

\* The only changes of a loan: an InsertLoan drafts it for the artifact of its
\* call, or its version moves while its artifact and period stay.
LEMMA LoanVersions ==
  ASSUME TypeInv, Next
  PROVE  \A l \in LoanId :
           \/ loan'[l] = loan[l]
           \/ /\ loan[l] = NoLoan
              /\ loan'[l].status = "draft" /\ loan'[l].version = 1
              /\ \E c \in Caller : InFlight(c, "InsertLoan") /\ loan'[l].artifact = call[c].art
           \/ /\ loan[l] \in LoanRow
              /\ loan'[l].version = loan[l].version + 1
              /\ loan'[l].artifact = loan[l].artifact /\ loan'[l].period = loan[l].period
<1> DEFINE Goal == \A l \in LoanId :
           \/ loan'[l] = loan[l]
           \/ /\ loan[l] = NoLoan
              /\ loan'[l].status = "draft" /\ loan'[l].version = 1
              /\ \E c \in Caller : InFlight(c, "InsertLoan") /\ loan'[l].artifact = call[c].art
           \/ /\ loan[l] \in LoanRow
              /\ loan'[l].version = loan[l].version + 1
              /\ loan'[l].artifact = loan[l].artifact /\ loan'[l].period = loan[l].period
<1> SUFFICES Goal
  OBVIOUS
<1>1. ASSUME UNCHANGED loan PROVE Goal
  BY <1>1
<1>2. ASSUME NEW c \in Caller, NEW m \in LoanId, InsertLoan(c, m) PROVE Goal
  BY <1>2 DEF InsertLoan, TypeInv, TypeOK, LendingTypeOK
<1>3. ASSUME NEW m \in LoanId, NEW s, loan[m] \in LoanRow,
             loan' = [loan EXCEPT ![m].status = s, ![m].version = @ + 1]
      PROVE  Goal
  BY <1>3 DEF TypeInv, TypeOK, LendingTypeOK, LoanRow
<1>4. ASSUME NEW c \in Caller, UpdateLoan(c) \/ ApproveLoanAtomically(c) \/ SaveCustody(c)
      PROVE  Goal
  <2>1. call[c] \in CallType /\ call[c].op \in {"Submit", "Approve", "RecordCustody"}
    BY <1>4 DEF UpdateLoan, ApproveLoanAtomically, SaveCustody, InFlight, TypeInv, TypeOK
  <2>2. call[c].row \in LoanId /\ call[c].rowVer \in Pos
    BY <2>1, LendingFields
  <2>3. LoanCurrent(call[c].row, call[c].rowVer)
    BY <1>4 DEF UpdateLoan, ApproveLoanAtomically, SaveCustody
  <2>4. loan[call[c].row] \in LoanRow
    BY <2>2, <2>3 DEF LoanCurrent, TypeInv, TypeOK, LendingTypeOK, NoLoan, Pos
  <2>5. CASE UpdateLoan(c)
    BY <1>3, <2>2, <2>4, <2>5 DEF UpdateLoan
  <2>6. CASE ApproveLoanAtomically(c)
    BY <1>3, <2>2, <2>4, <2>6 DEF ApproveLoanAtomically
  <2>7. CASE SaveCustody(c)
    BY <1>3, <2>2, <2>4, <2>7 DEF SaveCustody
  <2> QED BY <1>4, <2>5, <2>6, <2>7
<1> HIDE DEF Goal
<1>5. CASE LendingNext
  <2>1. ASSUME NEW c \in Caller, NEW a \in ArtifactId, CreateLoan(c, a) PROVE Goal
    BY <1>1, <2>1 DEF CreateLoan, lendingVars
  <2>2. ASSUME NEW c \in Caller, NEW l \in LoanId, Submit(c, l) \/ Approve(c, l) PROVE Goal
    BY <1>1, <2>2 DEF Submit, Approve, lendingVars
  <2>3. ASSUME NEW c \in Caller, NEW l \in LoanId, NEW kind \in CustodyKind,
               RecordCustody(c, l, kind)
        PROVE  Goal
    BY <1>1, <2>3 DEF RecordCustody, lendingVars
  <2>4. ASSUME NEW c \in Caller, CheckCommitments(c) PROVE Goal
    BY <1>1, <2>4 DEF CheckCommitments, lendingVars
  <2> QED
    BY <1>2, <1>4, <1>5, <2>1, <2>2, <2>3, <2>4 DEF LendingNext
<1>6. CASE UNCHANGED lendingVars
  BY <1>1, <1>6 DEF lendingVars
<1> QED BY <1>5, <1>6 DEF Next, Fail

-----------------------------------------------------------------------------
(* Calls: what is true of a call at the moment it was loaded.              *)

\* The rows k names exist and its snapshots of them hold.
Sees(k) ==
  /\ k.art # NoId => k.art \in ArtifactId /\ artifact[k.art] # NoArtifact
  /\ ArtifactSnapshot(k)
  /\ LoanSnapshot(k)

\* A step leaves a call alone, ends it, or loads it from rows it does not
\* change.
LEMMA CallStep ==
  ASSUME TypeInv, Next
  PROVE  \A c \in Caller :
           \/ call'[c] = call[c]
           \/ call'[c] = NoCall
           \/ UNCHANGED <<artifact, loan>> /\ Sees(call'[c])
<1> DEFINE Goal == \A c \in Caller :
           \/ call'[c] = call[c]
           \/ call'[c] = NoCall
           \/ UNCHANGED <<artifact, loan>> /\ Sees(call'[c])
<1> SUFFICES Goal
  OBVIOUS
<1>1. ASSUME UNCHANGED call PROVE Goal
  BY <1>1
<1>2. ASSUME NEW c \in Caller, Return(c) PROVE Goal
  BY <1>2 DEF Return, TypeInv, TypeOK
<1>3. ASSUME NEW c \in Caller, NEW k, call' = [call EXCEPT ![c] = k],
             UNCHANGED <<artifact, loan>>, Sees(k)
      PROVE  Goal
  <2>1. \A d \in Caller : call'[d] = call[d] \/ call'[d] = k
    BY <1>3 DEF TypeInv, TypeOK
  <2> QED BY <1>3, <2>1
<1> HIDE DEF Goal
\* An artifact read by a call that reads nothing else that matters here.
<1>4. ASSUME NEW k, NEW a \in ArtifactId, k.art = a, artifact[a] \in ArtifactRow,
             k.artVer = 0 \/ k.artVer = artifact[a].version,
             k.artVer # 0 =>
               /\ k.op = "RecordCondition" => artifact[a].status \notin {"archived", "on_loan"}
               /\ k.op = "ReleaseAssessment" => artifact[a].status = "assessment"
                                                /\ artifact[a].lastReport = "clears"
               /\ k.op = "Activate" => artifact[a].status = "ready",
             k.op \notin {"Submit", "Approve", "RecordCustody"} \/ LoanSnapshot(k)
      PROVE  Sees(k)
  <2>1. artifact[a].version \in Pos
    BY <1>4 DEF ArtifactRow
  <2>2. k.artVer <= artifact[a].version /\ (k.artVer = artifact[a].version => k.artVer # 0)
    BY <1>4, <2>1 DEF Pos
  <2>3. ArtifactSnapshot(k)
    BY <1>4, <2>2 DEF ArtifactSnapshot
  <2>4. LoanSnapshot(k)
    BY <1>4 DEF LoanSnapshot
  <2> QED BY <1>4, <2>3, <2>4, RowExists DEF Sees, TypeInv
<1>5. ASSUME NEW c \in Caller, NEW a \in ArtifactId, RecordCondition(c, a), UNCHANGED loan
      PROVE  Goal
  <2>0. PICK v \in Verdict : Load(c, [NoCall EXCEPT !.op = "RecordCondition", !.art = a,
                              !.artVer = artifact[a].version, !.arg = v])
    BY <1>5 DEF RecordCondition
  <2> DEFINE k == [NoCall EXCEPT !.op = "RecordCondition", !.art = a,
                                 !.artVer = artifact[a].version, !.arg = v]
  <2>1. call' = [call EXCEPT ![c] = k] /\ UNCHANGED <<artifact, loan>>
    BY <1>5, <2>0 DEF RecordCondition, Load, lendingVars
  <2>2. k.op = "RecordCondition" /\ k.art = a /\ k.artVer = artifact[a].version
    BY DEF NoCall
  <2>3. artifact[a] \in ArtifactRow /\ artifact[a].status \notin {"archived", "on_loan"}
    BY <1>5, RowExists DEF RecordCondition, TypeInv
  <2> HIDE DEF k
  <2>4. Sees(k)
    BY <1>4, <2>2, <2>3
  <2> QED BY <1>3, <2>1, <2>4
<1>6. ASSUME NEW c \in Caller, NEW a \in ArtifactId, ReleaseAssessment(c, a), UNCHANGED loan
      PROVE  Goal
  <2> DEFINE k == [NoCall EXCEPT !.op = "ReleaseAssessment", !.art = a,
                                 !.artVer = artifact[a].version]
  <2>1. call' = [call EXCEPT ![c] = k] /\ UNCHANGED <<artifact, loan>>
    BY <1>6 DEF ReleaseAssessment, Load, lendingVars
  <2>2. k.op = "ReleaseAssessment" /\ k.art = a /\ k.artVer = artifact[a].version
    BY DEF NoCall
  <2>3. artifact[a] \in ArtifactRow /\ artifact[a].status = "assessment"
        /\ artifact[a].lastReport = "clears"
    BY <1>6, RowExists DEF ReleaseAssessment, TypeInv
  <2> HIDE DEF k
  <2>4. Sees(k)
    BY <1>4, <2>2, <2>3
  <2> QED BY <1>3, <2>1, <2>4
<1>7. ASSUME NEW c \in Caller, NEW a \in ArtifactId, NEW z \in ZoneId, OpenQuarantine(c, a, z), UNCHANGED loan
      PROVE  Goal
  <2> DEFINE k == [NoCall EXCEPT !.op = "OpenQuarantine", !.art = a,
                                 !.artVer = artifact[a].version, !.arg = z]
  <2>1. call' = [call EXCEPT ![c] = k] /\ UNCHANGED <<artifact, loan>>
    BY <1>7 DEF OpenQuarantine, Load, lendingVars
  <2>2. k.op = "OpenQuarantine" /\ k.art = a /\ k.artVer = artifact[a].version
    BY DEF NoCall
  <2>3. artifact[a] \in ArtifactRow
    BY <1>7, RowExists DEF OpenQuarantine, CanTransition, ArtifactTransitions, TypeInv
  <2> HIDE DEF k
  <2>4. Sees(k)
    BY <1>4, <2>2, <2>3
  <2> QED BY <1>3, <2>1, <2>4
<1>8. ASSUME NEW k, k.art = NoId, k.op \notin {"Submit", "Approve", "RecordCustody"} \/ LoanSnapshot(k)
      PROVE  Sees(k)
  BY <1>8 DEF Sees, ArtifactSnapshot, LoanSnapshot
<1>9. ASSUME NEW c \in Caller, NEW p \in PlanId, NEW to \in TreatmentStatus,
             AdvanceTreatment(c, p, to), UNCHANGED loan
      PROVE  Goal
  <2> DEFINE k == [NoCall EXCEPT !.op = "AdvanceTreatment", !.row = p,
                                 !.rowVer = plan[p].version, !.arg = to]
  <2>1. call' = [call EXCEPT ![c] = k] /\ UNCHANGED <<artifact, loan>>
    BY <1>9 DEF AdvanceTreatment, Load, lendingVars
  <2>2. k.op = "AdvanceTreatment" /\ k.art = NoId
    BY DEF NoCall
  <2> HIDE DEF k
  <2>4. Sees(k)
    BY <1>8, <2>2
  <2> QED BY <1>3, <2>1, <2>4
<1>10. CASE ConservationNext /\ UNCHANGED <<lendingVars, exhibitionVars>>
  <2>1. UNCHANGED loan
    BY <1>10 DEF lendingVars
  <2>2. ASSUME NEW a \in ArtifactId, Register(a) PROVE Goal
    BY <1>1, <2>2 DEF Register
  <2>3. ASSUME NEW p \in PlanId, NEW q \in QuarantineId, DraftTreatment(p, q) PROVE Goal
    BY <1>1, <2>3 DEF DraftTreatment
  <2>4. ASSUME NEW c \in Caller, NEW q \in QuarantineId, SaveQuarantine(c, q) PROVE Goal
    BY <1>2, <2>4 DEF SaveQuarantine
  <2>5. ASSUME NEW c \in Caller,
               \/ SaveConditionReport(c) \/ UpdateArtifactStatus(c)
               \/ UpdateTreatment(c) \/ FinishTreatment(c)
        PROVE  Goal
    BY <1>2, <2>5 DEF SaveConditionReport, UpdateArtifactStatus, UpdateTreatment,
                      FinishTreatment, UpdatePlan
  <2> QED
    BY <1>5, <1>6, <1>7, <1>9, <1>10, <2>1, <2>2, <2>3, <2>4, <2>5 DEF ConservationNext
<1>11. ASSUME NEW c \in Caller, NEW a \in ArtifactId, CreateLoan(c, a)
      PROVE  Goal
  <2>0. PICK p \in Period : Load(c, [NoCall EXCEPT !.op = "CreateLoan", !.art = a, !.arg = p])
    BY <1>11 DEF CreateLoan
  <2> DEFINE k == [NoCall EXCEPT !.op = "CreateLoan", !.art = a, !.arg = p]
  <2>1. call' = [call EXCEPT ![c] = k] /\ UNCHANGED <<artifact, loan>>
    BY <1>11, <2>0 DEF CreateLoan, Load, lendingVars
  <2>2. k.op = "CreateLoan" /\ k.art = a /\ k.artVer = 0
    BY DEF NoCall
  <2>3. artifact[a] \in ArtifactRow
    BY <1>11, RowExists DEF CreateLoan, TypeInv
  <2> HIDE DEF k
  <2>4. Sees(k)
    BY <1>4, <2>2, <2>3
  <2> QED BY <1>3, <2>1, <2>4
<1>12. ASSUME NEW c \in Caller, CheckCommitments(c) PROVE Goal
  <2> DEFINE k == [call[c] EXCEPT !.op = "InsertLoan"]
  <2>1. call' = [call EXCEPT ![c] = k] /\ UNCHANGED <<artifact, loan>>
    BY <1>12 DEF CheckCommitments, lendingVars
  <2>2. call[c] \in CallType /\ call[c].op = "CreateLoan"
    BY <1>12 DEF CheckCommitments, InFlight, TypeInv, TypeOK
  <2>3. call[c] \in Calls("CreateLoan", ArtifactId, {0}, {NoId}, {0}, Period, {FALSE})
    BY <2>2, CallService DEF LendingCalls, Calls
  <2>4. k.op = "InsertLoan" /\ k.art = call[c].art /\ k.art \in ArtifactId /\ k.artVer = 0
    BY <2>3 DEF Calls
  <2>5. artifact[k.art] \in ArtifactRow
    BY <2>4, RowExists, CollectionAssumption DEF TypeInv, ArtifactsExist
  <2> HIDE DEF k
  <2>6. Sees(k)
    BY <1>4, <2>4, <2>5
  <2> QED BY <1>3, <2>1, <2>6
\* A loan read together with its artifact.
<1>13. ASSUME NEW k, NEW l \in LoanId, k.row = l, loan[l] \in LoanRow, k.rowVer = loan[l].version,
              k.op # "Submit" => k.art = loan[l].artifact,
              k.op = "Submit" => loan[l].status = "draft",
              k.op = "Approve" => loan[l].status = "submitted",
              k.op = "RecordCustody" => loan[l].status = CustodyFrom[k.arg]
       PROVE  LoanSnapshot(k) /\ loan[l].artifact \in ArtifactId
              /\ artifact[loan[l].artifact] \in ArtifactRow
  <2>1. loan[l].version \in Pos /\ loan[l].artifact \in ArtifactId /\ loan[l] # NoLoan
    BY <1>13, PosFacts DEF LoanRow, NoLoan
  <2>2. loan[l].version <= loan[l].version
    BY <2>1 DEF Pos
  <2> QED BY <1>13, <2>1, <2>2, RowExists DEF LoanSnapshot, TypeInv, ArtifactsExist
<1>14. ASSUME NEW c \in Caller, NEW l \in LoanId, Submit(c, l) PROVE Goal
  <2> DEFINE k == [NoCall EXCEPT !.op = "Submit", !.row = l, !.rowVer = loan[l].version]
  <2>1. call' = [call EXCEPT ![c] = k] /\ UNCHANGED <<artifact, loan>>
    BY <1>14 DEF Submit, Load, lendingVars
  <2>2. k.op = "Submit" /\ k.art = NoId /\ k.row = l /\ k.rowVer = loan[l].version
    BY DEF NoCall
  <2>3. loan[l].status = "draft" /\ loan[l] \in LoanRow
    BY <1>14 DEF Submit, LoanCanTransition, LoanTransitions, TypeInv, TypeOK, LendingTypeOK, NoLoan
  <2> HIDE DEF k
  <2>4. Sees(k)
    BY <1>8, <1>13, <2>2, <2>3
  <2> QED BY <1>3, <2>1, <2>4
<1>15. ASSUME NEW c \in Caller, NEW l \in LoanId, Approve(c, l) PROVE Goal
  <2> DEFINE k == [NoCall EXCEPT !.op = "Approve", !.art = loan[l].artifact, !.row = l,
                     !.artVer = artifact[loan[l].artifact].version, !.rowVer = loan[l].version]
  <2>1. call' = [call EXCEPT ![c] = k] /\ UNCHANGED <<artifact, loan>>
    BY <1>15 DEF Approve, Load, lendingVars
  <2>2. /\ k.op = "Approve" /\ k.art = loan[l].artifact /\ k.row = l
        /\ k.artVer = artifact[loan[l].artifact].version /\ k.rowVer = loan[l].version
    BY DEF NoCall
  <2>3. loan[l].status = "submitted" /\ loan[l] \in LoanRow
    BY <1>15 DEF Approve, LoanCanTransition, LoanTransitions, TypeInv, TypeOK, LendingTypeOK, NoLoan
  <2> HIDE DEF k
  <2>4. LoanSnapshot(k) /\ loan[l].artifact \in ArtifactId
        /\ artifact[loan[l].artifact] \in ArtifactRow
    BY <1>13, <2>2, <2>3
  <2>5. Sees(k)
    BY <1>4, <2>2, <2>4
  <2> QED BY <1>3, <2>1, <2>5
<1>16. ASSUME NEW c \in Caller, NEW l \in LoanId, NEW kind \in CustodyKind,
              RecordCustody(c, l, kind)
       PROVE  Goal
  <2> DEFINE k == [NoCall EXCEPT !.op = "RecordCustody", !.art = loan[l].artifact, !.row = l,
                     !.artVer = artifact[loan[l].artifact].version, !.rowVer = loan[l].version,
                     !.arg = kind]
  <2>1. call' = [call EXCEPT ![c] = k] /\ UNCHANGED <<artifact, loan>>
    BY <1>16 DEF RecordCustody, Load, lendingVars
  <2>2. /\ k.op = "RecordCustody" /\ k.art = loan[l].artifact /\ k.row = l /\ k.arg = kind
        /\ k.artVer = artifact[loan[l].artifact].version /\ k.rowVer = loan[l].version
    BY DEF NoCall
  <2>3. loan[l].status = CustodyFrom[kind]
    BY <1>16 DEF RecordCustody
  <2>4. loan[l].status # "absent"
    BY <2>3 DEF CustodyFrom, CustodyKind
  <2>5. loan[l] \in LoanRow
    BY <2>4 DEF TypeInv, TypeOK, LendingTypeOK, NoLoan
  <2> HIDE DEF k
  <2>6. LoanSnapshot(k) /\ loan[l].artifact \in ArtifactId
        /\ artifact[loan[l].artifact] \in ArtifactRow
    BY <1>13, <2>2, <2>3, <2>5
  <2>7. Sees(k)
    BY <1>4, <2>2, <2>6
  <2> QED BY <1>3, <2>1, <2>7
<1>17. CASE LendingNext
  <2>1. ASSUME NEW c \in Caller, NEW l \in LoanId, InsertLoan(c, l) PROVE Goal
    BY <1>2, <2>1 DEF InsertLoan
  <2>2. ASSUME NEW c \in Caller, UpdateLoan(c) \/ ApproveLoanAtomically(c) \/ SaveCustody(c)
        PROVE  Goal
    BY <1>2, <2>2 DEF UpdateLoan, ApproveLoanAtomically, SaveCustody
  <2> QED
    BY <1>11, <1>12, <1>14, <1>15, <1>16, <1>17, <2>1, <2>2 DEF LendingNext
<1>18. ASSUME NEW c \in Caller, NEW a \in ArtifactId, NEW d \in CaseId, ReserveArtifact(c, a, d), UNCHANGED loan
      PROVE  Goal
  <2> DEFINE k == [NoCall EXCEPT !.op = "Reserve", !.art = a, !.row = d]
  <2>1. call' = [call EXCEPT ![c] = k] /\ UNCHANGED <<artifact, loan>>
    BY <1>18 DEF ReserveArtifact, Load, lendingVars
  <2>2. k.op = "Reserve" /\ k.art = a /\ k.artVer = 0
    BY DEF NoCall
  <2>3. artifact[a] \in ArtifactRow
    BY <1>18, RowExists DEF ReserveArtifact, TypeInv
  <2> HIDE DEF k
  <2>4. Sees(k)
    BY <1>4, <2>2, <2>3
  <2> QED BY <1>3, <2>1, <2>4
<1>19. ASSUME NEW c \in Caller, ReserveCase(c), UNCHANGED loan PROVE Goal
  <2> DEFINE k == [call[c] EXCEPT !.op = "ReserveDisplayCase",
                                  !.rowVer = displayCase[call[c].row].version]
  <2>1. call' = [call EXCEPT ![c] = k] /\ UNCHANGED <<artifact, loan>>
    BY <1>19 DEF ReserveCase
  <2>2. call[c] \in CallType /\ call[c].op = "Reserve"
    BY <1>19 DEF ReserveCase, InFlight, TypeInv, TypeOK
  <2>3. call[c] \in Calls("Reserve", ArtifactId, {0}, CaseId, {0}, {NoId}, {FALSE})
    BY <2>2, CallService DEF ExhibitionCalls, Calls
  <2>4. k.op = "ReserveDisplayCase" /\ k.art = call[c].art /\ k.art \in ArtifactId
        /\ k.artVer = 0
    BY <2>3 DEF Calls
  <2>5. artifact[k.art] \in ArtifactRow
    BY <2>4, RowExists, CollectionAssumption DEF TypeInv, ArtifactsExist
  <2> HIDE DEF k
  <2>6. Sees(k)
    BY <1>4, <2>4, <2>5
  <2> QED BY <1>3, <2>1, <2>6
<1>20. ASSUME NEW c \in Caller, NEW a \in ArtifactId, NEW d \in CaseId,
              NEW complete \in BOOLEAN, Activate(c, a, d, complete), UNCHANGED loan
      PROVE  Goal
  <2> DEFINE k == [NoCall EXCEPT !.op = "Activate", !.art = a, !.row = d, !.flag = complete,
                     !.artVer = artifact[a].version, !.rowVer = displayCase[d].version]
  <2>1. call' = [call EXCEPT ![c] = k] /\ UNCHANGED <<artifact, loan>>
    BY <1>20 DEF Activate, Load, lendingVars
  <2>2. k.op = "Activate" /\ k.art = a /\ k.artVer = artifact[a].version
    BY DEF NoCall
  <2>3. artifact[a] \in ArtifactRow /\ artifact[a].status = "ready"
    BY <1>20, RowExists DEF Activate, TypeInv
  <2> HIDE DEF k
  <2>4. Sees(k)
    BY <1>4, <2>2, <2>3
  <2> QED BY <1>3, <2>1, <2>4
<1>21. ASSUME NEW c \in Caller, NEW i \in IncidentId, NEW to \in IncidentStatus, NEW r \in BOOLEAN,
              AdvanceIncident(c, i, to, r), UNCHANGED loan
      PROVE  Goal
  <2> DEFINE k == [NoCall EXCEPT !.op = "AdvanceIncident", !.row = i, !.arg = to,
                     !.rowVer = incident[i].version, !.flag = r]
  <2>1. call' = [call EXCEPT ![c] = k] /\ UNCHANGED <<artifact, loan>>
    BY <1>21 DEF AdvanceIncident, Load, lendingVars
  <2>2. k.op = "AdvanceIncident" /\ k.art = NoId
    BY DEF NoCall
  <2> HIDE DEF k
  <2>4. Sees(k)
    BY <1>8, <2>2
  <2> QED BY <1>3, <2>1, <2>4
<1>22. CASE ExhibitionNext /\ UNCHANGED <<conservationVars, lendingVars>>
  <2>1. UNCHANGED loan
    BY <1>22 DEF lendingVars
  <2>2. ASSUME NEW i \in IncidentId, NEW d \in CaseId, NEW w \in WindowKey, OpenIncident(i, d, w)
        PROVE  Goal
    BY <1>1, <2>2 DEF OpenIncident
  <2>3. ASSUME NEW c \in Caller,
               ReserveDisplayCase(c) \/ ActivateInstallation(c) \/ UpdateIncident(c)
        PROVE  Goal
    BY <1>2, <2>3 DEF ReserveDisplayCase, ActivateInstallation, UpdateIncident
  <2> QED
    BY <1>18, <1>19, <1>20, <1>21, <1>22, <2>1, <2>2, <2>3 DEF ExhibitionNext
<1>23. CASE Fail
  BY <1>2, <1>23 DEF Fail, FailCall
<1> QED BY <1>10, <1>17, <1>22, <1>23 DEF Next

-----------------------------------------------------------------------------
(* Type correctness.                                                       *)

LEMMA InitTypes == Init => TypeInv
<1> SUFFICES ASSUME Init PROVE TypeInv
  OBVIOUS
<1> USE DEF Init, CollectionInit, ConservationInit, LendingInit, ExhibitionInit
<1>1. artifact \in [ArtifactId -> ArtifactRow \cup {NoArtifact}]
  OBVIOUS
<1>2. incident \in [IncidentId -> IncidentRow \cup {NoIncident}]
  OBVIOUS
<1>3. call \in [Caller -> CallType]
  BY DEF CallType
<1>4. ConservationTypeOK
  BY DEF ConservationTypeOK
<1>5. LendingTypeOK
  BY DEF LendingTypeOK
<1>6. ExhibitionTypeOK
  BY PosFacts DEF ExhibitionTypeOK, CaseRow, CaseStatus
<1>7. ArtifactsExist
  BY DEF ArtifactsExist, NoCall
<1> QED BY <1>1, <1>2, <1>3, <1>4, <1>5, <1>6, <1>7 DEF TypeInv, TypeOK

\* An artifact that exists is not deleted.
LEMMA ArtifactsStay ==
  ASSUME TypeInv, Next, NEW a \in ArtifactId, artifact[a] # NoArtifact
  PROVE  artifact'[a] # NoArtifact
<1>1. CASE artifact'[a] = artifact[a]
  BY <1>1
<1>2. CASE Bumped(a)
  BY <1>2, PosFacts DEF Bumped, ArtifactRow, NoArtifact
<1> QED BY <1>1, <1>2, ArtifactVersions

LEMMA ExistStep ==
  ASSUME TypeInv, TypeOK', Next
  PROVE  ArtifactsExist'
<1>1. ASSUME NEW c \in Caller, call'[c].art # NoId
      PROVE  artifact'[call'[c].art] # NoArtifact
  <2>1. CASE call'[c] = call[c]
    BY <1>1, <2>1, ArtifactsStay, AnyFields DEF TypeInv, TypeOK, ArtifactsExist
  <2>2. CASE call'[c] = NoCall
    BY <1>1, <2>2 DEF NoCall
  <2>3. CASE UNCHANGED <<artifact, loan>> /\ Sees(call'[c])
    BY <1>1, <2>3 DEF Sees
  <2> QED BY <2>1, <2>2, <2>3, CallStep
<1>2. ASSUME NEW l \in LoanId, loan'[l] # NoLoan
      PROVE  artifact'[loan'[l].artifact] # NoArtifact
  <2>1. CASE loan[l] # NoLoan /\ loan'[l].artifact = loan[l].artifact
    <3>1. loan[l].artifact \in ArtifactId /\ artifact[loan[l].artifact] # NoArtifact
      BY <2>1 DEF TypeInv, TypeOK, LendingTypeOK, LoanRow, ArtifactsExist
    <3> QED BY <2>1, <3>1, ArtifactsStay
  <2>2. ASSUME NEW c \in Caller, InFlight(c, "InsertLoan"), loan'[l].artifact = call[c].art
        PROVE  artifact'[loan'[l].artifact] # NoArtifact
    <3>1. call[c].art \in ArtifactId
      BY <2>2, LendingFields DEF InFlight, TypeInv, TypeOK
    <3>2. artifact[call[c].art] # NoArtifact
      BY <3>1, CollectionAssumption DEF TypeInv, ArtifactsExist
    <3> QED BY <2>2, <3>1, <3>2, ArtifactsStay
  <2>3. loan[l] \in LoanRow => loan[l] # NoLoan
    BY PosFacts DEF LoanRow, NoLoan
  <2> QED BY <1>2, <2>1, <2>2, <2>3, LoanVersions
<1> QED BY <1>1, <1>2 DEF ArtifactsExist

LEMMA TypeStep == TypeInv /\ [Next]_vars => TypeInv'
<1>1. ASSUME TypeInv, Next PROVE TypeInv'
  <2>1. TypeOK'
    <3>1. CASE ConservationNext /\ UNCHANGED <<lendingVars, exhibitionVars>>
      BY <1>1, <3>1, ConservationTypes
    <3>2. CASE LendingNext /\ UNCHANGED <<conservationVars, exhibitionVars>>
      BY <1>1, <3>2, LendingTypes
    <3>3. CASE ExhibitionNext /\ UNCHANGED <<conservationVars, lendingVars>>
      BY <1>1, <3>3, ExhibitionTypes
    <3>4. CASE Fail
      <4>1. PICK c \in Caller : Return(c) /\ UNCHANGED <<artifact, incident>>
        BY <3>4 DEF Fail, FailCall
      <4>2. UNCHANGED <<conservationVars, lendingVars, exhibitionVars>>
        BY <3>4 DEF Fail
      <4> QED
        BY <1>1, <4>1, <4>2, ReturnType
        DEF TypeInv, TypeOK, ConservationTypeOK, LendingTypeOK, ExhibitionTypeOK,
            conservationVars, lendingVars, exhibitionVars
    <3> QED BY <1>1, <3>1, <3>2, <3>3, <3>4 DEF Next
  <2>2. ArtifactsExist'
    BY <1>1, <2>1, ExistStep
  <2> QED BY <2>1, <2>2 DEF TypeInv
<1>2. ASSUME TypeInv, UNCHANGED vars PROVE TypeInv'
  BY <1>2 DEF vars, TypeInv, TypeOK, ArtifactsExist, ConservationTypeOK, LendingTypeOK,
              ExhibitionTypeOK, conservationVars, lendingVars, exhibitionVars
<1> QED BY <1>1, <1>2

\* Every table and every call in flight holds what it may hold, for any number
\* of artifacts, loans, cases, callers and any bound on the versions.
THEOREM TypeCorrectness == Spec => []TypeOK
<1>1. TypeInv => TypeOK
  BY DEF TypeInv
<1> QED BY <1>1, InitTypes, TypeStep, PTL DEF Spec

\* The artifact of every call in flight and of every loan exists: no operation
\* deletes a row that another one relies on.
THEOREM ExistenceInvariant == Spec => []TypeInv
BY InitTypes, TypeStep, PTL DEF Spec

-----------------------------------------------------------------------------
(* Optimistic locking.                                                     *)

\* What a call has seen stays true or is out of date: no version goes back.
LEMMA SeesStays ==
  ASSUME TypeInv, TypeOK', Next, NEW k \in CallType, Sees(k)
  PROVE  /\ k.art # NoId => artifact'[k.art] # NoArtifact
         /\ ArtifactSnapshot(k)'
         /\ LoanSnapshot(k)'
<1>1. ASSUME k.art # NoId
      PROVE  k.art \in ArtifactId /\ artifact[k.art] \in ArtifactRow
  BY <1>1, RowExists DEF Sees, TypeInv
<1>2. k.art # NoId => artifact'[k.art] # NoArtifact
  BY <1>1, ArtifactsStay, RowExists DEF TypeInv
<1>3. ASSUME k.art # NoId, Bumped(k.art)
      PROVE  k.artVer < artifact'[k.art].version
  <2>1. k.artVer \in Nat /\ artifact[k.art].version \in Nat
    BY <1>1, <1>3, AnyFields, PosFacts DEF ArtifactRow
  <2>2. k.artVer <= artifact[k.art].version
    BY <1>3 DEF Sees, ArtifactSnapshot
  <2> QED BY <1>3, <2>1, <2>2 DEF Bumped
<1>4. ArtifactSnapshot(k)'
  <2>1. CASE k.art = NoId
    BY <2>1 DEF ArtifactSnapshot
  <2>2. CASE k.art # NoId /\ artifact'[k.art] = artifact[k.art]
    BY <2>2 DEF ArtifactSnapshot, Sees
  <2>3. CASE k.art # NoId /\ Bumped(k.art)
    <3>1. k.artVer \in Nat /\ artifact'[k.art].version \in Nat
      BY <2>3, AnyFields, PosFacts DEF Bumped, ArtifactRow
    <3>2. k.artVer <= artifact'[k.art].version /\ k.artVer # artifact'[k.art].version
      BY <1>3, <2>3, <3>1
    <3> QED BY <3>2 DEF ArtifactSnapshot
  <2> QED BY <1>1, <2>1, <2>2, <2>3, ArtifactVersions
<1>5. LoanSnapshot(k)'
  <2> SUFFICES ASSUME k.op \in {"Submit", "Approve", "RecordCustody"}
               PROVE  LoanSnapshot(k)'
    BY DEF LoanSnapshot
  <2>1. k.row \in LoanId /\ k.rowVer \in Pos
    BY LendingFields
  <2>2. k.rowVer <= loan[k.row].version
    BY DEF Sees, LoanSnapshot
  <2>3. loan[k.row] \in LoanRow /\ loan[k.row] # NoLoan
    <3>1. k.rowVer \in Nat /\ k.rowVer # 0
      BY <2>1, PosFacts
    <3>2. ASSUME loan[k.row] = NoLoan PROVE FALSE
      <4>1. k.rowVer <= 0
        BY <2>2, <3>2 DEF NoLoan
      <4> QED BY <3>1, <4>1
    <3>3. loan[k.row] \in LoanRow \cup {NoLoan}
      BY <2>1 DEF TypeInv, TypeOK, LendingTypeOK
    <3> QED BY <3>2, <3>3
  <2>4. loan[k.row].version \in Nat /\ k.rowVer \in Nat
    <3>1. loan[k.row].version \in Pos
      BY <2>3 DEF LoanRow
    <3> QED BY <2>1, <3>1, PosFacts
  <2>5. CASE loan'[k.row] = loan[k.row]
    BY <2>5 DEF LoanSnapshot, Sees
  <2>6. CASE /\ loan'[k.row].version = loan[k.row].version + 1
             /\ loan'[k.row].artifact = loan[k.row].artifact
    <3>1. k.rowVer <= loan'[k.row].version /\ k.rowVer # loan'[k.row].version
      BY <2>2, <2>4, <2>6
    <3> QED BY <2>6, <3>1 DEF LoanSnapshot, Sees
  <2> QED BY <2>1, <2>3, <2>5, <2>6, LoanVersions
<1> QED BY <1>2, <1>4, <1>5

SnapInv == TypeInv /\ Snapshots

LEMMA SnapStep == SnapInv /\ [Next]_vars => SnapInv'
<1>1. ASSUME SnapInv, Next PROVE SnapInv'
  <2>1. TypeInv /\ TypeInv'
    BY <1>1, TypeStep DEF SnapInv
  <2>2. ASSUME NEW c \in Caller
        PROVE  ArtifactSnapshot(call[c])' /\ LoanSnapshot(call[c])'
    <3>1. call[c] \in CallType
      BY <2>1 DEF TypeInv, TypeOK
    <3>2. Sees(call[c])
      BY <1>1, <3>1, AnyFields DEF SnapInv, Snapshots, Sees, ArtifactsExist
    <3>3. CASE call'[c] = call[c]
      <4>1. TypeOK'
        BY <2>1 DEF TypeInv
      <4> QED BY <1>1, <2>1, <3>1, <3>2, <3>3, <4>1, SeesStays DEF ArtifactSnapshot, LoanSnapshot
    <3>4. CASE call'[c] = NoCall
      BY <3>4 DEF NoCall, ArtifactSnapshot, LoanSnapshot
    <3>5. CASE UNCHANGED <<artifact, loan>> /\ Sees(call'[c])
      BY <3>5 DEF Sees, ArtifactSnapshot, LoanSnapshot
    <3> QED BY <1>1, <2>1, <3>3, <3>4, <3>5, CallStep
  <2> QED BY <2>1, <2>2 DEF SnapInv, Snapshots, TypeInv
<1>2. ASSUME SnapInv, UNCHANGED vars PROVE SnapInv'
  <2>1. TypeInv'
    BY <1>2, TypeStep DEF SnapInv
  <2>2. Snapshots'
    BY <1>2 DEF SnapInv, Snapshots, ArtifactSnapshot, LoanSnapshot, ArtifactsExist, vars,
                lendingVars
  <2> QED BY <2>1, <2>2 DEF SnapInv
<1> QED BY <1>1, <1>2

LEMMA InitSnapshots == Init => SnapInv
<1> SUFFICES ASSUME Init PROVE SnapInv
  OBVIOUS
<1>1. TypeInv
  BY InitTypes
<1>2. \A c \in Caller : ArtifactSnapshot(call[c]) /\ LoanSnapshot(call[c])
  BY DEF Init, CollectionInit, ArtifactSnapshot, LoanSnapshot, NoCall
<1> QED BY <1>1, <1>2 DEF SnapInv, Snapshots, TypeInv

\* Optimistic locking works, for any number of callers: a call in flight either
\* still sees what its checks relied on or carries a version that has moved.
THEOREM OptimisticLocking == Spec => []Snapshots
<1>1. SnapInv => Snapshots
  BY DEF SnapInv
<1> QED BY <1>1, InitSnapshots, SnapStep, PTL DEF Spec
=============================================================================
