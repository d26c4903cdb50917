---------------------------- MODULE Conservation ----------------------------
(***************************************************************************)
(* Intake and conservation (internal/conservation, and the artifact and    *)
(* conservation parts of the SQLite store): registration, condition        *)
(* reports, release, quarantine slots and treatment plans.                 *)
(***************************************************************************)
EXTENDS Collection, FiniteSets

CONSTANTS
  ZoneId,         \* active quarantine zones
  Capacity,       \* capacity column of each zone; no operation changes it
  QuarantineId,   \* ids of quarantine cases
  PlanId          \* ids of treatment plans

ASSUME ConservationAssumption ==
  /\ Capacity \in [ZoneId -> Nat]
  /\ NoId \notin QuarantineId

VARIABLES
  occupied,       \* slots taken in each zone
  quarantine,     \* quarantine cases by id
  plan            \* treatment plans by id

conservationVars == <<occupied, quarantine, plan>>

QuarantineStatus == {"open", "treating", "resolved"}
TreatmentStatus == {"draft", "approved", "in_progress", "completed", "rejected"}

NoQuarantine == [status |-> "absent", artifact |-> NoId, zone |-> NoId]
NoPlan == [status |-> "absent", version |-> 0, quarantine |-> NoId]

TreatmentTransitions ==
  ({"draft"} \X {"approved", "rejected"}) \cup
  {<<"approved", "in_progress">>, <<"in_progress", "completed">>}

\* Statuses from which the store's UPDATE lets an artifact enter quarantine.
\* (Mutant: the statuses the policy allows, which include on_loan.)
QuarantinableMutant == {"registered", "assessment", "ready", "on_display", "on_loan"}
Quarantinable == {"registered", "assessment", "ready", "on_display"}

Unresolved(q) == quarantine[q].status \in {"open", "treating"}

\* The unique index: no unresolved case for artifact a.  (Mutant: no index.)
NoOpenCaseMutant(a) == TRUE
NoOpenCase(a) == \A q \in QuarantineId : Unresolved(q) => quarantine[q].artifact # a

\* The zone still has a free slot.  (Mutant: off by one.)
HasRoomMutant(z) == occupied[z] <= Capacity[z]
HasRoom(z) == occupied[z] < Capacity[z]

\* The optimistic lock of a treatment plan.  (Mutant: no version in WHERE.)
PlanCurrentMutant(p, v) == plan[p].version < MaxVersion
PlanCurrent(p, v) == plan[p].version = v

\* What completion writes to the artifact.  (Mutants: one column forgotten.)
TreatedKeepsCase(row) == [row EXCEPT !.status = "ready"]
TreatedKeepsStatus(row) == [row EXCEPT !.currentCase = NoId]
Treated(row) == [row EXCEPT !.status = "ready", !.currentCase = NoId]

ConservationInit ==
  /\ occupied = [z \in ZoneId |-> 0]
  /\ quarantine = [q \in QuarantineId |-> NoQuarantine]
  /\ plan = [p \in PlanId |-> NoPlan]

-----------------------------------------------------------------------------
(* Registration and condition reports.                                     *)

\* One transaction inserts the artifact, its first report (always final,
\* severity the risk class), a custody event and an audit event.
Register(a) ==
  /\ artifact[a] = NoArtifact
  /\ \E v \in Verdict :
       artifact' = [artifact EXCEPT ![a] =
         [NoArtifact EXCEPT !.status = "registered", !.version = 1,
                            !.lastReport = v]]
  /\ UNCHANGED <<incident, call, conservationVars>>

RecordCondition(c, a) ==
  /\ artifact[a].status \notin {"absent", "archived", "on_loan"}
  /\ \E v \in Verdict :
       Load(c, [NoCall EXCEPT !.op = "RecordCondition", !.art = a,
                              !.artVer = artifact[a].version, !.arg = v])
  /\ UNCHANGED <<artifact, incident, conservationVars>>

\* The report is linked and the artifact goes to assessment whatever its status.
SaveConditionReport(c) ==
  LET k == call[c] IN
  /\ InFlight(c, "RecordCondition")
  /\ Current(k.art, k.artVer)
  /\ UpdateArtifact(k.art, [artifact[k.art] EXCEPT !.status = "assessment",
                                                   !.lastReport = k.arg])
  /\ Return(c)
  /\ UNCHANGED <<incident, conservationVars>>

ReleaseAssessment(c, a) ==
  /\ artifact[a].status = "assessment"
  /\ artifact[a].lastReport = "clears"
  /\ CanTransition(a, "ready")
  /\ Load(c, [NoCall EXCEPT !.op = "ReleaseAssessment", !.art = a,
                            !.artVer = artifact[a].version])
  /\ UNCHANGED <<artifact, incident, conservationVars>>

UpdateArtifactStatus(c) ==
  LET k == call[c] IN
  /\ InFlight(c, "ReleaseAssessment")
  /\ Current(k.art, k.artVer)
  /\ UpdateArtifact(k.art, [artifact[k.art] EXCEPT !.status = "ready"])
  /\ Return(c)
  /\ UNCHANGED <<incident, conservationVars>>

-----------------------------------------------------------------------------
(* Quarantine.                                                             *)

OpenQuarantine(c, a, z) ==
  /\ CanTransition(a, "quarantined")
  /\ Load(c, [NoCall EXCEPT !.op = "OpenQuarantine", !.art = a,
                            !.artVer = artifact[a].version, !.arg = z])
  /\ UNCHANGED <<artifact, incident, conservationVars>>

\* One transaction takes a slot of the zone, inserts the case (a unique index
\* admits one unresolved case per artifact) and moves the artifact.
SaveQuarantine(c, q) ==
  LET k == call[c] IN
  /\ InFlight(c, "OpenQuarantine")
  /\ HasRoom(k.arg)
  /\ quarantine[q] = NoQuarantine
  /\ NoOpenCase(k.art)
  /\ Current(k.art, k.artVer)
  /\ artifact[k.art].status \in Quarantinable
  /\ occupied' = [occupied EXCEPT ![k.arg] = @ + 1]
  /\ quarantine' = [quarantine EXCEPT ![q] =
       [status |-> "open", artifact |-> k.art, zone |-> k.arg]]
  /\ UpdateArtifact(k.art, [artifact[k.art] EXCEPT !.status = "quarantined",
                                                   !.currentCase = q])
  /\ Return(c)
  /\ UNCHANGED <<incident, plan>>

-----------------------------------------------------------------------------
(* Treatment plans.                                                        *)

\* The transaction reads the quarantine again, so the service's earlier look
\* at it decides nothing: the whole operation is one step.
DraftTreatment(p, q) ==
  /\ Unresolved(q)
  /\ plan[p] = NoPlan
  /\ plan' = [plan EXCEPT ![p] = [NoPlan EXCEPT !.status = "draft", !.version = 1,
                                                !.quarantine = q]]
  /\ UNCHANGED <<artifact, incident, call, occupied, quarantine>>

AdvanceTreatment(c, p, to) ==
  /\ <<plan[p].status, to>> \in TreatmentTransitions
  /\ Load(c, [NoCall EXCEPT !.op = "AdvanceTreatment", !.row = p,
                            !.rowVer = plan[p].version, !.arg = to])
  /\ UNCHANGED <<artifact, incident, conservationVars>>

\* The UPDATE of the plan row, guarded by its version only.
UpdatePlan(c) ==
  LET k == call[c] IN
  /\ InFlight(c, "AdvanceTreatment")
  /\ PlanCurrent(k.row, k.rowVer)
  /\ plan' = [plan EXCEPT ![k.row].status = k.arg, ![k.row].version = @ + 1]
  /\ Return(c)

\* Approval, rejection, and the start of the work, which marks an open
\* quarantine as treating and does not mind one that is no longer open.
UpdateTreatment(c) ==
  LET q == plan[call[c].row].quarantine IN
  /\ UpdatePlan(c)
  /\ call[c].arg # "completed"
  /\ quarantine' =
       IF call[c].arg = "in_progress" /\ quarantine[q].status = "open"
       THEN [quarantine EXCEPT ![q].status = "treating"]
       ELSE quarantine
  /\ UNCHANGED <<artifact, incident, occupied>>

\* Completion resolves the quarantine, frees its slot and releases the
\* artifact, which must still be the quarantined artifact of this case;
\* otherwise the transaction rolls back.
FinishTreatment(c) ==
  LET q == plan[call[c].row].quarantine
      z == quarantine[q].zone
      a == quarantine[q].artifact
  IN
  /\ UpdatePlan(c)
  /\ call[c].arg = "completed"
  /\ Unresolved(q)
  /\ artifact[a].currentCase = q
  /\ artifact[a].status \in {"quarantined", "treatment"}
  /\ artifact[a].version < MaxVersion
  /\ quarantine' = [quarantine EXCEPT ![q].status = "resolved"]
  /\ occupied' = [occupied EXCEPT ![z] = IF @ > 0 THEN @ - 1 ELSE @]
  /\ UpdateArtifact(a, Treated(artifact[a]))
  /\ UNCHANGED incident

-----------------------------------------------------------------------------

ConservationNext ==
  \/ \E a \in ArtifactId : Register(a)
  \/ \E p \in PlanId, q \in QuarantineId : DraftTreatment(p, q)
  \/ \E c \in Caller :
       \/ \E a \in ArtifactId : RecordCondition(c, a) \/ ReleaseAssessment(c, a)
       \/ \E a \in ArtifactId, z \in ZoneId : OpenQuarantine(c, a, z)
       \/ \E p \in PlanId, to \in TreatmentStatus : AdvanceTreatment(c, p, to)
       \/ \E q \in QuarantineId : SaveQuarantine(c, q)
       \/ SaveConditionReport(c)
       \/ UpdateArtifactStatus(c)
       \/ UpdateTreatment(c)
       \/ FinishTreatment(c)

-----------------------------------------------------------------------------
(* Properties.                                                             *)

\* The calls of this service that can be in flight.
ConservationCalls ==
       Calls("RecordCondition", ArtifactId, Pos, {NoId}, {0}, Verdict, {FALSE})
  \cup Calls("ReleaseAssessment", ArtifactId, Pos, {NoId}, {0}, {NoId}, {FALSE})
  \cup Calls("OpenQuarantine", ArtifactId, Pos, {NoId}, {0}, ZoneId, {FALSE})
  \cup Calls("AdvanceTreatment", {NoId}, {0}, PlanId, Pos, TreatmentStatus, {FALSE})

QuarantineRow == [status : QuarantineStatus, artifact : ArtifactId, zone : ZoneId]
PlanRow == [status : TreatmentStatus, version : Pos, quarantine : QuarantineId]

\* The conservation tables hold what their columns may hold.
ConservationTypeOK ==
  /\ occupied \in [ZoneId -> Nat]
  /\ quarantine \in [QuarantineId -> QuarantineRow \cup {NoQuarantine}]
  /\ plan \in [PlanId -> PlanRow \cup {NoPlan}]

\* The unresolved quarantine cases of a zone.
Occupants(z) == {q \in QuarantineId : Unresolved(q) /\ quarantine[q].zone = z}

\* Slot accounting.  The occupied column, maintained by increments and
\* decrements in transactions of two different operations, always equals the
\* number of unresolved cases in the zone, and never exceeds the capacity.
ZoneAccounting ==
  \A z \in ZoneId : /\ occupied[z] = Cardinality(Occupants(z))
                     /\ occupied[z] <= Capacity[z]

\* As long as only conservation touches the artifact, it names a quarantine
\* case exactly while that case is unresolved and its own, also when it is
\* assessed again or released meanwhile.  Completion asks for this and for an
\* artifact that is still quarantined; a condition report takes the second away
\* for good, and the slot with it (FinishTreatment, NoOpenCase).
QuarantineHoldsArtifact ==
  \A q \in QuarantineId, a \in ArtifactId :
    artifact[a].currentCase = q <=> Unresolved(q) /\ quarantine[q].artifact = a

\* A case is resolved by the completion of one treatment plan and only by it,
\* however many plans were drafted for it and whichever calls were in flight.
QuarantineResolution ==
  \A q \in QuarantineId :
    Cardinality({p \in PlanId : plan[p].quarantine = q /\ plan[p].status = "completed"})
      = IF quarantine[q].status = "resolved" THEN 1 ELSE 0

\* An assessment is released only on a report that clears the artifact, even
\* if a report of high severity arrives after the release was decided.
ReleaseInspected ==
  [][\A a \in ArtifactId :
       artifact[a].status = "assessment" /\ artifact'[a].status = "ready"
       => artifact[a].lastReport = "clears"]_artifact

\* What README.md promises of conservation: a quarantined artifact is released
\* only after the treatment transaction succeeded.  It does not hold.
ReleasedAfterTreatment ==
  \A q \in QuarantineId :
    Unresolved(q) => artifact[quarantine[q].artifact].status # "ready"
=============================================================================
