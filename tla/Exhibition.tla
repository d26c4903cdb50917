----------------------------- MODULE Exhibition -----------------------------
(***************************************************************************)
(* Exhibition (internal/exhibition, exhibition.go of the SQLite store):    *)
(* reservation of a display case, activation of an installation, and the   *)
(* incidents that environment assessments open on a case.                  *)
(* Nothing in the code takes an artifact out of a case again, and nothing  *)
(* reads reservation_to: neither is a column here.                         *)
(***************************************************************************)
EXTENDS Collection

CONSTANTS
  CaseId,      \* ids of display cases
  WindowKey    \* assessment windows (the truncated end of the window)

ASSUME ExhibitionAssumption == NoId \notin CaseId

VARIABLES
  displayCase,   \* display cases by id
  installation,  \* installation rows: artifact, case, whether the checklist is complete
  outbox         \* incidents with an outbox row announcing them

exhibitionVars == <<displayCase, installation, outbox>>

CaseStatus == {"available", "reserved", "active", "incident", "offline"}

IncidentTransitions ==
  {<<"open", "responding">>, <<"responding", "monitoring">>,
   <<"monitoring", "closed">>, <<"monitoring", "responding">>}

IncidentCanTransition(i, to, remediated) ==
  /\ <<incident[i].status, to>> \in IncidentTransitions
  /\ to = "closed" => remediated

CaseCurrent(d, v) == displayCase[d].version = v /\ v < MaxVersion

\* Installation.Complete.  (Mutant: always complete.)
CompleteMutant(checked) == TRUE
Complete(checked) == checked

\* The optimistic lock of an incident.  (Mutant: no version in WHERE.)
IncidentCurrentMutant(i, v) == incident[i].version < MaxVersion
IncidentCurrent(i, v) == incident[i].version = v /\ v < MaxVersion

\* The seeded cases are available and empty.
ExhibitionInit ==
  /\ displayCase = [d \in CaseId |->
       [status |-> "available", version |-> 1, artifact |-> NoId]]
  /\ installation = {}
  /\ outbox = {}

-----------------------------------------------------------------------------
(* Reservation and installation.                                           *)

\* The artifact is looked at here and never again; the case is read later.
ReserveArtifact(c, a, d) ==
  /\ artifact[a].status = "ready"
  /\ artifact[a].currentCase = NoId
  /\ artifact[a].activeLoan = NoId
  /\ Load(c, [NoCall EXCEPT !.op = "Reserve", !.art = a, !.row = d])
  /\ UNCHANGED <<artifact, incident, exhibitionVars>>

\* The case's own read, between the artifact's read and the UPDATE.
ReserveCase(c) ==
  LET k == call[c] IN
  /\ InFlight(c, "Reserve")
  /\ displayCase[k.row].status = "available"
  /\ displayCase[k.row].artifact = NoId
  /\ call' = [call EXCEPT ![c] = [k EXCEPT !.op = "ReserveDisplayCase",
                                           !.rowVer = displayCase[k.row].version]]
  /\ UNCHANGED <<artifact, incident, exhibitionVars>>

ReserveDisplayCase(c) ==
  LET k == call[c] IN
  /\ InFlight(c, "ReserveDisplayCase")
  /\ CaseCurrent(k.row, k.rowVer)
  /\ displayCase[k.row].status = "available"
  /\ displayCase[k.row].artifact = NoId
  /\ displayCase' = [displayCase EXCEPT ![k.row] =
       [status |-> "reserved", version |-> @.version + 1, artifact |-> k.art]]
  /\ Return(c)
  /\ UNCHANGED <<artifact, incident, installation, outbox>>

\* A complete checklist is required; whether the artifact is promised to a
\* loan or belongs to another case is not looked at.  The transaction checks the
\* versions of both rows, so they count as read at one moment.
Activate(c, a, d, complete) ==
  /\ artifact[a].status = "ready"
  /\ displayCase[d].status = "reserved"
  /\ displayCase[d].artifact = a
  /\ Complete(complete)
  /\ Load(c, [NoCall EXCEPT !.op = "Activate", !.art = a, !.row = d, !.flag = complete,
                            !.artVer = artifact[a].version,
                            !.rowVer = displayCase[d].version])
  /\ UNCHANGED <<artifact, incident, exhibitionVars>>

ActivateInstallation(c) ==
  LET k == call[c] IN
  /\ InFlight(c, "Activate")
  /\ Complete(k.flag)
  /\ CaseCurrent(k.row, k.rowVer)
  /\ displayCase[k.row].status = "reserved"
  /\ displayCase[k.row].artifact = k.art
  /\ Current(k.art, k.artVer)
  /\ artifact[k.art].status = "ready"
  /\ installation' = installation \cup
       {[artifact |-> k.art, case |-> k.row, complete |-> k.flag]}
  /\ displayCase' = [displayCase EXCEPT ![k.row].status = "active",
                                         ![k.row].version = @ + 1]
  /\ UpdateArtifact(k.art, [artifact[k.art] EXCEPT !.status = "on_display",
                                                   !.currentCase = k.row])
  /\ Return(c)
  /\ UNCHANGED <<incident, outbox>>

-----------------------------------------------------------------------------
(* Incidents.                                                              *)

\* The assessment job found the case outside its limits.  The incident names
\* the case and the window but no artifact; a second one for the same case and
\* window is not inserted, and then there is no outbox row either.
OpenIncident(i, d, w) ==
  /\ incident[i] = NoIncident
  /\ \A other \in IncidentId :
       ~(incident[other].case = d /\ incident[other].window = w)
  /\ incident' = [incident EXCEPT ![i] = [NoIncident EXCEPT
       !.status = "open", !.version = 1, !.case = d, !.window = w]]
  /\ outbox' = outbox \cup {i}
  /\ UNCHANGED <<artifact, call, displayCase, installation>>

AdvanceIncident(c, i, to, remediated) ==
  /\ IncidentCanTransition(i, to, remediated)
  /\ Load(c, [NoCall EXCEPT !.op = "AdvanceIncident", !.row = i, !.arg = to,
                            !.rowVer = incident[i].version, !.flag = remediated])
  /\ UNCHANGED <<artifact, incident, exhibitionVars>>

\* The case follows the incident: active once it is closed, in incident
\* otherwise, if it is in one of these two statuses at all.  (Mutants: the case
\* never recovers; the case becomes available.)
CaseAfterStuck(to) == "incident"
CaseAfterFreed(to) == IF to = "closed" THEN "available" ELSE "incident"
CaseAfter(to) == IF to = "closed" THEN "active" ELSE "incident"

UpdateIncident(c) ==
  LET k == call[c]
      d == incident[k.row].case
  IN
  /\ InFlight(c, "AdvanceIncident")
  /\ IncidentCurrent(k.row, k.rowVer)
  /\ incident' = [incident EXCEPT ![k.row].status = k.arg,
                                   ![k.row].remediated = k.flag,
                                   ![k.row].version = @ + 1]
  /\ displayCase' =
       IF displayCase[d].status \in {"active", "incident"}
       THEN [displayCase EXCEPT ![d].status = CaseAfter(k.arg), ![d].version = @ + 1]
       ELSE displayCase
  /\ Return(c)
  /\ UNCHANGED <<artifact, installation, outbox>>

-----------------------------------------------------------------------------

ExhibitionNext ==
  \/ \E i \in IncidentId, d \in CaseId, w \in WindowKey : OpenIncident(i, d, w)
  \/ \E c \in Caller :
       \/ \E a \in ArtifactId, d \in CaseId : ReserveArtifact(c, a, d)
       \/ \E a \in ArtifactId, d \in CaseId, complete \in BOOLEAN :
            Activate(c, a, d, complete)
       \/ \E i \in IncidentId, to \in IncidentStatus, r \in BOOLEAN :
            AdvanceIncident(c, i, to, r)
       \/ ReserveCase(c)
       \/ ReserveDisplayCase(c)
       \/ ActivateInstallation(c)
       \/ UpdateIncident(c)

-----------------------------------------------------------------------------
(* Properties.                                                             *)

\* The calls of this service that can be in flight.
ExhibitionCalls ==
       Calls("Reserve", ArtifactId, {0}, CaseId, {0}, {NoId}, {FALSE})
  \cup Calls("ReserveDisplayCase", ArtifactId, {0}, CaseId, Pos, {NoId}, {FALSE})
  \cup Calls("Activate", ArtifactId, Pos, CaseId, Pos, {NoId}, BOOLEAN)
  \cup Calls("AdvanceIncident", {NoId}, {0}, IncidentId, Pos, IncidentStatus, BOOLEAN)

CaseRow == [status : CaseStatus, version : Pos, artifact : ArtifactId \cup {NoId}]

\* The exhibition tables hold what their columns may hold.
ExhibitionTypeOK ==
  /\ displayCase \in [CaseId -> CaseRow]
  /\ installation \subseteq
       [artifact : ArtifactId, case : CaseId, complete : BOOLEAN]
  /\ outbox \subseteq IncidentId

\* A case shows an artifact (active or in incident) exactly when it was
\* installed there with a complete checklist, and is empty exactly while it
\* was never reserved: incidents move a case between these statuses without
\* ever making it look free or installed.
CaseBinding ==
  \A d \in CaseId :
    /\ displayCase[d].status = "available" <=> displayCase[d].artifact = NoId
    /\ displayCase[d].status \in {"active", "incident"} <=>
         [artifact |-> displayCase[d].artifact, case |-> d, complete |-> TRUE]
           \in installation

\* An artifact on display is in the case it names, and that case shows it.
DisplayedInItsCase ==
  \A a \in ArtifactId : artifact[a].status = "on_display" =>
    LET d == artifact[a].currentCase IN
      /\ d \in CaseId
      /\ displayCase[d].artifact = a
      /\ displayCase[d].status \in {"active", "incident"}

\* A case is in incident only while an incident about it is being handled:
\* closing the last one brings the case back.  (The converse fails: closing
\* one of two incidents makes the case active, see README.)
IncidentJustified ==
  \A d \in CaseId : displayCase[d].status = "incident" =>
    \E i \in IncidentId : /\ incident[i].case = d
                          /\ incident[i].status \in {"responding", "monitoring"}

\* A closed incident stays closed and its remediation stays on record, even
\* when another call that saw it in monitoring writes later.
ClosedIsFinal ==
  [][\A i \in IncidentId :
       incident[i].status = "closed" => incident'[i] = incident[i]]_incident
=============================================================================
