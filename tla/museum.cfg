SPECIFICATION Spec
CONSTANTS
  NoId = NoId
  ArtifactId = {a1}
  Caller = {c1,c2}
  ZoneId = {z1}
  QuarantineId = {q1}
  PlanId = {p1}
  LoanId = {l1}
  Period = {june}
  CaseId = {d1}
  IncidentId = {}
  WindowKey = {}
  MaxVersion = 9
  june = june
  midJune = midJune
  july = july
  Capacity <- MCCapacity
  StartAt <- MCStartAt
  EndAt <- MCEndAt
SYMMETRY CallerSymmetry
INVARIANT TypeOK
INVARIANT Snapshots
INVARIANT OutOnlyOnLoan
INVARIANT QuarantinedHasCase
