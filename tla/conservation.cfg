SPECIFICATION Spec
CONSTANTS
  NoId = NoId
  ArtifactId = {a1,a2}
  Caller = {c1,c2}
  ZoneId = {z1}
  QuarantineId = {q1,q2}
  PlanId = {p1,p2}
  LoanId = {}
  Period = {}
  CaseId = {}
  IncidentId = {}
  WindowKey = {}
  MaxVersion = 5
  june = june
  midJune = midJune
  july = july
  Capacity <- MCCapacity
  StartAt <- MCStartAt
  EndAt <- MCEndAt
SYMMETRY IdSymmetry
INVARIANT ZoneAccounting
INVARIANT QuarantineHoldsArtifact
INVARIANT QuarantineResolution
PROPERTY ReleaseInspected
