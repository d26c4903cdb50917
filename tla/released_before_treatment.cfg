SPECIFICATION Spec
CONSTANTS
  NoId = NoId
  ArtifactId = {a1}
  Caller = {c1}
  ZoneId = {z1}
  QuarantineId = {q1}
  PlanId = {}
  LoanId = {}
  Period = {}
  CaseId = {}
  IncidentId = {}
  WindowKey = {}
  MaxVersion = 6
  june = june
  midJune = midJune
  july = july
  Capacity <- MCCapacity
  StartAt <- MCStartAt
  EndAt <- MCEndAt
INVARIANT ReleasedAfterTreatment
