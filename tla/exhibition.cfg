SPECIFICATION Spec
CONSTANTS
  NoId = NoId
  ArtifactId = {a1}
  Caller = {c1,c2}
  ZoneId = {}
  QuarantineId = {}
  PlanId = {}
  LoanId = {}
  Period = {}
  CaseId = {d1}
  IncidentId = {i1,i2}
  WindowKey = {w1,w2}
  MaxVersion = 5
  june = june
  midJune = midJune
  july = july
  Capacity <- MCCapacity
  StartAt <- MCStartAt
  EndAt <- MCEndAt
SYMMETRY IdSymmetry
INVARIANT CaseBinding
INVARIANT DisplayedInItsCase
INVARIANT IncidentJustified
PROPERTY ClosedIsFinal
