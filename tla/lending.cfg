SPECIFICATION Spec
CONSTANTS
  NoId = NoId
  ArtifactId = {a1}
  Caller = {c1,c2}
  ZoneId = {}
  QuarantineId = {}
  PlanId = {}
  LoanId = {l1,l2}
  Period = {june,midJune,july}
  CaseId = {}
  IncidentId = {}
  WindowKey = {}
  MaxVersion = 11
  june = june
  midJune = midJune
  july = july
  Capacity <- MCCapacity
  StartAt <- MCStartAt
  EndAt <- MCEndAt
SYMMETRY CallerSymmetry
INVARIANT LoanBinding
INVARIANT ChainOfCustody
PROPERTY ImplementsHolding
