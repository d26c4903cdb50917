\* The server may stop after its bootstrap user was deactivated: it never starts again.
CHECK_DEADLOCK FALSE
SPECIFICATION FairSpec
CONSTANTS
  NoId = NoId
  User = {ada,ben,cleo}
  Supervisor = {ada,ben}
  Bootstrap = ada
  SessionId = {s1,s2}
  Request = {r1,r2}
  SessionTTL = 1
INVARIANT TypeOK
PROPERTY LastSupervisorRace
PROPERTY EventuallyShutOut
PROPERTY EventuallyLoggedOut
