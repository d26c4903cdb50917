\* Every request may have been served and every key ended: the system stops there.
CHECK_DEADLOCK FALSE
SPECIFICATION Spec
CONSTANTS
  NoId = NoId
  Request = {r1,r2,r3,r4}
  Key = {k}
  Body = {b1,b2}
  TTL = 2
INVARIANT TypeOK
INVARIANT EffectOnce
INVARIANT AnswerOfSameBody
INVARIANT AnswerKept
SYMMETRY Symmetry
