\* Run returns, and the program has ended.
CHECK_DEADLOCK FALSE
SPECIFICATION FairSpec
CONSTANTS
  NoSub = NoSub
  Sub = {s1,s2}
  Publisher = {"worker"}
  Capacity = 1
  Handler = {h}
INVARIANT TypeOK
INVARIANT NoneLeftOut
INVARIANT ClosedLast
PROPERTY EventuallyReturns
