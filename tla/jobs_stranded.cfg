\* Every process may have ended with nothing left to enqueue: the system stops there.
CHECK_DEADLOCK FALSE
SPECIFICATION FairSpec
CONSTANTS
  NoId = NoId
  JobId = {j1,j2}
  Handled = {j1,j2}
  Process = {w1,w2}
  MaxAttempts = 3
  LeaseDuration = 2
PROPERTY LeaseTakenOver
