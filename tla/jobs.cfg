\* Every process may have ended with nothing left to enqueue: the system stops there.
CHECK_DEADLOCK FALSE
SPECIFICATION FairSpec
CONSTANTS
  NoId = NoId
  JobId = {j1,j2}
  Handled = {j1}
  Process = {w1,w2,w3}
  MaxAttempts = 2
  LeaseDuration = 2
INVARIANT TypeOK
INVARIANT OneRunner
INVARIANT AttemptsCounted
PROPERTY ImplementsWork
PROPERTY EventuallySettled
