\* Every process may have ended with nothing left to enqueue: the system stops there.
CHECK_DEADLOCK FALSE
SPECIFICATION FairSpec
CONSTANTS
  NoId = NoId
  EventId = {e1,e2}
  Process = {d1,d2}
  MaxAttempts = 2
  LeaseDuration = 2
INVARIANT TypeOK
INVARIANT OneSender
INVARIANT AttemptsCounted
PROPERTY ImplementsDelivery
PROPERTY EventuallySettled
