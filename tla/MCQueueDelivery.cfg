CONSTANTS
  m1 = m1
  Msgs = {m1}
  MaxDequeueCount = 4
  MaxRetries = 3
SPECIFICATION FairQueueSpec
CHECK_DEADLOCK FALSE
INVARIANTS
  QueueTypeOK
  WorkHoldsLease
  PoisonedOnce
  NeverLost
PROPERTIES
  ImplementsRetryQueue
  EventuallySettled
