CONSTANTS
  m1 = m1
  Msgs = {m1}
  MaxDequeueCount = 2
  MaxRetries = 1
  Profiles <- Choosing
SPECIFICATION Spec
CHECK_DEADLOCK FALSE
INVARIANTS
  VisibleHasContent
  RejectedWasRefused
  SettledIsComplete
  NotifiedCanRead
  ChoicesRespected
  NotifiedOnce
