CONSTANTS
  r1 = r1
  r2 = r2
  Requests = {r1, r2}
  w1 = w1
  w2 = w2
  WelcomeMessages = {w1, w2}
  Msgs = {1, 2}
  MaxDequeueCount = 2
  MaxRetries = 1
SYMMETRY Symmetry
SPECIFICATION Spec
CHECK_DEADLOCK FALSE
PROPERTY
  ImplementsHistory
INVARIANTS
  TypeOK
  SuccessIsSaved
  EventTellsHistory
  EveryVersionHasEvent
  WelcomeOnEnableOnly
  WelcomeComplete
