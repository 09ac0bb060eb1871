CONSTANTS
  MaxBackoffMs = 604800000
  MinBackoffMs = 285
  MaxDequeueCount = 22
  VisibilityTimeout = 30
  MaxTimeToLive = 604800
  MaxSkipped = 3
SPECIFICATION Spec
CHECK_DEADLOCK FALSE
INVARIANTS
  DelayIsBounded
  RetriesMatchDequeues
  LastAttemptIsTooLate
