CONSTANTS
  m1 = m1
  Msgs = {m1}
  MaxDequeueCount = 3
  MaxRetries = 2
  Answers <- MCAnswers
SPECIFICATION Spec
CHECK_DEADLOCK FALSE
INVARIANT
  GivenUpIsFailed
