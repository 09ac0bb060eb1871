CONSTANTS
  m1 = m1
  Msgs = {m1}
  MaxDequeueCount = 2
  MaxRetries = 1
  Profiles <- Deciding
SPECIFICATION FairAddressSpec
CHECK_DEADLOCK FALSE
INVARIANTS
  ApiTypeOK
  RefusedIsInvisible
  ToldIsTrue
PROPERTIES
  CreatedIsHandled
