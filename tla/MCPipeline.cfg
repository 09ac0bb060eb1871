CONSTANTS
  m1 = m1
  r1 = r1
  Msgs = {m1}
  Readers = {r1}
  MaxDequeueCount = 2
  MaxRetries = 0
  DeliveryTries = 1
  Profiles <- Willing
SPECIFICATION NoAddressSpec
CHECK_DEADLOCK FALSE
INVARIANTS
  ReachedCanRead
  PromisedIsReadable
  ReplyTellsTruth
