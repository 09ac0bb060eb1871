CONSTANTS
  s1 = s1
  Services = {s1}
  r1 = r1
  r2 = r2
  Requests = {r1, r2}
  MaxVersion = 5
  InOrder = TRUE
SPECIFICATION FairSpec
INVARIANTS
  TypeOK
  TakesLatestVersion
PROPERTIES
  NeverGoesBack
  EventuallyListed
