CONSTANTS
  s1 = s1
  s2 = s2
  Services = {s1, s2}
  r1 = r1
  r2 = r2
  Requests = {r1, r2}
  MaxVersion = 3
  InOrder = FALSE
SYMMETRY Symmetry
SPECIFICATION Spec
INVARIANT
  TakesLatestVersion
