CONSTANTS
  i1 = i1
  i2 = i2
  i3 = i3
  Requests = {i1, i2, i3}
SYMMETRY Symmetry
SPECIFICATION Spec
CHECK_DEADLOCK FALSE
INVARIANTS
  EventIsOwn
  RefusedDoesNothing
