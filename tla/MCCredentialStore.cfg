\* Three callers race, crash and come back over two power losses.
SPECIFICATION Spec
CONSTANTS
  Callers = {c1, c2, c3}
  None = None
  MaxLosses = 2
  c1 = c1
  c2 = c2
  c3 = c3
SYMMETRY Symmetry
INVARIANTS NeverPartial OneCredential
CHECK_DEADLOCK FALSE
