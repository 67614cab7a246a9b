\* Expected violation: two refreshes of one token in flight together.
SPECIFICATION Spec
CONSTANTS
  Req = {r1, r2, r3}
  Email = {e1}
  None = None
SYMMETRY Symmetry
INVARIANT RotatedOnce
