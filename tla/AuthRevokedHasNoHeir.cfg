\* Expected violation: a revocation between a refresh and its replacement row.
SPECIFICATION Spec
CONSTANTS
  Req = {r1, r2, r3}
  Email = {e1}
  None = None
SYMMETRY Symmetry
INVARIANT RevokedHasNoHeir
