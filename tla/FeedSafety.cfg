\* Four sends that may share a millisecond, pages of two.
SPECIFICATION Spec
CONSTANTS
  Msg = {m1, m2, m3, m4}
  Limit = 2
  MaxTime = 2
  None = None
SYMMETRY Symmetry
CHECK_DEADLOCK FALSE
INVARIANTS
  TypeOK
  ShowsTheLatest
  SkippedHasCause
PROPERTY
  NeverTwice
