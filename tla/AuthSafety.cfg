\* Four requests of any kind and order, two e-mails.
SPECIFICATION Spec
CONSTANTS
  Req = {r1, r2, r3, r4}
  Email = {e1, e2}
  None = None
SYMMETRY Symmetry
INVARIANTS
  TypeOK
  EmailUnique
  TokensAreBacked
  RotationLeavesNoParent
  UnauthorizedIsFinal
PROPERTIES
  ImplementsEvents
  ImplementsLedger
  SignedOutStays
