\* Three requests: a conversation, and what two of its three users do with it.
SPECIFICATION Spec
CONSTANTS
  Req = {r1, r2, r3}
  User = {a, b, x}
  Nowhere = Nowhere
  Empty = Empty
  None = None
SYMMETRY Symmetry
CHECK_DEADLOCK FALSE
INVARIANTS
  TypeOK
  MembersOnly
  StoresAgree
  SentIsVisible
  StaleHasCause
PROPERTIES
  ImplementsRemoteCall
