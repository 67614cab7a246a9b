\* Any two requests: an account and what it does next, or two that compete.
SPECIFICATION FairSpec
CONSTANTS
  Req = {r1, r2}
  None = None
INVARIANTS
  TypeOK
  ActsForAccount
  UnauthorizedIsExplained
PROPERTIES
  ImplementsRemoteCall
  EveryCallIsAnswered
  DrainEnds
