\* Expected violation: the consumer connection breaks while nothing is being handled.
SPECIFICATION FairSpec
CONSTANTS
  User = {u1, u2}
  Email = {e1, e2}
  None = None
  Faults = {"userConsumer"}
  MaxFaults = 1
CHECK_DEADLOCK FALSE
PROPERTY
  RegisteredIsReplicated
