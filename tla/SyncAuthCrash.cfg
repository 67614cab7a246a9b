\* Expected violation: auth-service dies between its commit and its publish.
SPECIFICATION FairSpec
CONSTANTS
  User = {u1, u2}
  Email = {e1, e2}
  None = None
  Faults = {"authCrash"}
  MaxFaults = 1
CHECK_DEADLOCK FALSE
PROPERTY
  RegisteredIsSynced
