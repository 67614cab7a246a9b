\* Crashes of the two services, each followed by a restart, lost consumers, POST /users.
SPECIFICATION FairSpec
CONSTANTS
  User = {u1, u2}
  Email = {e1, e2}
  None = None
  Faults = {"userCrash", "userConsumer", "chatCrash", "chatConsumer", "directCreate"}
  MaxFaults = 4
CHECK_DEADLOCK FALSE
INVARIANTS
  DropHasCause
  AckedIsOnItsWay
  RegisteredIsOnItsWay
PROPERTIES
  RegisteredIsSettled
  SyncedIsReplicated
