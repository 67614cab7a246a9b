\* Every kind of fault, four of them in a run; three users share two e-mails.
SPECIFICATION Spec
CONSTANTS
  User = {u1, u2, u3}
  Email = {e1, e2}
  None = None
  Faults = {"authCrash", "authConnection", "authDb", "userCrash", "userConsumer",
            "userPublisher", "userDb", "broker", "chatCrash", "chatConsumer",
            "chatDb", "directCreate"}
  MaxFaults = 4
SYMMETRY Symmetry
CHECK_DEADLOCK FALSE
INVARIANTS
  TypeOK
  AckedIsStored
  ReplicaIsProfile
PROPERTY
  ImplementsDirectory
