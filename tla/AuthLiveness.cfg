\* Three requests under the fairness of the event loop: answers, what they mean, and shutdown.
SPECIFICATION FairSpec
CONSTANTS
  Req = {r1, r2, r3}
  Email = {e1}
  None = None
PROPERTIES
  RequestsFinish
  ShutdownEnds
  DeadTokenIsRefused
  ImplementsRemoteCall
