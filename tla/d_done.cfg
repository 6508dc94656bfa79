CONSTANTS
  None = None
  Requests = {r1, r2, r3}
  Worker = worker
  Kinds = {"approve", "open", "stop"}
  MaxVersions = 1
  MaxCrashes = 0
SPECIFICATION Spec
PROPERTY DoneIsFinal
CHECK_DEADLOCK FALSE
