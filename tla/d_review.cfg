CONSTANTS
  None = None
  Requests = {r1, r2, r3}
  Worker = worker
  Kinds <- AllKinds
  MaxVersions = 2
  MaxCrashes = 1
SPECIFICATION Spec
SYMMETRY RequestSymmetry
INVARIANTS TypeOK LockHasHolder NotifiedOnce OneOutcome
PROPERTY OnlyTransitions
CHECK_DEADLOCK FALSE
