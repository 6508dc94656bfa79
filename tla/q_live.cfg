CONSTANTS
  Projects = {p}
  Jobs = {1, 2, 3, 4, 5, 6, 7}
  Workers = {w1, w2, w3}
  None = None
  Last = 2
  MaxAttempts = 2
  Guarded = {1}
  Capable <- AllCapable
  Faults = {"crash", "stop", "workError", "failLost"}
  MaxFaults = 1
  MaxResumes = 1
SPECIFICATION FairSpec
INVARIANTS NoStrandedPlan ExclusiveExecution
PROPERTIES WorkGetsDone SettledIsFinal ProgressIsKept
CHECK_DEADLOCK FALSE
