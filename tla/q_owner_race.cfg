CONSTANTS
  Projects = {p}
  Jobs = {1, 2, 3}
  Workers = {w1}
  None = None
  Last = 2
  MaxAttempts = 2
  Guarded = {1}
  Capable <- AllCapable
  Faults = {"ownerRace"}
  MaxFaults = 0
  MaxResumes = 1
SPECIFICATION Spec
INVARIANT NoStrandedPlan
CHECK_DEADLOCK FALSE
