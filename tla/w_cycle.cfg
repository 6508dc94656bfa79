CONSTANTS
  None = None
  NewProjects = {FALSE}
  HasUI = TRUE
  MaxIterations = 2
  MaxAttempts = 2
  PlatformVerdicts <- AllPlatform
  RuntimeVerdicts <- AllRuntime
  VisualVerdicts <- AllVisual
  Owner = {"changes", "approve"}
  MaxResumes = 1
  Faults = {"crash", "boot", "error"}
  MaxFaults = 2
SPECIFICATION Spec
INVARIANTS TypeOK ReadyIsVerified ReadyIsJudged ReadyIsDecidable ReviewFollowsVerification IterationsRunOnce
PROPERTY KeepsPromise
CHECK_DEADLOCK FALSE
