CONSTANTS
  None = None
  NewProjects = {FALSE}
  HasUI = TRUE
  MaxIterations = 1
  MaxAttempts = 1
  PlatformVerdicts <- AllPlatform
  RuntimeVerdicts = {"PASS"}
  VisualVerdicts <- AllVisual
  Owner = {"retry"}
  MaxResumes = 1
  Faults = {}
  MaxFaults = 0
SPECIFICATION Spec
INVARIANT ReadyIsVerified
CHECK_DEADLOCK FALSE
