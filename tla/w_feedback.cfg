CONSTANTS
  None = None
  NewProjects = {FALSE}
  HasUI = FALSE
  MaxIterations = 2
  MaxAttempts = 1
  PlatformVerdicts = {"PASS"}
  RuntimeVerdicts = {"PASS"}
  VisualVerdicts <- AllVisual
  Owner = {"changes"}
  MaxResumes = 1
  Faults = {}
  MaxFaults = 0
SPECIFICATION Spec
INVARIANT FeedbackReachesCursor
CHECK_DEADLOCK FALSE
