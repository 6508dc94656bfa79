CONSTANTS
  None = None
  NewProjects = {TRUE, FALSE}
  HasUI = TRUE
  MaxIterations = 2
  MaxAttempts = 1
  PlatformVerdicts = {"PASS", "FAIL"}
  RuntimeVerdicts = {"PASS", "NOT_STARTED"}
  VisualVerdicts <- AllVisual
  Owner = {"retry", "changes", "approve"}
  MaxResumes = 2
  Faults = {"crash", "error", "apiCrash", "boot"}
  MaxFaults = 2
SPECIFICATION Spec
INVARIANTS ReadyIsFresh CursorNeedsFoundation
PROPERTIES HistoryIsKept NoStrandedWork
CHECK_DEADLOCK FALSE
