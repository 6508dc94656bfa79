CONSTANTS
  Projects = {p}
  Jobs = {1, 2, 3}
  Workers = {w1, w2}
  None = None
  Last = 2
  MaxAttempts = 2
  Guarded = {1}
  Capable <- AllCapable
  Faults = {"crash", "stop", "apiCrash", "workError", "eventError", "failLost",
            "slowHeartbeat", "abortedDrain", "ownerRace", "deadLetterRace"}
  MaxFaults = 3
  MaxResumes = 1
SPECIFICATION Spec
SYMMETRY WorkerSymmetry
INVARIANTS TypeOK OneActivePerProject HolderExecutes
CHECK_DEADLOCK FALSE
