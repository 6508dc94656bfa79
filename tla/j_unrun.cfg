\* Desktop applications: nothing of them is executed.
CONSTANTS
  Bodies = {"verification"}
  Architectures = {"live", "council", "ios", "unsupported"}
  MaxGenerators = 2
  ProvisionFaults = {"crash", "error", "stubborn"}
  Backends = {"ACP", "CLOUD"}
  MaxIterations = 1
  MaxCalls = 1
  MaxChanges = 1
  MaxOwnCommits = 1
  CursorFaults = {"crash", "error", "stop", "lease"}
  Members = {m1, m2, m3}
  Vision = {m1, m2}
  Chair = chair
  MinResponses = 2
  MaxRetries = 1
  MaxRepairs = 1
  MaxReasoning = 3
  Findings <- TwoFindings
  SessionKinds = {"discover", "review", "final", "visual", "architecture"}
  Sandboxes = {"local", "container"}
  AppKinds = {"DESKTOP"}
  Plans <- SomePlans
  VerifyFaults = {}
SPECIFICATION JobsSpec
INVARIANT RuntimePassIsEarned
CHECK_DEADLOCK FALSE
