\* Every body, backend, sandbox and kind of application, with every fault.
CONSTANTS
  Bodies = {"provisioning", "cursor", "council", "verification"}
  Architectures = {"live", "council", "ios", "unsupported"}
  MaxGenerators = 2
  ProvisionFaults = {"crash", "error", "stubborn"}
  Backends = {"ACP", "CLOUD"}
  MaxIterations = 2
  MaxCalls = 2
  MaxChanges = 2
  MaxOwnCommits = 1
  CursorFaults = {"crash", "error", "stop", "lease"}
  Members = {m1, m2, m3}
  Vision = {m1, m2}
  Chair = chair
  MinResponses = 2
  MaxRetries = 1
  MaxRepairs = 1
  MaxReasoning = 3
  Findings <- TwoFindings
  SessionKinds = {"discover", "review", "final", "visual", "architecture"}
  Sandboxes = {"local", "container"}
  AppKinds = {"WEB_UI", "BACKEND", "CLI", "DESKTOP", "MOBILE", "UNKNOWN"}
  Plans <- SomePlans
  VerifyFaults = {"crash", "error", "stubborn", "docker"}
SPECIFICATION JobsSpec
INVARIANTS
  JobsTypeOK FoundationIsWhole BaselineIsClean BaselineAgrees
  SecretsStayOut ResultHasItsWork
  CallBudget QuorumBacksVerdict MinorityHeard
  PassIsEarned LaunchedPassIsEarned 
PROPERTIES
  FoundationIsFinal EditsAreKept OnlyLostRunsAreCancelled BodySettles
CHECK_DEADLOCK FALSE
