------------------------------- MODULE MCJobs -------------------------------
(***************************************************************************)
(* Small instances for TLC of the bodies of the jobs: provisioning, a run  *)
(* of Cursor, a session of the Council, a verification.  A project has one *)
(* active job (JobQueue) and they share no state but the project's         *)
(* document, whose way through the stages is Workflow: a behaviour is one  *)
(* of one body.                                                            *)
(***************************************************************************)
EXTENDS Provisioning, CursorRun, Council, Verification

CONSTANT Bodies     \* a subset of {"provisioning", "cursor", "council", "verification"}

VARIABLE body       \* the body that runs

jobsVars == <<body, provisionVars, cursorVars, councilVars, verifyVars>>

\* Something severe and something that is not.
TwoFindings ==
  { [issue |-> "overflow", category |-> "layout", severity |-> "HIGH"],
    [issue |-> "wording", category |-> "text", severity |-> "LOW"] }

PlanOf(steps, required) ==
  [workspace |-> TRUE, steps |-> steps, required |-> required, conflict |-> FALSE]

\* No workspace; required and optional steps; package managers that disagree;
\* nothing to be run.
SomePlans ==
  { [PlanOf({}, {}) EXCEPT !.workspace = FALSE],
    PlanOf({"install", "build", "audit"}, {"install", "build"}),
    [PlanOf({"build"}, {"build"}) EXCEPT !.conflict = TRUE],
    PlanOf({}, {}) }

\* A body that does not run has one state.
ProvisionIdle == ProvisionInit /\ asks = CHOOSE a \in Architectures : TRUE
CursorIdle == CursorInit /\ backend = CHOOSE b \in Backends : TRUE
VerifyIdle ==
  VerifyInit /\ world = [box |-> CHOOSE b \in Sandboxes : TRUE, plan |-> CHOOSE p \in Plans : TRUE,
                         kind |-> CHOOSE k \in AppKinds : TRUE, launchable |-> TRUE, tools |-> TRUE]

JobsInit ==
  /\ body \in Bodies
  /\ IF body = "provisioning" THEN ProvisionInit ELSE ProvisionIdle
  /\ IF body = "cursor" THEN CursorInit ELSE CursorIdle
  /\ CouncilInit
  /\ IF body = "verification" THEN VerifyInit ELSE VerifyIdle

OfProvisioning(A) ==
  body = "provisioning" /\ A /\ UNCHANGED <<body, cursorVars, councilVars, verifyVars>>
OfCursor(A) ==
  body = "cursor" /\ A /\ UNCHANGED <<body, provisionVars, councilVars, verifyVars>>
OfCouncil(A) ==
  body = "council" /\ A /\ UNCHANGED <<body, provisionVars, cursorVars, verifyVars>>
OfVerification(A) ==
  body = "verification" /\ A /\ UNCHANGED <<body, provisionVars, cursorVars, councilVars>>

JobsNext ==
  \/ OfProvisioning(ProvisionNext) \/ OfCursor(CursorNext)
  \/ OfCouncil(CouncilSteps) \/ OfVerification(VerifyNext)

\* The body that runs has the others disabled: their fairness is one.
JobsFairness ==
  WF_jobsVars(\/ OfProvisioning(ProvisionSteps \/ GeneratorTimeout \/ GeneratorObeys)
              \/ OfCursor(Steps \/ Timeout) \/ OfCouncil(CouncilSteps)
              \/ OfVerification(VerifySteps \/ CommandTimeout \/ Obeys))

JobsSpec == JobsInit /\ [][JobsNext]_jobsVars /\ JobsFairness
-----------------------------------------------------------------------------
\* The states of the bodies have their shapes.
JobsTypeOK == ProvisionTypeOK /\ CursorTypeOK /\ CouncilTypeOK /\ VerifyTypeOK

\* The body of a job always comes to an end, so that the queue may retry it or go
\* on: an attempt however silent its agent (withTimeout), a session whoever fails
\* (Promise.allSettled), a provisioning or a verification unless it waits for a
\* command that ignores SIGTERM (executeSandboxedCommand).
Busy == (Founding /\ ~GeneratorHangs) \/ Attempting \/ InSession \/ (Verifying /\ ~Stuck)
BodySettles == []<>~Busy
=============================================================================
