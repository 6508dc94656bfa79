----------------------------- MODULE JobsProofs -----------------------------
(***************************************************************************)
(* The bodies of the jobs side by side: whichever body runs, the others    *)
(* stand still, so that each of them goes as its own specification says    *)
(* and what is proved of one by itself holds of all together, for every    *)
(* number of iterations, calls, generators and members and every fault.    *)
(***************************************************************************)
EXTENDS MCJobs, ProvisioningProofs, CursorRunProofs, CouncilProofs, VerificationProofs

JobsInv == ProvisionInv /\ CursorInv /\ CouncilInv /\ VerifyInv

\* A body that does not run begins in one of its own initial states.
LEMMA BodiesBegin ==
  ASSUME JobsInit
  PROVE  ProvisionInit /\ CursorInit /\ CouncilInit /\ VerifyInit
  BY DEF JobsInit, ProvisionIdle, CursorIdle, VerifyIdle

\* A body that runs takes a step and the others stutter.
LEMMA BodiesStep ==
  ASSUME [JobsNext]_jobsVars
  PROVE  /\ [ProvisionNext]_provisionVars /\ [CursorNext]_cursorVars
         /\ [CouncilSteps]_councilVars /\ [VerifyNext]_verifyVars
  <1>1. CASE OfProvisioning(ProvisionNext)
    BY <1>1 DEF OfProvisioning
  <1>2. CASE OfCursor(CursorNext)
    BY <1>2 DEF OfCursor
  <1>3. CASE OfCouncil(CouncilSteps)
    BY <1>3 DEF OfCouncil
  <1>4. CASE OfVerification(VerifyNext)
    BY <1>4 DEF OfVerification
  <1>5. CASE UNCHANGED jobsVars
    BY <1>5 DEF jobsVars
  <1>. QED
    BY <1>1, <1>2, <1>3, <1>4, <1>5 DEF JobsNext

LEMMA JobsNextKeeps ==
  ASSUME JobsInv, [JobsNext]_jobsVars
  PROVE  JobsInv'
  <1>1. ProvisionInv'
    BY BodiesStep, ProvisionNextKeeps DEF JobsInv
  <1>2. CursorInv'
    BY BodiesStep, CursorNextKeeps DEF JobsInv
  <1>3. CouncilInv'
    BY BodiesStep, CouncilNextKeeps DEF JobsInv
  <1>4. VerifyInv'
    BY BodiesStep, VerifyNextKeeps DEF JobsInv
  <1>. QED
    BY <1>1, <1>2, <1>3, <1>4 DEF JobsInv

LEMMA JobsInitHolds ==
  ASSUME JobsInit
  PROVE  JobsInv
  BY BodiesBegin, ProvisionInitHolds, CursorInitHolds, CouncilInitHolds, VerifyInitHolds DEF JobsInv

\* What the bodies have to do with each other is that one runs: the four
\* inductive invariants hold of all together.
THEOREM JobsInvariant == JobsSpec => []JobsInv
  <1>1. JobsInit => JobsInv
    BY JobsInitHolds
  <1>2. JobsInv /\ [JobsNext]_jobsVars => JobsInv'
    BY JobsNextKeeps
  <1>. QED
    BY <1>1, <1>2, PTL DEF JobsSpec

\* The states of the four bodies have their shapes, whichever body runs.
THEOREM JobsTypeCorrect == JobsSpec => []JobsTypeOK
  <1>1. JobsInv => JobsTypeOK
    BY DEF JobsInv, JobsTypeOK, ProvisionInv, CursorInv, CouncilInv, VerifyInv
  <1>. QED
    BY <1>1, JobsInvariant, PTL

BodiesAsSpecified ==
  /\ ProvisionInit /\ [][ProvisionNext]_provisionVars
  /\ CursorInit /\ [][CursorNext]_cursorVars
  /\ CouncilInit /\ [][CouncilSteps]_councilVars
  /\ VerifyInit /\ [][VerifyNext]_verifyVars

\* Each body goes as its own specification has it, but for its fairness, which
\* only the body that runs is given: the bodies are not changed by being checked
\* side by side.
THEOREM JobsImplementBodies == JobsSpec => BodiesAsSpecified
  <1>1. JobsInit => ProvisionInit /\ CursorInit /\ CouncilInit /\ VerifyInit
    BY BodiesBegin
  <1>2. [JobsNext]_jobsVars =>
          /\ [ProvisionNext]_provisionVars /\ [CursorNext]_cursorVars
          /\ [CouncilSteps]_councilVars /\ [VerifyNext]_verifyVars
    BY BodiesStep
  <1>. QED
    BY <1>1, <1>2, PTL DEF JobsSpec, BodiesAsSpecified

BodiesAreSafe ==
  /\ FoundationIsWhole /\ BaselineIsClean /\ BaselineAgrees
  /\ SecretsStayOut /\ ResultHasItsWork
  /\ CallBudget /\ QuorumBacksVerdict /\ MinorityHeard
  /\ PassIsEarned /\ LaunchedPassIsEarned /\ NothingLeftRunning

\* Every invariant of the bodies holds of the specification it is checked on.
THEOREM JobsAreSafe == JobsSpec => []BodiesAreSafe
  <1>1. ASSUME JobsInv
        PROVE  BodiesAreSafe
    <2>. USE <1>1 DEF JobsInv
    <2>1. FoundationIsWhole
      BY DEF ProvisionInv, FoundationIsWhole, CursorHasRun, SavedIsSound, HasPlanned
    <2>2. BaselineIsClean /\ BaselineAgrees
      BY DEF ProvisionInv, BaselineAgrees, SavedIsSound
    <2>3. SecretsStayOut /\ ResultHasItsWork
      BY DEF CursorInv
    <2>4. CallBudget
      BY BudgetBounds DEF CouncilInv
    <2>5. QuorumBacksVerdict /\ MinorityHeard
      BY VerdictHasQuorum, VerdictHears
    <2>6. PassIsEarned /\ LaunchedPassIsEarned /\ NothingLeftRunning
      BY DEF VerifyInv
    <2>. QED
      BY <2>1, <2>2, <2>3, <2>4, <2>5, <2>6 DEF BodiesAreSafe
  <1>2. JobsInv => BodiesAreSafe
    BY <1>1
  <1>. QED
    BY <1>2, JobsInvariant, PTL

\* What the bodies may never do, they never do side by side: a foundation that
\* passed is final, no change is lost but one that an agent undoes, and as long as
\* no call was given up on only lost runs are cancelled.
THEOREM JobsStepsAreSafe ==
  JobsSpec => FoundationIsFinal /\ EditsAreKept /\ OnlyLostRunsAreCancelled
  <1>1. JobsInv /\ [JobsNext]_jobsVars =>
          [foundation.runs # <<>> =>
             /\ foundation'.runs = foundation.runs /\ foundation'.provisioned = foundation.provisioned
             /\ repo'.commits = repo.commits
             /\ \A n \in Generators : generator[n].state = "none" => generator'[n].state = "none"]_provisionVars
    BY BodiesStep, SavedIsFinal DEF JobsInv
  <1>2. JobsInv /\ [JobsNext]_jobsVars =>
          [Everything \subseteq Everything' \/ \E c \in Calls : AgentDrops(c)]_cursorVars
    BY BodiesStep, StepKeepsEdits DEF JobsInv
  <1>3. JobsInv /\ [JobsNext]_jobsVars =>
          [\A c \in Calls : ~call[c].cancelled /\ call'[c].cancelled => ~owned \/ GaveUp']_cursorVars
    BY BodiesStep, StepCancelsLost DEF JobsInv
  <1>. QED
    BY <1>1, <1>2, <1>3, JobsInvariant, PTL
       DEF JobsSpec, FoundationIsFinal, EditsAreKept, OnlyLostRunsAreCancelled
=============================================================================
