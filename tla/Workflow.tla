------------------------------ MODULE Workflow ------------------------------
(***************************************************************************)
(* The workflow of one real (not demo) project: its saved document, the    *)
(* job that is queued for it, and the orchestrator that moves the document *)
(* on when a worker executes that job (orchestrator/orchestrator.js), with *)
(* the completion gate, the evidence lineage, the owner's commands and the *)
(* git worktree Cursor edits.                                              *)
(*                                                                         *)
(* At most one worker executes a job of a project, which is what the       *)
(* theorems and runs of JobQueue are about, so the document an execution   *)
(* holds in memory is the saved one: `doc' is both, an action is what      *)
(* happens up to one save, and a crash may come between any two.  A handler *)
(* that goes on after a save does what executeJob would do if it looked at  *)
(* the saved document again, so every handler returns to pc "start".        *)
(***************************************************************************)
EXTENDS Naturals, Sequences

CONSTANTS
  None,              \* null
  NewProjects,       \* whether the project starts without a repository: a set of answers
  HasUI,             \* whether its runtime plan requires a visual review
  MaxIterations,     \* MAX_AUTONOMOUS_ITERATIONS
  MaxAttempts,       \* JOB_MAX_ATTEMPTS
  PlatformVerdicts,  \* outcomes of a platform verification
  RuntimeVerdicts,   \* outcomes of a runtime verification
  VisualVerdicts,    \* outcomes of a visual review
  Owner,             \* the owner's commands, a subset of OwnerCommands
  MaxResumes,        \* bound: how many commands resume the project
  Faults,            \* what the environment may do, a subset of FaultKinds
  MaxFaults          \* bound: how many faults a behaviour has

OwnerCommands == {"retry", "changes", "approve"}

FaultKinds == { "crash",     \* the process that executes the job dies
                "error",     \* a call of a handler throws
                "apiCrash",  \* the API dies between two steps of a command
                "boot" }     \* a process starts and runs recoverOnBoot

\* PARTIAL: only steps that are not required fail.  BLOCKED: a blocking failure
\* (conflicting lockfiles) with the build, the tests and the lint all passing.
PlatformOutcomes == {"PASS", "PARTIAL", "FAIL", "BLOCKED"}
RuntimeOutcomes == {"PASS", "FAIL", "NOT_STARTED", "NOT_RUN"}
VisualOutcomes == {"COMPLETE", "CHANGES_REQUIRED"}
Decisions == {"COMPLETE", "CHANGES_REQUIRED"}

ASSUME WorkflowAssumption ==
  /\ None \notin Nat
  /\ NewProjects \subseteq BOOLEAN /\ HasUI \in BOOLEAN
  /\ MaxIterations \in Nat \ {0} /\ MaxAttempts \in Nat \ {0}
  /\ PlatformVerdicts \subseteq PlatformOutcomes
  /\ RuntimeVerdicts \subseteq RuntimeOutcomes
  /\ VisualVerdicts \subseteq VisualOutcomes
  /\ Owner \subseteq OwnerCommands /\ MaxResumes \in Nat
  /\ Faults \subseteq FaultKinds /\ MaxFaults \in Nat

VARIABLES
  doc,       \* the project as its store saves it
  tree,      \* the managed git worktree
  job,       \* type of the active row of the jobs table, None without one
  attempts,  \* attempts of that row
  pc,        \* where the execution of the job is
  call,      \* the second step of an owner's command that is under way
  listed,    \* the job a booting process has planned, to be reconciled
  faults,    \* faults so far
  resumes    \* commands that resumed the project so far

vars == <<doc, tree, job, attempts, pc, call, listed, faults, resumes>>
queueVars == <<job, attempts>>
envVars == <<call, listed, faults, resumes>>

-----------------------------------------------------------------------------
(* The state machine of a project *)

\* transitions of states.js.
Targets ==
  [ IDEA_SUBMITTED |-> {"COUNCIL_DISCOVERY", "FAILED"},
    COUNCIL_DISCOVERY |-> {"SPECIFICATION_READY", "FAILED"},
    SPECIFICATION_READY |-> {"PROJECT_PROVISIONING", "CURSOR_EXECUTING", "FAILED"},
    PROJECT_PROVISIONING |-> {"CURSOR_EXECUTING", "FAILED"},
    CURSOR_EXECUTING |-> {"PLATFORM_VERIFICATION", "FAILED"},
    PLATFORM_VERIFICATION |-> {"RUNTIME_VERIFICATION", "COUNCIL_REVIEW", "FAILED"},
    RUNTIME_VERIFICATION |-> {"VISUAL_VERIFICATION", "COUNCIL_REVIEW", "FAILED"},
    VISUAL_VERIFICATION |-> {"COUNCIL_REVIEW", "FAILED"},
    COUNCIL_REVIEW |-> {"CURSOR_EXECUTING", "SPECIFICATION_READY", "FINAL_VERIFICATION", "FAILED"},
    FINAL_VERIFICATION |-> {"CURSOR_EXECUTING", "SPECIFICATION_READY", "DELIVERY_PREPARATION", "FAILED"},
    DELIVERY_PREPARATION |-> {"READY_FOR_OWNER_REVIEW", "FAILED"},
    READY_FOR_OWNER_REVIEW |-> {"OWNER_APPROVED", "OWNER_CHANGES_REQUESTED"},
    OWNER_CHANGES_REQUESTED |-> {"COUNCIL_DISCOVERY", "FAILED"},
    OWNER_APPROVED |-> {"DONE"},
    DONE |-> {},
    FAILED |-> {"IDEA_SUBMITTED", "COUNCIL_DISCOVERY", "SPECIFICATION_READY", "CURSOR_EXECUTING",
                "PROJECT_PROVISIONING", "PLATFORM_VERIFICATION", "RUNTIME_VERIFICATION",
                "VISUAL_VERIFICATION", "COUNCIL_REVIEW", "FINAL_VERIFICATION", "DELIVERY_PREPARATION"} ]

States == DOMAIN Targets

Legal(from, to) == to \in Targets[from]

OwnerTerminal == {"READY_FOR_OWNER_REVIEW", "OWNER_APPROVED", "DONE"}

Verifying == {"PLATFORM_VERIFICATION", "RUNTIME_VERIFICATION", "VISUAL_VERIFICATION"}

Working == States \ (OwnerTerminal \cup {"FAILED"})

BootResumable == Working \ {"DELIVERY_PREPARATION"}

-----------------------------------------------------------------------------
(* The document *)

Key == [sha: Nat, platform: Nat, runtime: Nat, visual: Nat]

DeliveryStatuses == {"PREPARING", "READY", "SUPERSEDED", "APPROVED"}

NoDelivery == [version |-> 0, key |-> None, status |-> None, decided |-> FALSE]

\* The deliveries are represented by the latest one: the older ones are all
\* superseded and no later delivery can have their key.  decided: an owner
\* review refers to it.  heard: how many of the cycles of owner feedback are
\* in the prompt of the specification.
Document ==
  [ state: States,
    failedIn: States \cup {None},
    error: BOOLEAN,
    isNew: BOOLEAN,
    spec: BOOLEAN,
    provisioned: BOOLEAN,
    iteration: Nat,
    runs: Seq([iteration: Nat, done: BOOLEAN, sha: Nat \cup {None}, favourable: BOOLEAN]),
    verified: Seq([iteration: Nat, sha: Nat, verdict: PlatformOutcomes]),
    launched: Seq([iteration: Nat, sha: Nat, verdict: RuntimeOutcomes]),
    seen: Seq([iteration: Nat, sha: Nat, of: Nat, verdict: VisualOutcomes \cup {"NOT_APPLICABLE"}]),
    review: [0..MaxIterations -> Decisions \cup {None}],
    final: [count: Nat, decision: Decisions \cup {None}],
    delivery: [version: Nat, key: Key \cup {None},
               status: DeliveryStatuses \cup {None}, decided: BOOLEAN],
    cycles: Nat,
    heard: Nat,
    pending: BOOLEAN ]

NewDocument(new) ==
  [ state |-> "IDEA_SUBMITTED", failedIn |-> None, error |-> FALSE,
    isNew |-> new, spec |-> FALSE, provisioned |-> FALSE, iteration |-> 0,
    runs |-> <<>>, verified |-> <<>>, launched |-> <<>>, seen |-> <<>>,
    review |-> [i \in 0..MaxIterations |-> None],
    final |-> [count |-> 0, decision |-> None],
    delivery |-> NoDelivery, cycles |-> 0, heard |-> 0, pending |-> FALSE ]

\* What a save keeps: the pending feedback has no column.
Stored(d) == [d EXCEPT !.pending = FALSE]

NeedsProvisioning(d) == d.isNew /\ ~d.provisioned

\* latestVerificationRun and its likes: the last record of an iteration or,
\* without one, the last record of all; 0 when there is none.
Latest(records, i) ==
  LET own == {k \in DOMAIN records : records[k].iteration = i}
  IN  IF own = {} THEN Len(records)
      ELSE CHOOSE k \in own : \A l \in own : l <= k

HasRun(d) == d.runs # <<>>

LastRun(d) == d.runs[Len(d.runs)]

\* Whether a record is of the commit of the last Cursor run; a run that is
\* not done has no commit to compare with.
IsCurrent(d, record) == LastRun(d).sha \in {None, record.sha}

Blocks(verdict) == verdict \in {"FAIL", "BLOCKED", "NOT_STARTED", "CHANGES_REQUIRED"}

\* The verdict of the latest record of an iteration, None without one.
VerdictOn(records, i) ==
  LET k == Latest(records, i) IN IF k = 0 THEN None ELSE records[k].verdict

SkipsVisual(verdict) == ~HasUI \/ verdict \in {None, "NOT_STARTED"}

\* verificationSetHash and finalCheckpointSha.
KeyOf(d) ==
  LET i == LastRun(d).iteration
  IN  [sha |-> LastRun(d).sha, platform |-> Latest(d.verified, i),
       runtime |-> Latest(d.launched, i), visual |-> Latest(d.seen, i)]

-----------------------------------------------------------------------------
(* The gate and the lineage *)

\* The runtime and the visual reasons of the gate.  Nothing sets the
\* project's runtimePolicy: a project never launched has no such reason.
RuntimeAccepted(d) ==
  LET k == Latest(d.launched, LastRun(d).iteration)
  IN  k > 0 => IsCurrent(d, d.launched[k]) /\ d.launched[k].verdict = "PASS"

VisualAccepted(d) ==
  LET k == Latest(d.seen, LastRun(d).iteration)
  IN  HasUI /\ d.launched # <<>> =>
        /\ k > 0
        /\ IsCurrent(d, d.seen[k])
        /\ d.seen[k].of = Latest(d.launched, d.iteration)
        /\ d.seen[k].verdict # "CHANGES_REQUIRED"

\* canCompleteAutonomousWork.  The platform runs count through the evidence
\* of the last Cursor run, which starts as what Cursor claims.
GateOpen(d) ==
  /\ d.spec
  /\ HasRun(d)
  /\ LastRun(d).favourable
  /\ d.verified # <<>>
  /\ ~NeedsProvisioning(d)
  /\ RuntimeAccepted(d)
  /\ VisualAccepted(d)
  /\ d.review[LastRun(d).iteration] = "COMPLETE"
  /\ d.final.decision = "COMPLETE"
  /\ ~d.error
  /\ d.iteration <= MaxIterations

\* validateEvidenceLineage.
LineageValid(d) ==
  LET Fresh(records) ==
        LET k == Latest(records, LastRun(d).iteration)
        IN  k > 0 => records[k].sha = LastRun(d).sha
  IN  /\ d.spec /\ HasRun(d) /\ LastRun(d).done
      /\ Fresh(d.verified) /\ Fresh(d.launched) /\ Fresh(d.seen)
      /\ d.final.decision # None

-----------------------------------------------------------------------------
(* Jobs *)

\* nextJobType for the states that have one.
JobOf ==
  [ IDEA_SUBMITTED |-> "COUNCIL_DISCOVERY", COUNCIL_DISCOVERY |-> "COUNCIL_DISCOVERY",
    OWNER_CHANGES_REQUESTED |-> "COUNCIL_DISCOVERY",
    SPECIFICATION_READY |-> "CURSOR_EXECUTION", PROJECT_PROVISIONING |-> "PROJECT_PROVISIONING",
    CURSOR_EXECUTING |-> "CURSOR_EXECUTION",
    PLATFORM_VERIFICATION |-> "PLATFORM_VERIFICATION",
    RUNTIME_VERIFICATION |-> "RUNTIME_VERIFICATION",
    VISUAL_VERIFICATION |-> "VISUAL_VERIFICATION",
    COUNCIL_REVIEW |-> "COUNCIL_REVIEW", FINAL_VERIFICATION |-> "FINAL_VERIFICATION",
    DELIVERY_PREPARATION |-> "DELIVERY_PREPARATION" ]

JobTypes == {JobOf[s] : s \in DOMAIN JobOf}

\* What is left to do of a command.
CommandSteps == {"enqueue", "interpret", "close"}

\* null is none of the words that may stand in its place.
ASSUME NoneAssumption ==
  None \notin JobTypes \cup CommandSteps \cup DeliveryStatuses \cup Decisions
              \cup PlatformOutcomes \cup RuntimeOutcomes \cup VisualOutcomes

\* Mutant: the states that may be resumed on boot are taken for all that have
\* a job.
NextJobOnBoot(d) ==
  IF d.state \notin BootResumable THEN None
  ELSE IF d.state = "SPECIFICATION_READY" /\ NeedsProvisioning(d) THEN "PROJECT_PROVISIONING"
  ELSE JobOf[d.state]

NextJob(d) ==
  IF d.state \notin Working THEN None
  ELSE IF d.state = "SPECIFICATION_READY" /\ NeedsProvisioning(d) THEN "PROJECT_PROVISIONING"
  ELSE JobOf[d.state]

\* The states in which executeJob works on a job; in the others it returns.
\* A review or a final verification runs in whatever state is not excluded.
WorksIn ==
  [ COUNCIL_DISCOVERY |-> {"IDEA_SUBMITTED", "COUNCIL_DISCOVERY", "OWNER_CHANGES_REQUESTED"},
    PROJECT_PROVISIONING |-> {"SPECIFICATION_READY", "PROJECT_PROVISIONING"},
    CURSOR_EXECUTION |-> {"SPECIFICATION_READY", "PROJECT_PROVISIONING", "CURSOR_EXECUTING"},
    PLATFORM_VERIFICATION |-> {"CURSOR_EXECUTING", "PLATFORM_VERIFICATION"},
    RUNTIME_VERIFICATION |-> {"PLATFORM_VERIFICATION", "RUNTIME_VERIFICATION"},
    VISUAL_VERIFICATION |-> {"RUNTIME_VERIFICATION", "VISUAL_VERIFICATION"},
    COUNCIL_REVIEW |-> Working \ (Verifying \cup {"CURSOR_EXECUTING", "FINAL_VERIFICATION",
                                                  "DELIVERY_PREPARATION"}),
    FINAL_VERIFICATION |-> Working \ {"CURSOR_EXECUTING"},
    DELIVERY_PREPARATION |-> {"FINAL_VERIFICATION", "DELIVERY_PREPARATION"} ]

\* The step of executeJob that a job takes on a document.  A job for Cursor
\* makes the foundation first where it is missing.
StepOf(type, d) ==
  IF d.state \notin WorksIn[type] THEN "return"
  ELSE IF type = "COUNCIL_REVIEW" THEN "review"
  ELSE IF type = "FINAL_VERIFICATION" /\ d.state # "DELIVERY_PREPARATION" THEN "final"
  ELSE IF \/ type = "PROJECT_PROVISIONING" \/ d.state = "PROJECT_PROVISIONING"
          \/ d.state = "SPECIFICATION_READY" /\ NeedsProvisioning(d) THEN "provision"
  ELSE d.state

At(step) == pc = "start" /\ StepOf(job, doc) = step

Fault(kind) == /\ kind \in Faults
               /\ faults < MaxFaults
               /\ faults' = faults + 1

\* One save of the document; the execution goes on from the saved document.
Saves(d) == /\ doc' = Stored(d)
            /\ pc' = "start"
            /\ UNCHANGED <<tree, queueVars, envVars>>

Moves(d, to) == Legal(d.state, to) /\ Saves([d EXCEPT !.state = to])

\* The handler has saved that it begins, and calls what may take long.
Calls(where) == /\ pc' = where
                /\ UNCHANGED <<doc, tree, queueVars, envVars>>

\* orchestrator.fail.
FailedDocument(d) ==
  IF d.state \in Working
  THEN [d EXCEPT !.error = TRUE, !.state = "FAILED", !.failedIn = d.state]
  ELSE [d EXCEPT !.error = TRUE]

\* The handler throws: the job is queued again, or dead-lettered and the
\* project fails.
Throws(retryable) ==
  /\ pc' = "idle"
  /\ IF retryable /\ attempts < MaxAttempts
     THEN UNCHANGED <<doc, queueVars>>
     ELSE /\ doc' = FailedDocument(doc)
          /\ job' = None
          /\ attempts' = 0

Rejects(retryable) == Throws(retryable) /\ UNCHANGED <<tree, envVars>>

-----------------------------------------------------------------------------
(* executeJob: discovery and provisioning *)

\* submit has created the project and not yet enqueued its first job.
Init ==
  /\ doc \in {NewDocument(new) : new \in NewProjects}
  /\ tree = [head |-> 1, dirty |-> FALSE]
  /\ job = None /\ attempts = 0
  /\ pc = "idle"
  /\ call = "enqueue"
  /\ listed = None
  /\ faults = 0 /\ resumes = 0

\* A row is claimed whatever its attempts: after a crash recoverExpiredLeases
\* queues it again without a look at them, so they may pass JOB_MAX_ATTEMPTS.
Claim ==
  /\ pc = "idle" /\ job # None
  /\ pc' = "start"
  /\ attempts' = attempts + 1
  /\ UNCHANGED <<doc, tree, job, envVars>>

\* executeJob has returned: the job completes and hands off to the next one.
HandOff ==
  /\ At("return")
  /\ job' = NextJob(doc)
  /\ attempts' = 0
  /\ pc' = "idle"
  /\ UNCHANGED <<doc, tree, envVars>>

EnterDiscovery ==
  /\ At("IDEA_SUBMITTED") \/ At("OWNER_CHANGES_REQUESTED")
  /\ Moves(doc, "COUNCIL_DISCOVERY")

\* ensureDiscovery with a valid specification, applyOwnerFeedback included.
RecoverSpec ==
  /\ At("COUNCIL_DISCOVERY") /\ doc.spec
  /\ Moves(IF doc.pending THEN [doc EXCEPT !.heard = doc.cycles] ELSE doc, "SPECIFICATION_READY")

BeginDiscovery == At("COUNCIL_DISCOVERY") /\ ~doc.spec /\ Calls("discovering")

Discover ==
  /\ pc = "discovering"
  /\ Moves([doc EXCEPT !.spec = TRUE], "SPECIFICATION_READY")

\* finishProvisioning when the foundation is there already.
SkipProvisioning ==
  /\ At("provision") /\ doc.provisioned
  /\ Moves(doc, "CURSOR_EXECUTING")

\* Mutant: the way of a project with a repository is taken for every project.
EnterImplementation ==
  /\ At("provision") /\ ~doc.provisioned /\ doc.state = "SPECIFICATION_READY"
  /\ Moves(doc, "CURSOR_EXECUTING")

EnterProvisioning ==
  /\ At("provision") /\ ~doc.provisioned /\ doc.state = "SPECIFICATION_READY"
  /\ Moves(doc, "PROJECT_PROVISIONING")

BeginProvisioning ==
  /\ At("provision") /\ ~doc.provisioned /\ doc.state = "PROJECT_PROVISIONING"
  /\ Calls("provisioning")

Provision ==
  /\ pc = "provisioning"
  /\ Saves([doc EXCEPT !.provisioned = TRUE])

-----------------------------------------------------------------------------
(* executeJob: Cursor *)

\* Mutant: off by one at the limit.
CanRequestOneMore(d) == /\ ~NeedsProvisioning(d)
                        /\ d.iteration <= MaxIterations
                        /\ Legal(d.state, "CURSOR_EXECUTING")

\* requestCursorRun with increment: true.
CanRequest(d) == /\ ~NeedsProvisioning(d)
                 /\ d.iteration < MaxIterations
                 /\ Legal(d.state, "CURSOR_EXECUTING")

RequestCursorRun(d) ==
  IF CanRequest(d)
  THEN Moves([d EXCEPT !.iteration = @ + 1], "CURSOR_EXECUTING")
  ELSE Rejects(NeedsProvisioning(d))

StartImplementation == At("SPECIFICATION_READY") /\ RequestCursorRun(doc)

\* Mutant: the stored result is not looked at, only an unfinished run is.
ReplayableByCheckpoint(d) ==
  /\ HasRun(d)
  /\ LastRun(d).iteration = d.iteration
  /\ ~LastRun(d).done /\ LastRun(d).sha = tree.head /\ ~tree.dirty

\* The run finishOrReplayCursor finds done: it has its result, or its stored
\* checkpoint is the clean head of the worktree (prepareInterruptedCursor).
ReplayableRun(d) ==
  /\ HasRun(d)
  /\ LastRun(d).iteration = d.iteration
  /\ LastRun(d).done \/ (LastRun(d).sha = tree.head /\ ~tree.dirty)

ReplayCursor ==
  /\ At("CURSOR_EXECUTING") /\ ReplayableRun(doc)
  /\ Moves([doc EXCEPT !.runs[Len(doc.runs)].done = TRUE], "PLATFORM_VERIFICATION")

\* Mutant: the last run is overwritten, whichever iteration it is of.
StartedOverLast(d, i) ==
  LET run == [iteration |-> i, done |-> FALSE, sha |-> None, favourable |-> FALSE]
  IN  IF HasRun(d) THEN [d.runs EXCEPT ![Len(d.runs)] = run] ELSE <<run>>

\* executeCursor up to the first save: the unfinished run of the iteration is
\* used again, or a new one is added.
StartedRuns(d, i) ==
  IF HasRun(d) /\ LastRun(d).iteration = i /\ ~LastRun(d).done
  THEN d.runs
  ELSE Append(d.runs, [iteration |-> i, done |-> FALSE, sha |-> None, favourable |-> FALSE])

StartCursor ==
  /\ At("CURSOR_EXECUTING") /\ ~ReplayableRun(doc)
  /\ LET i == IF doc.iteration = 0 THEN 1 ELSE doc.iteration
     IN  doc' = Stored([doc EXCEPT !.iteration = i, !.runs = StartedRuns(doc, i)])
  /\ pc' = "cursor"
  /\ UNCHANGED <<tree, queueVars, envVars>>

CursorEdits ==
  /\ pc = "cursor"
  /\ tree' = [tree EXCEPT !.dirty = TRUE]
  /\ UNCHANGED <<doc, queueVars, pc, envVars>>

CursorReturns == pc = "cursor" /\ Calls("postflight")

\* cursorPostflight: what is uncommitted becomes the checkpoint commit.
Checkpoint ==
  /\ pc = "postflight"
  /\ pc' = "committed"
  /\ tree' = IF tree.dirty
             THEN [head |-> tree.head + 1, dirty |-> FALSE]
             ELSE tree
  /\ UNCHANGED <<doc, queueVars, envVars>>

\* The evidence is what Cursor claims, taken to be favourable.
FinishedRun(run) == [run EXCEPT !.done = TRUE, !.sha = tree.head, !.favourable = TRUE]

SaveCursorResult ==
  /\ pc = "committed"
  /\ Saves([doc EXCEPT !.runs[Len(doc.runs)] = FinishedRun(@)])

-----------------------------------------------------------------------------
(* executeJob: platform, runtime and visual verification *)

\* findReusableVerification: any run that passed on the commit.
ReusableVerification(d) ==
  \E k \in DOMAIN d.verified : d.verified[k].verdict = "PASS" /\ d.verified[k].sha = LastRun(d).sha

\* Mutant: the commit the stored run is of is not compared.
AnyVerification(d) == Latest(d.verified, d.iteration) > 0

ExistingVerification(d) ==
  LET k == Latest(d.verified, d.iteration) IN k > 0 /\ IsCurrent(d, d.verified[k])

AfterPlatform(verdict) == IF Blocks(verdict) THEN "COUNCIL_REVIEW" ELSE "RUNTIME_VERIFICATION"

ReuseVerification ==
  /\ At("PLATFORM_VERIFICATION") /\ ReusableVerification(doc)
  /\ Moves([doc EXCEPT !.runs[Len(doc.runs)].favourable = TRUE], AfterPlatform("PASS"))

\* The stored run has no evidence patch: the evidence stays as it is.
ReplayVerification ==
  /\ At("PLATFORM_VERIFICATION") /\ ~ReusableVerification(doc) /\ ExistingVerification(doc)
  /\ Moves(doc, AfterPlatform(VerdictOn(doc.verified, doc.iteration)))

BeginVerification ==
  /\ At("PLATFORM_VERIFICATION") /\ ~ReusableVerification(doc) /\ ~ExistingVerification(doc)
  /\ Calls("verifying")

Verify ==
  /\ pc = "verifying"
  /\ \E v \in PlatformVerdicts :
       Saves([doc EXCEPT
                !.verified = Append(@, [iteration |-> doc.iteration, sha |-> LastRun(doc).sha, verdict |-> v]),
                !.runs[Len(doc.runs)].favourable = (v # "FAIL")])

\* findReusableRuntime, or the latest run when it is of the last commit.
KnownLaunch(d) ==
  LET reusable == {k \in DOMAIN d.launched : /\ d.launched[k].verdict = "PASS"
                                             /\ d.launched[k].iteration = d.iteration
                                             /\ d.launched[k].sha = LastRun(d).sha}
      k == Latest(d.launched, d.iteration)
  IN  IF reusable # {} THEN CHOOSE r \in reusable : \A s \in reusable : r <= s
      ELSE IF k > 0 /\ IsCurrent(d, d.launched[k]) THEN k ELSE 0

AfterRuntime(verdict) ==
  IF Blocks(verdict) \/ SkipsVisual(verdict) THEN "COUNCIL_REVIEW" ELSE "VISUAL_VERIFICATION"

ReplayRuntime ==
  /\ At("RUNTIME_VERIFICATION") /\ KnownLaunch(doc) > 0
  /\ Moves(doc, AfterRuntime(doc.launched[KnownLaunch(doc)].verdict))

BeginRuntime == At("RUNTIME_VERIFICATION") /\ KnownLaunch(doc) = 0 /\ Calls("launching")

Launch ==
  /\ pc = "launching"
  /\ \E v \in RuntimeVerdicts :
       Saves([doc EXCEPT !.launched =
                Append(@, [iteration |-> doc.iteration, sha |-> LastRun(doc).sha, verdict |-> v])])

\* findReusableVisual, or the latest review when it is of the last commit.
KnownReview(d) ==
  LET k == Latest(d.seen, d.iteration)
      r == Latest(d.launched, d.iteration)
  IN  \/ r > 0 /\ \E s \in DOMAIN d.seen : d.seen[s].of = r /\ d.seen[s].verdict = "COMPLETE"
      \/ k > 0 /\ IsCurrent(d, d.seen[k])

ReplayVisual == At("VISUAL_VERIFICATION") /\ KnownReview(doc) /\ Moves(doc, "COUNCIL_REVIEW")

BeginVisual == At("VISUAL_VERIFICATION") /\ ~KnownReview(doc) /\ Calls("looking")

\* Only a program that was launched left screenshots to look at.
VisualChoices(d) ==
  IF HasUI /\ VerdictOn(d.launched, d.iteration) \in {"PASS", "FAIL"}
  THEN VisualVerdicts ELSE {"NOT_APPLICABLE"}

Look ==
  /\ pc = "looking"
  /\ \E v \in VisualChoices(doc) :
       Moves([doc EXCEPT !.seen =
                Append(@, [iteration |-> doc.iteration, sha |-> LastRun(doc).sha,
                           of |-> Latest(doc.launched, doc.iteration), verdict |-> v])],
             "COUNCIL_REVIEW")

-----------------------------------------------------------------------------
(* executeJob: council review, final verification, delivery *)

BeginReview ==
  /\ At("review") /\ doc.review[doc.iteration] = None
  /\ IF HasRun(doc) THEN Calls("reviewing") ELSE Rejects(TRUE)

CouncilReview ==
  /\ pc = "reviewing"
  /\ \E v \in Decisions : Saves([doc EXCEPT !.review[doc.iteration] = v])

\* Mutant: the platform's verdict no longer overrides the council.
OverriddenByEyes(d) ==
  \/ Blocks(VerdictOn(d.launched, d.iteration))
  \/ Blocks(VerdictOn(d.seen, d.iteration))

\* The verdicts finishReview lets override a decision COMPLETE.
ReviewOverridden(d) ==
  \/ Blocks(VerdictOn(d.verified, d.iteration))
  \/ Blocks(VerdictOn(d.launched, d.iteration))
  \/ Blocks(VerdictOn(d.seen, d.iteration))

AfterReview ==
  /\ At("review") /\ doc.review[doc.iteration] # None
  /\ IF doc.review[doc.iteration] = "CHANGES_REQUIRED" \/ ReviewOverridden(doc)
     THEN RequestCursorRun([doc EXCEPT !.review[doc.iteration] = "CHANGES_REQUIRED"])
     ELSE IF Legal(doc.state, "FINAL_VERIFICATION")
     THEN Moves(doc, "FINAL_VERIFICATION")
     ELSE Rejects(FALSE)

\* Mutant: the final verification of an earlier set of runs counts.
FinalMatchesAny(d) == d.final.decision # None

FinalMatches(d) == d.final.decision # None /\ d.final.count = Len(d.runs)

BeginFinal == At("final") /\ ~FinalMatches(doc) /\ Calls("judging")

FinalVerify ==
  /\ pc = "judging"
  /\ \E v \in Decisions : Saves([doc EXCEPT !.final = [count |-> Len(doc.runs), decision |-> v]])

\* A final that requires changes is dropped in memory only; its row stays and
\* is what the next load finds.
AfterFinal ==
  /\ At("final") /\ FinalMatches(doc)
  /\ IF doc.final.decision = "CHANGES_REQUIRED" THEN RequestCursorRun(doc)
     ELSE IF ~GateOpen(doc) THEN Rejects(TRUE)
     ELSE IF Legal(doc.state, "DELIVERY_PREPARATION") THEN Moves(doc, "DELIVERY_PREPARATION")
     ELSE Rejects(FALSE)

\* Mutant: the latest delivery is updated, whatever evidence it is of.
PreparedAgain(d, status) ==
  IF d.delivery.key = None
  THEN [version |-> d.delivery.version + 1, key |-> KeyOf(d), status |-> status, decided |-> FALSE]
  ELSE [d.delivery EXCEPT !.status = status]

\* prepareDeliverySnapshot and the row persistPhase9 saves for it: a delivery
\* whose key has a row already takes over that row, and what refers to it.
Prepared(d, status) ==
  IF d.delivery.key # KeyOf(d)
  THEN [version |-> d.delivery.version + 1, key |-> KeyOf(d), status |-> status, decided |-> FALSE]
  ELSE IF d.delivery.status = "READY" THEN d.delivery
  ELSE [d.delivery EXCEPT !.status = status]

\* Mutant: notifications do not refer to the rows of deliveries.
NeverRefused(d) == FALSE

\* The delivery takes over a row the owner was notified of, but its own
\* notification refers to the id it had before: the save violates a foreign key.
Refused(d) == d.delivery.key = KeyOf(d) /\ d.delivery.status = "SUPERSEDED"

Offered(d) == [d EXCEPT !.delivery = Prepared(d, "READY"), !.state = "READY_FOR_OWNER_REVIEW"]

Deliver ==
  /\ At("DELIVERY_PREPARATION")
  /\ IF ~LineageValid(doc) THEN Rejects(FALSE)
     ELSE IF ~GateOpen(doc) \/ Refused(doc) THEN Rejects(TRUE)
     ELSE Saves(Offered(doc))

-----------------------------------------------------------------------------
(* The owner *)

\* resumeTargetAfterFailure.
ResumeTarget(d) ==
  LET done == HasRun(d) /\ LastRun(d).done
      i == LastRun(d).iteration
      platform == VerdictOn(d.verified, i)
      runtime == VerdictOn(d.launched, i)
  IN  IF ~d.spec THEN "COUNCIL_DISCOVERY"
      ELSE IF NeedsProvisioning(d) THEN "PROJECT_PROVISIONING"
      ELSE IF ~done THEN IF d.iteration > 0 \/ d.failedIn = "CURSOR_EXECUTING" \/ HasRun(d)
                         THEN "CURSOR_EXECUTING" ELSE "SPECIFICATION_READY"
      ELSE IF platform = None THEN "PLATFORM_VERIFICATION"
      ELSE IF ~Blocks(platform) /\ runtime = None THEN "RUNTIME_VERIFICATION"
      ELSE IF ~SkipsVisual(runtime) /\ d.seen = <<>> THEN "VISUAL_VERIFICATION"
      ELSE IF d.review[i] = None THEN "COUNCIL_REVIEW"
      ELSE IF d.review[i] = "COMPLETE" /\ d.final.decision = None THEN "FINAL_VERIFICATION"
      ELSE IF d.final.decision = "COMPLETE" /\ d.delivery.version = 0 THEN "DELIVERY_PREPARATION"
      ELSE "SPECIFICATION_READY"

Command(name) == name \in Owner /\ call = None

Resumes == resumes < MaxResumes /\ resumes' = resumes + 1

Retry ==
  /\ Command("retry") /\ doc.state = "FAILED" /\ Resumes
  /\ doc' = Stored([doc EXCEPT !.error = FALSE, !.failedIn = None, !.state = ResumeTarget(doc)])
  /\ call' = "enqueue"
  /\ UNCHANGED <<tree, queueVars, pc, listed, faults>>

\* recordOwnerDecision accepts a decision.
Decidable(d) ==
  /\ d.state = "READY_FOR_OWNER_REVIEW"
  /\ d.delivery.status = "READY" /\ d.delivery.key = KeyOf(d)
  /\ ~d.delivery.decided

RequestChanges ==
  /\ Command("changes") /\ Decidable(doc) /\ Resumes
  /\ doc' = Stored([doc EXCEPT !.state = "OWNER_CHANGES_REQUESTED",
                               !.delivery.status = "SUPERSEDED", !.delivery.decided = TRUE,
                               !.cycles = @ + 1, !.pending = TRUE])
  /\ call' = "interpret"
  /\ UNCHANGED <<tree, queueVars, pc, listed, faults>>

Approve ==
  /\ Command("approve") /\ Decidable(doc)
  /\ doc' = Stored([doc EXCEPT !.state = "OWNER_APPROVED",
                               !.delivery.status = "APPROVED", !.delivery.decided = TRUE])
  /\ call' = "close"
  /\ UNCHANGED <<tree, queueVars, pc, listed, faults, resumes>>

\* The second transition of approve and of requestChanges, of the document as
\* it is read again; it throws where a worker has moved the document on.
Continue(from, to, rest) ==
  /\ call = from
  /\ IF Legal(doc.state, to)
     THEN doc' = Stored([doc EXCEPT !.state = to]) /\ call' = rest
     ELSE UNCHANGED doc /\ call' = None
  /\ UNCHANGED <<tree, queueVars, pc, listed, faults, resumes>>

Interpret == Continue("interpret", "COUNCIL_DISCOVERY", "enqueue")

Close == Continue("close", "DONE", None)

\* enqueue does nothing while the project has an active row.
Inserts(type) == IF job = None THEN job' = type /\ attempts' = 0 ELSE UNCHANGED queueVars

Enqueue ==
  /\ call = "enqueue"
  /\ call' = None
  /\ Inserts(NextJob(doc))
  /\ UNCHANGED <<doc, tree, pc, listed, faults, resumes>>

-----------------------------------------------------------------------------
(* Failures, boots, Next *)

\* Any call of a handler, its saves included, may throw.
Error ==
  /\ pc # "idle" /\ Fault("error")
  /\ \E retryable \in BOOLEAN : Throws(retryable)
  /\ UNCHANGED <<tree, call, listed, resumes>>

\* The lease of the dead worker's row expires and the row is claimed again.
Crash ==
  /\ pc # "idle" /\ Fault("crash")
  /\ pc' = "idle"
  /\ UNCHANGED <<doc, tree, queueVars, call, listed, resumes>>

ApiCrash ==
  /\ call # None /\ Fault("apiCrash")
  /\ call' = None
  /\ UNCHANGED <<doc, tree, queueVars, pc, listed, resumes>>

\* recoverOnBoot lists what it may resume.
Boot ==
  /\ Fault("boot") /\ listed = None
  /\ doc.state \in BootResumable
  /\ listed' = NextJob(doc)
  /\ UNCHANGED <<doc, tree, queueVars, pc, call, resumes>>

\* The document a failing finishDelivery has got to: it throws before the
\* delivery is prepared, while it is, at the gate, or at a save that is retried.
HalfDelivered(d) ==
  {d} \cup
  IF ~LineageValid(d) THEN {}
  ELSE {[d EXCEPT !.delivery = Prepared(d, "PREPARING")]} \cup
       IF ~GateOpen(d) THEN {[d EXCEPT !.delivery = Prepared(d, "READY")]}
       ELSE IF Refused(d) THEN {} ELSE {Offered(d)}

\* recoverOnBoot finishes a delivery itself, here when no worker is at it.
\* After an error it saves what there is, with the error, without failing the
\* project.
BootDelivers ==
  /\ Fault("boot") /\ pc = "idle" /\ doc.state = "DELIVERY_PREPARATION"
  /\ \/ /\ LineageValid(doc) /\ GateOpen(doc) /\ ~Refused(doc)
        /\ doc' = Stored(Offered(doc))
     \/ \E d \in HalfDelivered(doc) : doc' = Stored([d EXCEPT !.error = TRUE])
  /\ UNCHANGED <<tree, queueVars, pc, call, listed, resumes>>

Reconcile ==
  /\ listed # None
  /\ listed' = None
  /\ Inserts(listed)
  /\ UNCHANGED <<doc, tree, pc, call, faults, resumes>>

Discovery == EnterDiscovery \/ RecoverSpec \/ BeginDiscovery \/ Discover

Provisioning == SkipProvisioning \/ EnterProvisioning \/ BeginProvisioning \/ Provision

Implementation ==
  StartImplementation \/ ReplayCursor \/ StartCursor \/ CursorReturns \/ Checkpoint \/ SaveCursorResult

Verification ==
  \/ ReuseVerification \/ ReplayVerification \/ BeginVerification \/ Verify
  \/ ReplayRuntime \/ BeginRuntime \/ Launch
  \/ ReplayVisual \/ BeginVisual \/ Look

Judgement == BeginReview \/ CouncilReview \/ AfterReview \/ BeginFinal \/ FinalVerify \/ AfterFinal \/ Deliver

\* What a worker does that executes the project's jobs.
Work == Claim \/ HandOff \/ Discovery \/ Provisioning \/ Implementation \/ Verification \/ Judgement

\* What an API process does that is not killed.
Api == Interpret \/ Close \/ Enqueue \/ Reconcile

Next ==
  \/ Work \/ CursorEdits
  \/ Retry \/ RequestChanges \/ Approve \/ Api
  \/ Error \/ Crash \/ ApiCrash \/ Boot \/ BootDelivers

\* Workers poll for jobs, their calls return or time out, and the API goes on
\* with a command it has begun; Cursor may never edit, the owner never come.
Fairness == WF_vars(Work) /\ WF_vars(Api)

Spec == Init /\ [][Next]_vars /\ Fairness

-----------------------------------------------------------------------------
(* Properties *)

Pcs == {"idle", "start", "discovering", "provisioning", "cursor", "postflight", "committed",
        "verifying", "launching", "looking", "reviewing", "judging"}

\* The document has the shape of the stored one, and the iteration stays
\* within MAX_AUTONOMOUS_ITERATIONS.
TypeOK ==
  /\ doc \in Document
  /\ doc.iteration \in 0..MaxIterations
  /\ tree \in [head: Nat, dirty: BOOLEAN]
  /\ job \in JobTypes \cup {None}
  /\ attempts \in Nat
  /\ pc \in Pcs
  /\ call \in CommandSteps \cup {None}
  /\ listed \in JobTypes \cup {None}
  /\ faults \in 0..MaxFaults /\ resumes \in 0..MaxResumes

FinalSha == LastRun(doc).sha

\* The latest record of the last Cursor run is of its commit.
Fresh(records) ==
  LET k == Latest(records, LastRun(doc).iteration) IN k > 0 /\ records[k].sha = FinalSha

\* A result the owner is offered passed platform verification on the very
\* commit that is offered: what the README requires of READY_FOR_OWNER_REVIEW,
\* whatever the council thinks of the result, and over all the ways through
\* reuse, replay, review override and gate (finishPlatformVerification,
\* finishReview, canCompleteAutonomousWork).
ReadyIsVerified ==
  doc.state \in OwnerTerminal =>
    Fresh(doc.verified) /\ VerdictOn(doc.verified, LastRun(doc).iteration) \in {"PASS", "PARTIAL"}

\* Nothing that is offered rests on the evidence of an older commit: every
\* record that counts is of the offered commit, review and final verification
\* said COMPLETE, and the delivery is the one of these records
\* (validateEvidenceLineage, canCompleteAutonomousWork, deliveryIsCurrent).
ReadyIsFresh ==
  doc.state \in OwnerTerminal =>
    /\ LastRun(doc).done
    /\ Fresh(doc.verified)
    /\ doc.launched # <<>> => Fresh(doc.launched)
    /\ doc.seen # <<>> => Fresh(doc.seen)
    /\ doc.final.decision = "COMPLETE"
    /\ doc.review[LastRun(doc).iteration] = "COMPLETE"
    /\ doc.delivery.key = KeyOf(doc)

\* The final verification that let a result through has seen its last Cursor
\* run: review does "not skip final verification" (finishFinal counts the runs,
\* resumeTargetAfterFailure and the gate do not).
ReadyIsJudged == doc.state \in OwnerTerminal => doc.final.count = Len(doc.runs)

\* The council reviews a Cursor run only after the platform has verified its
\* commit, so that no claim of Cursor's is judged without evidence.  A document
\* with an unresolved error is not offered whatever the council says.
ReviewFollowsVerification ==
  pc \in {"reviewing", "judging"} /\ ~doc.error => LastRun(doc).done /\ Fresh(doc.verified)

\* An iteration has one finished Cursor run: what Cursor has done is not done
\* again after a crash, an error or a retry (finishOrReplayCursor,
\* executeCursor).
IterationsRunOnce ==
  \A k, l \in DOMAIN doc.runs :
    doc.runs[k].iteration = doc.runs[l].iteration /\ doc.runs[k].done /\ doc.runs[l].done => k = l

\* Cursor never works on a new project that has no foundation, whichever way
\* boots, crashes and retries lead to it.
CursorNeedsFoundation ==
  doc.isNew /\ pc \in {"cursor", "postflight", "committed"} => doc.provisioned

Stranded == doc.state \in Working /\ job = None /\ call = None /\ listed = None

NothingStrands == Stranded' => Stranded \/ ApiCrash

\* A project that has work to do has someone to do it: a row, a worker, or a
\* command or a boot that is going to enqueue.  Only the death of the API in the
\* middle of a command strands it.
NoStrandedWork == [][NothingStrands]_vars

Grows(old, new) == Len(old) <= Len(new) /\ SubSeq(new, 1, Len(old)) = old

HistoryGoesOn ==
  /\ \A k \in DOMAIN doc.runs :
       doc.runs[k].done => /\ k \in DOMAIN doc'.runs
                           /\ doc'.runs[k].done
                           /\ doc'.runs[k].sha = doc.runs[k].sha
  /\ Grows(doc.verified, doc'.verified)
  /\ Grows(doc.launched, doc'.launched)
  /\ Grows(doc.seen, doc'.seen)
  /\ doc.iteration <= doc'.iteration
  /\ doc.delivery.version <= doc'.delivery.version

\* What a project has gathered is never lost or rewritten: a finished run keeps
\* its commit, records are only added, the iterations and the versions of the
\* delivery only grow (retry and recovery "without discarding history").
HistoryIsKept == [][HistoryGoesOn]_vars

\* Cursor starts an iteration with all the feedback the owner has given ("Request
\* Changes records the owner's feedback ... and starts another autonomous cycle").
FeedbackReachesCursor == pc = "cursor" => doc.heard = doc.cycles

\* A delivery that is ready can be decided on ("choose Approve or Request
\* Changes"): it is current, and no older decision refers to its row
\* (recordOwnerDecision, persistPhase9).
ReadyIsDecidable == doc.state = "READY_FOR_OWNER_REVIEW" => Decidable(doc)

\* Work that the gate and the lineage accept is delivered: it does not fail
\* for the delivery itself ("Delivery v2 is a new snapshot").
AcceptedWorkIsDelivered ==
  [][doc.state = "DELIVERY_PREPARATION" /\ doc'.state = "FAILED" =>
       ~(GateOpen(doc) /\ LineageValid(doc))]_vars

\* What of this the owner sees is the abstract specification Autonomy: the
\* commit offered is one that was verified, nothing changes it while it is
\* offered, and the work ends in an offer or a failure.
Phase == IF doc.state \in Working THEN "working"
         ELSE IF doc.state = "READY_FOR_OWNER_REVIEW" THEN "offered"
         ELSE IF doc.state = "FAILED" THEN "failed"
         ELSE "accepted"

Proven == {doc.verified[k].sha : k \in {n \in DOMAIN doc.verified : ~Blocks(doc.verified[n].verdict)}}

Promised == INSTANCE Autonomy WITH
  phase <- Phase, iteration <- doc.iteration, head <- tree.head, proven <- Proven,
  offer <- IF doc.state \in OwnerTerminal THEN FinalSha ELSE None

\* The workflow keeps the promise of Autonomy, its liveness included: whatever
\* crashes and errors there are, the project is offered to the owner or fails.
KeepsPromise == Promised!Spec

=============================================================================
