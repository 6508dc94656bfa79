---------------------------- MODULE Provisioning ----------------------------
(***************************************************************************)
(* The PROJECT_PROVISIONING job of a new project: finishProvisioning of    *)
(* the orchestrator, runProjectProvisioning, and the baseline commit that  *)
(* Cursor starts from.                                                     *)
(*                                                                         *)
(* A generator is a process of its own: it writes into the workspace at    *)
(* any time, its timer only sends it SIGTERM, and it may outlive a worker  *)
(* that dies.  Nothing cleans the workspace before the next attempt.  Only *)
(* a run that passed is saved, but a failed attempt saves what it has made *)
(* of the project, a baseline that did not pass too.                       *)
(***************************************************************************)
EXTENDS Naturals, Sequences

CONSTANTS
  Architectures,    \* what the specification asks for, a subset of AllArchitectures
  MaxGenerators,    \* bound: generators started
  ProvisionFaults   \* a subset of AllProvisionFaults

AllArchitectures ==
  { "live",          \* a provisioner of this worker
    "council",       \* none: the Council chooses among the alternatives
    "ios",           \* none of this worker: infrastructure is waited for
    "unsupported" }  \* none, and no Council to ask

AllProvisionFaults ==
  { "crash",      \* the worker dies
    "error",      \* the lease, the database, the Council or a toolchain fails
    "stubborn" }  \* a generator ignores SIGTERM

ASSUME ProvisioningAssumption ==
  /\ Architectures \subseteq AllArchitectures /\ MaxGenerators \in Nat \ {0}
  /\ ProvisionFaults \subseteq AllProvisionFaults

Generators == 1..MaxGenerators
NoSha == 0

\* What a generator writes: what the template of the plan or of another one
\* expects, a secret, and a secret that listWorkspaceFiles does not come to.
Outputs == Generators \X {"planned", "other", "secret", "buried"}
Protected(f) == f[2] \in {"secret", "buried"}

VARIABLES
  asks,        \* what the specification asks for
  foundation,  \* what is saved of the project
  making,      \* the attempt at work
  generator,   \* the generators, by number
  repo         \* the managed workspace

provisionVars == <<asks, foundation, making, generator, repo>>

NoAttemptYet == [pc |-> "idle", baseline |-> NoSha, generator |-> 0]
NoGenerator == [state |-> "none", stack |-> "planned", timed |-> FALSE, stubborn |-> FALSE]

ProvisionInit ==
  /\ asks \in Architectures
  /\ foundation = [phase |-> "PROJECT_PROVISIONING", runs |-> <<>>,
                   baseline |-> NoSha, provisioned |-> NoSha]
  /\ making = NoAttemptYet
  /\ generator = [n \in Generators |-> NoGenerator]
  /\ repo = [files |-> {}, staged |-> {}, commits |-> <<>>]
-----------------------------------------------------------------------------
(* The workspace *)

InBaseline(sha) == UNION {repo.commits[k] : k \in 1..sha}
TipSha == Len(repo.commits)
Untracked == repo.files \ (repo.staged \cup InBaseline(TipSha))

\* A generator writes while it is up, whoever waits for it.  Bound: each file
\* once, one secret.
GeneratorWrites(n) ==
  /\ generator[n].state = "up"
  /\ \E kind \in {generator[n].stack, "secret", "buried"} :
       /\ <<n, kind>> \notin repo.files
       /\ Protected(<<n, kind>>) => \A f \in repo.files : ~Protected(f)
       /\ repo' = [repo EXCEPT !.files = @ \cup {<<n, kind>>}]
  /\ UNCHANGED <<asks, foundation, making, generator>>
-----------------------------------------------------------------------------
(* The attempt *)

\* Mutant: the runs are not read back.
RunsNotRead == <<>>

SavedRuns == foundation.runs

\* provisioningSucceeded, and findReusableProvisioning for the same plan: a run
\* that is saved has passed.
ProvisioningSucceeded == SavedRuns # <<>>

\* The catch of finishProvisioning: the project is saved as the attempt has
\* made it, and the error decides whether the job is retried.
ProvisionFails(retryable) ==
  /\ foundation' = [foundation EXCEPT !.baseline = making.baseline, !.provisioned = making.baseline,
                                      !.phase = IF retryable THEN @ ELSE "BLOCKED"]
  /\ making' = NoAttemptYet

\* Bound: there is a generator left.
BeginProvisioning ==
  /\ \E n \in Generators : generator[n].state = "none"
  /\ foundation.phase = "PROJECT_PROVISIONING" /\ making.pc = "idle" /\ ~ProvisioningSucceeded
  /\ making' = [NoAttemptYet EXCEPT !.pc = "asking", !.baseline = foundation.baseline]
  /\ UNCHANGED <<asks, foundation, generator, repo>>

\* Implementation starts, at once when a run has passed before.
EnterCursor ==
  /\ foundation.phase = "PROJECT_PROVISIONING" /\ making.pc \in {"idle", "recorded"} /\ ProvisioningSucceeded
  /\ foundation' = [foundation EXCEPT !.phase = "CURSOR_EXECUTING"]
  /\ making' = NoAttemptYet
  /\ UNCHANGED <<asks, generator, repo>>

\* resolveUnsupportedArchitecture: the plan is made of a first answer and kept,
\* the provisioner is that of a second one.
Stacks == IF asks = "council" THEN {"planned", "other"} ELSE {"planned"}

\* runProjectProvisioning up to the generator: the lease and the database are
\* asked, then the architecture.
Resolve ==
  /\ making.pc = "asking"
  /\ \/ "error" \in ProvisionFaults /\ ProvisionFails(TRUE) /\ UNCHANGED generator
     \/ asks \in {"ios", "unsupported"} /\ ProvisionFails(asks = "ios") /\ UNCHANGED generator
     \/ /\ asks \in {"live", "council"}
        /\ \E n \in Generators, stack \in Stacks,
              stubborn \in (IF "stubborn" \in ProvisionFaults THEN BOOLEAN ELSE {FALSE}) :
             /\ generator[n].state = "none" /\ \A m \in 1..(n - 1) : generator[m].state # "none"
             /\ generator' = [generator EXCEPT ![n] =
                  [state |-> "up", stack |-> stack, timed |-> FALSE, stubborn |-> stubborn]]
             /\ making' = [making EXCEPT !.pc = "generating", !.generator = n]
        /\ UNCHANGED foundation
  /\ UNCHANGED <<asks, repo>>

\* PROVISIONING_TIMEOUT_MS
GeneratorTimeout ==
  /\ making.pc = "generating" /\ ~generator[making.generator].timed
  /\ generator' = [generator EXCEPT ![making.generator].timed = TRUE]
  /\ UNCHANGED <<asks, foundation, making, repo>>

\* The attempt waits for its generator to close.  The exit code of one that was
\* stopped may be null, which is not a failure.
GeneratorEnds(n) ==
  /\ generator[n].state = "up"
  /\ generator' = [generator EXCEPT ![n].state = "gone"]
  /\ IF making.pc = "generating" /\ making.generator = n
     THEN \/ making' = [making EXCEPT !.pc = "generated"] /\ UNCHANGED foundation
          \/ ProvisionFails(TRUE)
     ELSE UNCHANGED <<foundation, making>>
  /\ UNCHANGED <<asks, repo>>

\* Mutant: the generator is believed.
Believed == repo.files # {}

Scaffolded == \E n \in Generators : <<n, "planned">> \in repo.files

\* validateScaffold: the outputs that the template of the plan expects.
ValidateScaffold ==
  /\ making.pc = "generated"
  /\ \/ Scaffolded /\ making' = [making EXCEPT !.pc = "scaffolded"] /\ UNCHANGED foundation
     \/ ~Scaffolded /\ ProvisionFails(TRUE)
  /\ UNCHANGED <<asks, generator, repo>>

\* assertNoSecrets lists the files, to a depth and a number.
AssertNoSecrets ==
  /\ making.pc = "scaffolded"
  /\ \/ /\ \A n \in Generators : <<n, "secret">> \notin repo.files
        /\ making' = [making EXCEPT !.pc = "listed"] /\ UNCHANGED foundation
     \/ /\ \E n \in Generators : <<n, "secret">> \in repo.files
        /\ ProvisionFails(FALSE)
  /\ UNCHANGED <<asks, generator, repo>>

AddAll ==
  /\ making.pc = "listed"
  /\ repo' = [repo EXCEPT !.staged = @ \cup Untracked]
  /\ making' = [making EXCEPT !.pc = "added"]
  /\ UNCHANGED <<asks, foundation, generator>>

\* Mutant: the list of the workspace was enough.
ListedIsEnough == FALSE

SecretIsStaged == \E f \in repo.staged : Protected(f)

\* Mutant: the first baseline stays that of the project, as where the result is
\* applied.
FirstBaseline(sha) == IF making.baseline # NoSha THEN making.baseline ELSE sha

\* project.repository after the baseline commit.
BaselineOf(sha) == sha

\* The staged files are searched and committed.  The reset of a repository that
\* has no commit fails and leaves them staged.
CommitBaseline ==
  /\ making.pc = "added"
  /\ \/ /\ SecretIsStaged
        /\ repo' = IF TipSha = 0 THEN repo ELSE [repo EXCEPT !.staged = {}]
        /\ ProvisionFails(FALSE)
     \/ /\ ~SecretIsStaged /\ repo.staged # {}
        /\ repo' = [repo EXCEPT !.staged = {}, !.commits = Append(@, repo.staged)]
        /\ making' = [making EXCEPT !.pc = "committed", !.baseline = BaselineOf(TipSha + 1)]
        /\ UNCHANGED foundation
     \/ /\ repo.staged = {} /\ Untracked = {}
        /\ making' = [making EXCEPT !.pc = "committed", !.baseline = BaselineOf(TipSha)]
        /\ UNCHANGED <<foundation, repo>>
     \/ /\ repo.staged = {} /\ Untracked # {}      \* nothing to commit
        /\ ProvisionFails(TRUE) /\ UNCHANGED repo
  /\ UNCHANGED <<asks, generator>>

\* The platform verification of the starter; a run that passes is applied to
\* the project and saved.
VerifyStarter ==
  /\ making.pc = "committed"
  /\ \/ /\ foundation' = [foundation EXCEPT !.runs = Append(@, TipSha), !.baseline = making.baseline,
                                            !.provisioned = TipSha]
        /\ making' = [making EXCEPT !.pc = "recorded"]
     \/ ProvisionFails(FALSE)
     \/ "error" \in ProvisionFaults /\ ProvisionFails(TRUE)
  /\ UNCHANGED <<asks, generator, repo>>

\* The owner retries a blocked project.
OwnerRetries ==
  /\ foundation.phase = "BLOCKED"
  /\ foundation' = [foundation EXCEPT !.phase = "PROJECT_PROVISIONING"]
  /\ UNCHANGED <<asks, making, generator, repo>>

\* The worker dies; its generator may go on.
ProvisionerDies ==
  /\ "crash" \in ProvisionFaults /\ making.pc # "idle"
  /\ making' = NoAttemptYet
  /\ UNCHANGED <<asks, foundation, generator, repo>>
-----------------------------------------------------------------------------
ProvisionSteps ==
  \/ BeginProvisioning \/ EnterCursor \/ Resolve \/ ValidateScaffold \/ AssertNoSecrets
  \/ AddAll \/ CommitBaseline \/ VerifyStarter

ProvisionNext ==
  \/ ProvisionSteps \/ GeneratorTimeout \/ OwnerRetries \/ ProvisionerDies
  \/ \E n \in Generators : GeneratorWrites(n) \/ GeneratorEnds(n)

\* A generator that got SIGTERM and does not ignore it ends.
GeneratorObeys ==
  \E n \in Generators : generator[n].timed /\ ~generator[n].stubborn /\ GeneratorEnds(n)

ProvisionSpec ==
  ProvisionInit /\ [][ProvisionNext]_provisionVars
    /\ WF_provisionVars(ProvisionSteps \/ GeneratorTimeout \/ GeneratorObeys)
-----------------------------------------------------------------------------
(* Properties *)

Shas == 0..MaxGenerators

\* The saved project, the attempt and the workspace have their shapes.
ProvisionTypeOK ==
  /\ foundation \in [phase: {"PROJECT_PROVISIONING", "CURSOR_EXECUTING", "BLOCKED"},
                     runs: Seq(Shas), baseline: Shas, provisioned: Shas]
  /\ making \in [pc: {"idle", "asking", "generating", "generated", "scaffolded", "listed", "added",
                      "committed", "recorded"},
                 baseline: Shas, generator: 0..MaxGenerators]
  /\ making.pc = "idle" => making = NoAttemptYet
  /\ making.pc = "generating" => generator[making.generator].state = "up"
  /\ generator \in [Generators -> [state: {"none", "up", "gone"}, stack: {"planned", "other"},
                                   timed: BOOLEAN, stubborn: BOOLEAN]]
  /\ repo \in [files: SUBSET Outputs, staged: SUBSET Outputs, commits: Seq(SUBSET Outputs)]
  /\ repo.staged \subseteq repo.files

\* What the implementation starts from is a commit that has what the template of
\* the plan expects, whichever attempts, killed generators and provisioners of
\* another choice have left files behind ("validation -> secret check -> ADP
\* provisioning baseline").
FoundationIsWhole ==
  foundation.phase = "CURSOR_EXECUTING" =>
    \E n \in Generators : <<n, "planned">> \in InBaseline(foundation.provisioned)

\* No baseline has a secret in it, although generators that were not waited for
\* write between the list and the commit.
BaselineIsClean == \A f \in InBaseline(TipSha) : ~Protected(f)

\* The baseline that Cursor's work is compared with is the one that passed, not
\* one of an attempt that failed after its commit.
BaselineAgrees ==
  foundation.runs # <<>> =>
    /\ foundation.baseline = foundation.runs[Len(foundation.runs)]
    /\ foundation.provisioned = foundation.baseline

\* "A completed baseline is not regenerated": after it is saved, no generator is
\* started and nothing is committed, when the job is repeated at whatever step.
FoundationIsFinal ==
  [][foundation.runs # <<>> =>
       /\ foundation'.runs = foundation.runs /\ foundation'.provisioned = foundation.provisioned
       /\ repo'.commits = repo.commits
       /\ \A n \in Generators : generator[n].state = "none" => generator'[n].state = "none"]_provisionVars

Founding == making.pc # "idle"

\* A generator that ignores SIGTERM is waited for without end.
GeneratorHangs == making.pc = "generating" /\ generator[making.generator].stubborn
=============================================================================
