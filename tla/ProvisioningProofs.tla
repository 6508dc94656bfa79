------------------------- MODULE ProvisioningProofs -------------------------
(***************************************************************************)
(* Proofs about Provisioning for any architectures, faults and number of   *)
(* generators: the foundation a project is implemented on has the outputs  *)
(* of its plan and no secret, is the one that passed, and stays as it is.  *)
(***************************************************************************)
EXTENDS Provisioning, TLAPS

-----------------------------------------------------------------------------
(* The inductive invariant *)

\* The attempt has a generator and has not committed yet.
Generating == {"generating", "generated", "scaffolded", "listed", "added"}

\* Every commit is of an attempt with a generator of its own, so that there are
\* never more commits than generators were started.
CommitsAreNumbered ==
  /\ TipSha <= MaxGenerators
  /\ \A n \in Generators : generator[n].state = "none" => TipSha < n
  /\ making.pc \in Generating =>
       /\ making.generator \in Generators /\ TipSha < making.generator
       /\ \A n \in Generators : generator[n].state = "none" => making.generator < n

HasPlanned(files) == \E n \in Generators : <<n, "planned">> \in files

\* From the validation to the commit the workspace has what the plan expects,
\* then the index or a baseline has it.
WorkIsWhole ==
  /\ making.pc \in {"scaffolded", "listed"} => HasPlanned(repo.files)
  /\ making.pc = "added" => HasPlanned(repo.staged \cup InBaseline(TipSha))
  /\ making.pc = "committed" => HasPlanned(InBaseline(TipSha)) /\ making.baseline = TipSha

\* A run that is saved is of a whole commit, which is the project's baseline,
\* and no attempt is made after it.
SavedIsSound ==
  foundation.runs # <<>> =>
    /\ making.pc \in {"idle", "recorded"}
    /\ foundation.provisioned \in 1..TipSha
    /\ HasPlanned(InBaseline(foundation.provisioned))
    /\ foundation.runs = <<foundation.provisioned>>
    /\ foundation.baseline = foundation.provisioned

CursorHasRun == foundation.phase = "CURSOR_EXECUTING" => foundation.runs # <<>>

ProvisionInv ==
  /\ ProvisionTypeOK /\ CommitsAreNumbered /\ WorkIsWhole
  /\ BaselineIsClean /\ SavedIsSound /\ CursorHasRun
-----------------------------------------------------------------------------
(* Commits *)

\* The bounds of the numbers of commits and generators.
LEMMA ProvisionBounds ==
  ASSUME ProvisionInv
  PROVE  /\ MaxGenerators \in Nat \ {0} /\ TipSha \in Nat /\ TipSha \in Shas
         /\ repo.commits \in Seq(SUBSET Outputs) /\ repo.staged \in SUBSET Outputs
         /\ NoSha \in Shas
  <1>1. MaxGenerators \in Nat \ {0}
    BY ProvisioningAssumption
  <1>2. repo.commits \in Seq(SUBSET Outputs) /\ repo.staged \in SUBSET Outputs
    BY DEF ProvisionInv, ProvisionTypeOK
  <1>3. TipSha \in Nat /\ TipSha <= MaxGenerators
    BY <1>2 DEF ProvisionInv, CommitsAreNumbered, TipSha
  <1>. QED
    BY <1>1, <1>2, <1>3 DEF Shas, NoSha

\* What a baseline has does not change while the commits do not.
LEMMA BaselinesStay ==
  ASSUME repo'.commits = repo.commits
  PROVE  /\ TipSha' = TipSha
         /\ \A n : InBaseline(n)' = InBaseline(n)
  BY DEF TipSha, InBaseline

\* A commit is added to the baselines there are, and has what was staged.
LEMMA ProvisionCommitAdds ==
  ASSUME repo.commits \in Seq(SUBSET Outputs), repo.staged \in SUBSET Outputs,
         repo'.commits = Append(repo.commits, repo.staged)
  PROVE  /\ TipSha' = TipSha + 1
         /\ \A n \in 0..TipSha : InBaseline(n)' = InBaseline(n)
         /\ (InBaseline(TipSha))' = InBaseline(TipSha) \cup repo.staged
         /\ repo'.commits \in Seq(SUBSET Outputs)
  <1>1. TipSha \in Nat /\ TipSha' = TipSha + 1 /\ repo'.commits \in Seq(SUBSET Outputs)
    BY DEF TipSha
  <1>2. /\ \A k \in 1..TipSha : repo'.commits[k] = repo.commits[k]
        /\ repo'.commits[TipSha + 1] = repo.staged
    BY DEF TipSha
  <1>3. \A n \in 0..TipSha : InBaseline(n)' = InBaseline(n)
    <2>. SUFFICES ASSUME NEW n \in 0..TipSha
                  PROVE  InBaseline(n)' = InBaseline(n)
      OBVIOUS
    <2>1. \A k \in 1..n : k \in 1..TipSha
      BY <1>1
    <2>2. \A k \in 1..n : repo'.commits[k] = repo.commits[k]
      BY <1>2, <2>1
    <2>. QED
      BY <2>2 DEF InBaseline
  <1>4. (InBaseline(TipSha))' = InBaseline(TipSha) \cup repo.staged
    <2>1. 1..(TipSha + 1) = 1..TipSha \cup {TipSha + 1}
      BY <1>1
    <2>2. (InBaseline(TipSha))' = UNION {repo'.commits[k] : k \in 1..TipSha \cup {TipSha + 1}}
      BY <1>1, <2>1 DEF InBaseline
    <2>3. UNION {repo'.commits[k] : k \in 1..TipSha \cup {TipSha + 1}}
            = (UNION {repo.commits[k] : k \in 1..TipSha}) \cup repo.staged
      <3>. HIDE DEF TipSha
      <3>. QED
        BY <1>2
    <2>. QED
      BY <2>2, <2>3 DEF InBaseline
  <1>. QED
    BY <1>1, <1>3, <1>4
-----------------------------------------------------------------------------
(* Kinds of steps *)

\* What depends on commits and runs alone, when neither changes and no attempt
\* is begun after a run that passed.
LEMMA NothingCommitted ==
  ASSUME ProvisionInv, repo'.commits = repo.commits, foundation' = foundation,
         making.pc \notin {"idle", "recorded"} \/ foundation.runs = <<>>
           \/ making'.pc \in {"idle", "recorded"}
  PROVE  BaselineIsClean' /\ SavedIsSound' /\ CursorHasRun'
  <1>1. TipSha' = TipSha /\ \A n : InBaseline(n)' = InBaseline(n)
    BY BaselinesStay
  <1>2. BaselineIsClean'
    BY <1>1 DEF ProvisionInv, BaselineIsClean, InBaseline
  <1>3. SavedIsSound'
    BY <1>1 DEF ProvisionInv, SavedIsSound, HasPlanned, InBaseline
  <1>4. CursorHasRun'
    BY DEF ProvisionInv, CursorHasRun
  <1>. QED
    BY <1>2, <1>3, <1>4

\* An attempt that fails saves its baseline, and is over.
LEMMA FailureKeeps ==
  ASSUME ProvisionInv, NEW retryable \in BOOLEAN, ProvisionFails(retryable),
         making.pc \notin {"idle", "recorded"}, repo'.commits = repo.commits,
         repo' \in [files: SUBSET Outputs, staged: SUBSET Outputs, commits: Seq(SUBSET Outputs)],
         repo'.staged \subseteq repo'.files,
         generator' \in [Generators -> [state: {"none", "up", "gone"}, stack: {"planned", "other"},
                                        timed: BOOLEAN, stubborn: BOOLEAN]],
         \A n \in Generators : generator'[n].state = "none" => generator[n].state = "none"
  PROVE  ProvisionInv'
  <1>. USE DEF ProvisionInv
  <1>1. TipSha' = TipSha /\ \A n : InBaseline(n)' = InBaseline(n)
    BY BaselinesStay
  <1>2. /\ making' = NoAttemptYet /\ making'.pc = "idle" /\ making'.baseline = NoSha /\ making'.generator = 0
        /\ foundation.runs = <<>>
    BY DEF ProvisionFails, NoAttemptYet, SavedIsSound
  <1>3. /\ foundation' \in [phase: {"PROJECT_PROVISIONING", "CURSOR_EXECUTING", "BLOCKED"},
                            runs: Seq(Shas), baseline: Shas, provisioned: Shas]
        /\ foundation'.runs = foundation.runs
        /\ foundation'.phase \in {foundation.phase, "BLOCKED"}
    BY DEF ProvisionFails, ProvisionTypeOK
  <1>4. ProvisionTypeOK'
    BY <1>2, <1>3, ProvisionBounds DEF ProvisionTypeOK, NoAttemptYet, NoSha
  <1>5. CommitsAreNumbered'
    BY <1>1, <1>2 DEF CommitsAreNumbered, Generating
  <1>6. WorkIsWhole' /\ SavedIsSound' /\ CursorHasRun'
    BY <1>2, <1>3 DEF WorkIsWhole, SavedIsSound, CursorHasRun
  <1>7. BaselineIsClean'
    BY <1>1 DEF BaselineIsClean, InBaseline
  <1>. QED
    BY <1>4, <1>5, <1>6, <1>7
-----------------------------------------------------------------------------
(* The steps *)

LEMMA BeginKeeps ==
  ASSUME ProvisionInv, BeginProvisioning
  PROVE  ProvisionInv'
  <1>. USE DEF ProvisionInv
  <1>1. /\ making' = [NoAttemptYet EXCEPT !.pc = "asking", !.baseline = foundation.baseline]
        /\ UNCHANGED <<foundation, generator, repo>>
        /\ foundation.runs = <<>>
    BY DEF BeginProvisioning, ProvisioningSucceeded, SavedRuns
  <1>2. making' = [pc |-> "asking", baseline |-> foundation.baseline, generator |-> 0]
    BY <1>1 DEF NoAttemptYet
  <1>3. ProvisionTypeOK'
    BY <1>1, <1>2, ProvisionBounds DEF ProvisionTypeOK
  <1>4. CommitsAreNumbered' /\ WorkIsWhole'
    BY <1>1, <1>2 DEF CommitsAreNumbered, Generating, WorkIsWhole, TipSha
  <1>. QED
    BY <1>1, <1>3, <1>4, NothingCommitted

LEMMA EnterCursorKeeps ==
  ASSUME ProvisionInv, EnterCursor
  PROVE  ProvisionInv'
  <1>. USE DEF ProvisionInv
  <1>1. /\ foundation' = [foundation EXCEPT !.phase = "CURSOR_EXECUTING"]
        /\ making' = [pc |-> "idle", baseline |-> NoSha, generator |-> 0]
        /\ UNCHANGED <<generator, repo>> /\ foundation.runs # <<>>
    BY DEF EnterCursor, ProvisioningSucceeded, SavedRuns, NoAttemptYet
  <1>2. /\ foundation'.runs = foundation.runs /\ foundation'.baseline = foundation.baseline
        /\ foundation'.provisioned = foundation.provisioned /\ foundation'.phase = "CURSOR_EXECUTING"
        /\ foundation' \in [phase: {"CURSOR_EXECUTING"}, runs: Seq(Shas), baseline: Shas, provisioned: Shas]
    BY <1>1 DEF ProvisionTypeOK
  <1>3. ProvisionTypeOK'
    <2>1. /\ making'.pc = "idle" /\ making' = NoAttemptYet
          /\ making' \in [pc: {"idle"}, baseline: Shas, generator: 0..MaxGenerators]
      BY <1>1, ProvisionBounds DEF NoAttemptYet
    <2>. QED
      BY <1>1, <1>2, <2>1 DEF ProvisionTypeOK
  <1>4. CommitsAreNumbered' /\ WorkIsWhole' /\ BaselineIsClean'
    BY <1>1 DEF CommitsAreNumbered, Generating, WorkIsWhole, TipSha, BaselineIsClean, InBaseline
  <1>5. SavedIsSound' /\ CursorHasRun'
    BY <1>1, <1>2 DEF SavedIsSound, CursorHasRun, TipSha, HasPlanned, InBaseline
  <1>. QED
    BY <1>3, <1>4, <1>5

\* The generator of an attempt is the last one that was started.
LEMMA ResolveKeeps ==
  ASSUME ProvisionInv, Resolve
  PROVE  ProvisionInv'
  <1>. USE DEF ProvisionInv
  <1>1. CASE \E retryable \in BOOLEAN : ProvisionFails(retryable) /\ UNCHANGED <<generator, repo>>
    BY <1>1, FailureKeeps DEF Resolve, ProvisionTypeOK
  <1>2. ASSUME NEW n \in Generators, NEW stack \in Stacks, NEW stubborn \in BOOLEAN,
               generator[n].state = "none", \A m \in 1..(n - 1) : generator[m].state # "none",
               generator' = [generator EXCEPT ![n] =
                  [state |-> "up", stack |-> stack, timed |-> FALSE, stubborn |-> stubborn]],
               making' = [making EXCEPT !.pc = "generating", !.generator = n],
               UNCHANGED <<foundation, repo>>, making.pc = "asking"
        PROVE  ProvisionInv'
    <2>1. /\ making'.pc = "generating" /\ making'.generator = n /\ making'.baseline = making.baseline
          /\ making' \in [pc: {"generating"}, baseline: Shas, generator: Generators]
      BY <1>2 DEF ProvisionTypeOK
    <2>2. /\ generator' \in [Generators -> [state: {"none", "up", "gone"}, stack: {"planned", "other"},
                                            timed: BOOLEAN, stubborn: BOOLEAN]]
          /\ generator'[n].state = "up"
          /\ \A m \in Generators \ {n} : generator'[m] = generator[m]
      BY <1>2 DEF ProvisionTypeOK, Stacks
    <2>3. n \in 0..MaxGenerators
      BY ProvisionBounds DEF Generators
    <2>4. ProvisionTypeOK'
      BY <1>2, <2>1, <2>2, <2>3 DEF ProvisionTypeOK
    <2>5. CommitsAreNumbered'
      <3>1. \A m \in Generators : generator'[m].state = "none" => n < m /\ generator[m].state = "none"
        BY <1>2, <2>2, ProvisionBounds DEF Generators
      <3>2. TipSha' = TipSha /\ TipSha < n
        BY <1>2 DEF CommitsAreNumbered, TipSha
      <3>. QED
        BY <2>1, <3>1, <3>2 DEF CommitsAreNumbered
    <2>6. WorkIsWhole'
      BY <2>1 DEF WorkIsWhole
    <2>. QED
      BY <1>2, <2>4, <2>5, <2>6, NothingCommitted
  <1>. QED
    BY <1>1, <1>2 DEF Resolve

\* A file more in the workspace is in no index and in no baseline.
LEMMA GeneratorWritesKeeps ==
  ASSUME ProvisionInv, NEW n \in Generators, GeneratorWrites(n)
  PROVE  ProvisionInv'
  <1>. USE DEF ProvisionInv
  <1>1. PICK kind \in {generator[n].stack, "secret", "buried"} :
          repo' = [repo EXCEPT !.files = @ \cup {<<n, kind>>}]
    BY DEF GeneratorWrites
  <1>2. /\ UNCHANGED <<foundation, making, generator>>
        /\ kind \in {"planned", "other", "secret", "buried"}
    BY <1>1 DEF GeneratorWrites, ProvisionTypeOK
  <1>3. /\ repo'.files = repo.files \cup {<<n, kind>>} /\ repo'.files \in SUBSET Outputs
        /\ repo'.staged = repo.staged /\ repo'.commits = repo.commits
        /\ repo' \in [files: SUBSET Outputs, staged: SUBSET Outputs, commits: Seq(SUBSET Outputs)]
    <2>1. <<n, kind>> \in Outputs
      BY <1>2 DEF Outputs
    <2>. QED
      BY <1>1, <2>1 DEF ProvisionTypeOK
  <1>4. ProvisionTypeOK'
    BY <1>2, <1>3 DEF ProvisionTypeOK, NoAttemptYet
  <1>5. TipSha' = TipSha /\ \A k : InBaseline(k)' = InBaseline(k)
    BY <1>3, BaselinesStay
  <1>6. CommitsAreNumbered' /\ WorkIsWhole'
    BY <1>2, <1>3, <1>5 DEF CommitsAreNumbered, WorkIsWhole, HasPlanned, InBaseline
  <1>. QED
    BY <1>2, <1>3, <1>4, <1>6, NothingCommitted DEF SavedIsSound

LEMMA GeneratorTimeoutKeeps ==
  ASSUME ProvisionInv, GeneratorTimeout
  PROVE  ProvisionInv'
  <1>. USE DEF ProvisionInv
  <1>1. /\ UNCHANGED <<foundation, making, repo>> /\ making.pc = "generating"
        /\ generator' = [generator EXCEPT ![making.generator].timed = TRUE]
    BY DEF GeneratorTimeout
  <1>2. /\ making.generator \in Generators
        /\ generator' \in [Generators -> [state: {"none", "up", "gone"}, stack: {"planned", "other"},
                                          timed: BOOLEAN, stubborn: BOOLEAN]]
        /\ \A n \in Generators : generator'[n].state = generator[n].state
    <2>1. PICK m \in Generators : m = making.generator
      BY <1>1 DEF CommitsAreNumbered, Generating
    <2>2. generator \in [Generators -> [state: {"none", "up", "gone"}, stack: {"planned", "other"},
                                        timed: BOOLEAN, stubborn: BOOLEAN]]
      BY DEF ProvisionTypeOK
    <2>3. PICK g : g = [generator[m] EXCEPT !.timed = TRUE]
      OBVIOUS
    <2>4. /\ g \in [state: {"none", "up", "gone"}, stack: {"planned", "other"},
                    timed: BOOLEAN, stubborn: BOOLEAN]
          /\ g.state = generator[m].state
      BY <2>2, <2>3
    <2>5. generator' = [generator EXCEPT ![m] = g]
      BY <1>1, <2>1, <2>3
    <2>. QED
      BY <2>1, <2>2, <2>4, <2>5
  <1>3. ProvisionTypeOK'
    BY <1>1, <1>2 DEF ProvisionTypeOK, NoAttemptYet
  <1>4. CommitsAreNumbered' /\ WorkIsWhole'
    BY <1>1, <1>2 DEF CommitsAreNumbered, WorkIsWhole, TipSha, HasPlanned, InBaseline
  <1>. QED
    BY <1>1, <1>3, <1>4, NothingCommitted

\* A generator that ends may be that of the attempt, or one that outlived its own.
LEMMA GeneratorEndsKeeps ==
  ASSUME ProvisionInv, NEW n \in Generators, GeneratorEnds(n)
  PROVE  ProvisionInv'
  <1>. USE DEF ProvisionInv
  <1>1. /\ UNCHANGED repo /\ generator[n].state = "up"
        /\ generator' = [generator EXCEPT ![n].state = "gone"]
    BY DEF GeneratorEnds
  <1>2. /\ generator' \in [Generators -> [state: {"none", "up", "gone"}, stack: {"planned", "other"},
                                          timed: BOOLEAN, stubborn: BOOLEAN]]
        /\ \A m \in Generators : generator'[m].state = "none" => generator[m].state = "none"
        /\ \A m \in Generators \ {n} : generator'[m] = generator[m]
    BY <1>1 DEF ProvisionTypeOK
  <1>3. CASE making.pc = "generating" /\ making.generator = n /\ ProvisionFails(TRUE)
    BY <1>1, <1>2, <1>3, FailureKeeps DEF ProvisionTypeOK
  <1>4. CASE /\ making.pc = "generating" /\ making.generator = n
             /\ making' = [making EXCEPT !.pc = "generated"] /\ UNCHANGED foundation
    <2>1. /\ making'.pc = "generated" /\ making'.generator = making.generator
          /\ making' \in [pc: {"generated"}, baseline: Shas, generator: 0..MaxGenerators]
      BY <1>4 DEF ProvisionTypeOK
    <2>2. ProvisionTypeOK'
      BY <1>1, <1>2, <1>4, <2>1 DEF ProvisionTypeOK
    <2>3. CommitsAreNumbered' /\ WorkIsWhole'
      BY <1>1, <1>2, <1>4, <2>1 DEF CommitsAreNumbered, WorkIsWhole, Generating, TipSha
    <2>. QED
      BY <1>1, <1>4, <2>2, <2>3, NothingCommitted
  <1>5. CASE ~(making.pc = "generating" /\ making.generator = n) /\ UNCHANGED <<foundation, making>>
    <2>1. ProvisionTypeOK'
      <3>1. making.pc = "generating" => generator'[making.generator].state = "up"
        BY <1>2, <1>5 DEF ProvisionTypeOK, CommitsAreNumbered, Generating
      <3>. QED
        BY <1>1, <1>2, <1>5, <3>1 DEF ProvisionTypeOK, NoAttemptYet
    <2>2. TipSha' = TipSha /\ InBaseline(TipSha)' = InBaseline(TipSha)
      BY <1>1 DEF TipSha, InBaseline
    <2>3. CommitsAreNumbered'
      BY <1>2, <1>5, <2>2 DEF CommitsAreNumbered
    <2>4. WorkIsWhole'
      BY <1>1, <1>5, <2>2 DEF WorkIsWhole, HasPlanned
    <2>. QED
      BY <1>1, <1>5, <2>1, <2>3, <2>4, NothingCommitted DEF SavedIsSound
  <1>. QED
    BY <1>3, <1>4, <1>5 DEF GeneratorEnds

\* The attempt goes on to its next check, with the workspace as it was.
LEMMA CheckKeeps ==
  ASSUME ProvisionInv, NEW pc \in {"scaffolded", "listed"}, making.pc \in {"generated", "scaffolded"},
         making' = [making EXCEPT !.pc = pc], HasPlanned(repo.files),
         UNCHANGED <<foundation, generator, repo>>
  PROVE  ProvisionInv'
  <1>. USE DEF ProvisionInv
  <1>1. /\ making'.pc = pc /\ making'.generator = making.generator
        /\ making' \in [pc: {"scaffolded", "listed"}, baseline: Shas, generator: 0..MaxGenerators]
    BY DEF ProvisionTypeOK
  <1>2. ProvisionTypeOK'
    BY <1>1 DEF ProvisionTypeOK
  <1>3. CommitsAreNumbered' /\ WorkIsWhole'
    BY <1>1 DEF CommitsAreNumbered, WorkIsWhole, Generating, TipSha, HasPlanned
  <1>. QED
    BY <1>2, <1>3, NothingCommitted

LEMMA ValidateScaffoldKeeps ==
  ASSUME ProvisionInv, ValidateScaffold
  PROVE  ProvisionInv'
  <1>1. CASE Scaffolded /\ making' = [making EXCEPT !.pc = "scaffolded"] /\ UNCHANGED foundation
    BY <1>1, CheckKeeps DEF ValidateScaffold, Scaffolded, HasPlanned
  <1>2. CASE ProvisionFails(TRUE)
    BY <1>2, FailureKeeps DEF ValidateScaffold, ProvisionInv, ProvisionTypeOK
  <1>. QED
    BY <1>1, <1>2 DEF ValidateScaffold

LEMMA AssertNoSecretsKeeps ==
  ASSUME ProvisionInv, AssertNoSecrets
  PROVE  ProvisionInv'
  <1>1. CASE making' = [making EXCEPT !.pc = "listed"] /\ UNCHANGED foundation
    BY <1>1, CheckKeeps DEF AssertNoSecrets, ProvisionInv, WorkIsWhole
  <1>2. CASE ProvisionFails(FALSE)
    BY <1>2, FailureKeeps DEF AssertNoSecrets, ProvisionInv, ProvisionTypeOK
  <1>. QED
    BY <1>1, <1>2 DEF AssertNoSecrets

\* What is added to the index is in the workspace, and what the index and the
\* baselines had of the workspace stays there.
LEMMA AddAllKeeps ==
  ASSUME ProvisionInv, AddAll
  PROVE  ProvisionInv'
  <1>. USE DEF ProvisionInv
  <1>1. /\ UNCHANGED <<foundation, generator>> /\ making.pc = "listed"
        /\ repo' = [repo EXCEPT !.staged = @ \cup Untracked]
        /\ making' = [making EXCEPT !.pc = "added"]
    BY DEF AddAll
  <1>2. /\ repo'.files = repo.files /\ repo'.staged = repo.staged \cup Untracked
        /\ repo'.commits = repo.commits
        /\ repo' \in [files: SUBSET Outputs, staged: SUBSET Outputs, commits: Seq(SUBSET Outputs)]
        /\ repo'.staged \subseteq repo'.files
    <2>1. Untracked \subseteq repo.files
      BY DEF Untracked
    <2>. QED
      BY <1>1, <2>1 DEF ProvisionTypeOK
  <1>3. /\ making'.pc = "added" /\ making'.generator = making.generator
        /\ making' \in [pc: {"added"}, baseline: Shas, generator: 0..MaxGenerators]
    BY <1>1 DEF ProvisionTypeOK
  <1>4. ProvisionTypeOK'
    BY <1>1, <1>2, <1>3 DEF ProvisionTypeOK
  <1>5. TipSha' = TipSha /\ \A k : InBaseline(k)' = InBaseline(k)
    BY <1>2, BaselinesStay
  <1>6. CommitsAreNumbered'
    BY <1>1, <1>3, <1>5 DEF CommitsAreNumbered, Generating
  <1>7. WorkIsWhole'
    <2>1. HasPlanned(repo.files)
      BY <1>1 DEF WorkIsWhole
    <2>2. repo.files \subseteq repo'.staged \cup InBaseline(TipSha)
      BY <1>2 DEF Untracked
    <2>3. HasPlanned(repo'.staged \cup InBaseline(TipSha))
      BY <2>1, <2>2 DEF HasPlanned
    <2>. QED
      BY <1>3, <1>5, <2>3 DEF WorkIsWhole, HasPlanned, InBaseline
  <1>. QED
    BY <1>1, <1>2, <1>4, <1>6, <1>7, NothingCommitted

\* A commit has no secret, makes the baseline whole, and is the one of its
\* generator.
LEMMA CommitKeeps ==
  ASSUME ProvisionInv, making.pc = "added", ~SecretIsStaged,
         repo' = [repo EXCEPT !.staged = {}, !.commits = Append(@, repo.staged)],
         making' = [making EXCEPT !.pc = "committed", !.baseline = BaselineOf(TipSha + 1)],
         UNCHANGED <<foundation, generator>>
  PROVE  ProvisionInv'
  <1>. USE DEF ProvisionInv
  <1>1. /\ repo'.files = repo.files /\ repo'.staged = {}
        /\ repo'.commits = Append(repo.commits, repo.staged)
    BY DEF ProvisionTypeOK
  <1>2. /\ TipSha' = TipSha + 1
        /\ \A n \in 0..TipSha : InBaseline(n)' = InBaseline(n)
        /\ (InBaseline(TipSha))' = InBaseline(TipSha) \cup repo.staged
        /\ repo'.commits \in Seq(SUBSET Outputs)
    BY <1>1, ProvisionBounds, ProvisionCommitAdds
  <1>3. TipSha + 1 \in Shas /\ TipSha + 1 <= making.generator
    BY ProvisionBounds DEF CommitsAreNumbered, Generating, Shas, Generators
  <1>4. /\ making'.pc = "committed" /\ making'.baseline = TipSha + 1
        /\ making' \in [pc: {"committed"}, baseline: Shas, generator: 0..MaxGenerators]
    BY <1>3 DEF ProvisionTypeOK, BaselineOf
  <1>5. repo' \in [files: SUBSET Outputs, staged: SUBSET Outputs, commits: Seq(SUBSET Outputs)]
    <2>1. repo' = [files |-> repo.files, staged |-> {}, commits |-> repo'.commits]
      BY <1>1 DEF ProvisionTypeOK
    <2>. QED
      BY <1>2, <2>1 DEF ProvisionTypeOK
  <1>6. ProvisionTypeOK'
    BY <1>1, <1>4, <1>5 DEF ProvisionTypeOK
  <1>7. CommitsAreNumbered'
    BY <1>2, <1>3, <1>4, ProvisionBounds DEF CommitsAreNumbered, Generating, Shas, Generators
  <1>8. WorkIsWhole'
    BY <1>2, <1>4 DEF WorkIsWhole, HasPlanned
  <1>9. BaselineIsClean'
    BY <1>2 DEF BaselineIsClean, SecretIsStaged
  <1>10. SavedIsSound' /\ CursorHasRun'
    BY <1>4 DEF SavedIsSound, CursorHasRun
  <1>. QED
    BY <1>6, <1>7, <1>8, <1>9, <1>10

LEMMA CommitBaselineKeeps ==
  ASSUME ProvisionInv, CommitBaseline
  PROVE  ProvisionInv'
  <1>. USE DEF ProvisionInv
  <1>1. making.pc = "added" /\ UNCHANGED generator
    BY DEF CommitBaseline
  <1>2. CASE /\ SecretIsStaged /\ repo' = (IF TipSha = 0 THEN repo ELSE [repo EXCEPT !.staged = {}])
             /\ ProvisionFails(FALSE)
    <2>1. /\ repo' \in [files: SUBSET Outputs, staged: SUBSET Outputs, commits: Seq(SUBSET Outputs)]
          /\ repo'.commits = repo.commits /\ repo'.staged \subseteq repo'.files
      BY <1>2 DEF ProvisionTypeOK
    <2>. QED
      BY <1>1, <1>2, <2>1, FailureKeeps DEF ProvisionTypeOK
  <1>3. CASE /\ ~SecretIsStaged
             /\ repo' = [repo EXCEPT !.staged = {}, !.commits = Append(@, repo.staged)]
             /\ making' = [making EXCEPT !.pc = "committed", !.baseline = BaselineOf(TipSha + 1)]
             /\ UNCHANGED foundation
    BY <1>1, <1>3, CommitKeeps
  <1>4. CASE /\ repo.staged = {} /\ Untracked = {} /\ UNCHANGED <<foundation, repo>>
             /\ making' = [making EXCEPT !.pc = "committed", !.baseline = BaselineOf(TipSha)]
    <2>1. /\ making'.pc = "committed" /\ making'.baseline = TipSha
          /\ making' \in [pc: {"committed"}, baseline: Shas, generator: 0..MaxGenerators]
      BY <1>4, ProvisionBounds DEF ProvisionTypeOK, BaselineOf
    <2>2. ProvisionTypeOK'
      BY <1>1, <1>4, <2>1 DEF ProvisionTypeOK
    <2>3. TipSha' = TipSha /\ InBaseline(TipSha)' = InBaseline(TipSha)
      BY <1>4 DEF TipSha, InBaseline
    <2>4. CommitsAreNumbered'
      BY <1>1, <2>1, <2>3 DEF CommitsAreNumbered, Generating
    <2>5. WorkIsWhole'
      BY <1>1, <1>4, <2>1, <2>3 DEF WorkIsWhole, HasPlanned
    <2>. QED
      BY <1>1, <1>4, <2>2, <2>4, <2>5, NothingCommitted
  <1>5. CASE ProvisionFails(TRUE) /\ UNCHANGED repo
    BY <1>1, <1>5, FailureKeeps DEF ProvisionTypeOK
  <1>. QED
    BY <1>2, <1>3, <1>4, <1>5 DEF CommitBaseline

\* The run that passed is of the last commit, which is not empty.
LEMMA VerifyStarterKeeps ==
  ASSUME ProvisionInv, VerifyStarter
  PROVE  ProvisionInv'
  <1>. USE DEF ProvisionInv
  <1>1. making.pc = "committed" /\ UNCHANGED <<generator, repo>> /\ foundation.runs = <<>>
    BY DEF VerifyStarter, SavedIsSound
  <1>2. CASE \E retryable \in BOOLEAN : ProvisionFails(retryable)
    BY <1>1, <1>2, FailureKeeps DEF ProvisionTypeOK
  <1>3. CASE /\ foundation' = [foundation EXCEPT !.runs = Append(@, TipSha), !.baseline = making.baseline,
                                                 !.provisioned = TipSha]
             /\ making' = [making EXCEPT !.pc = "recorded"]
    <2>1. /\ making'.pc = "recorded"
          /\ making' \in [pc: {"recorded"}, baseline: Shas, generator: 0..MaxGenerators]
      BY <1>3 DEF ProvisionTypeOK
    <2>2. /\ HasPlanned(InBaseline(TipSha)) /\ making.baseline = TipSha
      BY <1>1 DEF WorkIsWhole
    <2>3. TipSha \in 1..TipSha
      <3>1. TipSha # 0
        BY <2>2 DEF HasPlanned, InBaseline
      <3>. QED
        BY <3>1, ProvisionBounds
    <2>4. /\ foundation'.runs = <<TipSha>> /\ foundation'.baseline = TipSha
          /\ foundation'.provisioned = TipSha /\ foundation'.phase = foundation.phase
          /\ foundation' \in [phase: {"PROJECT_PROVISIONING", "CURSOR_EXECUTING", "BLOCKED"},
                              runs: Seq(Shas), baseline: Shas, provisioned: Shas]
      <3>1. Append(foundation.runs, TipSha) = <<TipSha>> /\ TipSha \in Shas /\ <<TipSha>> \in Seq(Shas)
        <4>. HIDE DEF TipSha
        <4>. QED
          BY <1>1, ProvisionBounds
      <3>2. /\ foundation' = [phase |-> foundation.phase, runs |-> <<TipSha>>, baseline |-> TipSha,
                              provisioned |-> TipSha]
            /\ foundation.phase \in {"PROJECT_PROVISIONING", "CURSOR_EXECUTING", "BLOCKED"}
        BY <1>3, <2>2, <3>1 DEF ProvisionTypeOK
      <3>. QED
        BY <3>1, <3>2
    <2>5. TipSha' = TipSha /\ InBaseline(TipSha)' = InBaseline(TipSha)
      BY <1>1 DEF TipSha, InBaseline
    <2>6. ProvisionTypeOK'
      BY <1>1, <2>1, <2>4 DEF ProvisionTypeOK
    <2>7. CommitsAreNumbered' /\ WorkIsWhole'
      BY <1>1, <2>1, <2>5 DEF CommitsAreNumbered, Generating, WorkIsWhole
    <2>8. BaselineIsClean' /\ CursorHasRun'
      BY <2>4, <2>5 DEF BaselineIsClean, CursorHasRun
    <2>9. SavedIsSound'
      <3>1. InBaseline(foundation.provisioned)' = InBaseline(TipSha)
        BY <1>1, <2>4 DEF InBaseline
      <3>. QED
        BY <2>1, <2>2, <2>3, <2>4, <2>5, <3>1 DEF SavedIsSound, HasPlanned
    <2>. QED
      BY <2>6, <2>7, <2>8, <2>9
  <1>. QED
    BY <1>1, <1>2, <1>3 DEF VerifyStarter

LEMMA OwnerRetriesKeeps ==
  ASSUME ProvisionInv, OwnerRetries
  PROVE  ProvisionInv'
  <1>. USE DEF ProvisionInv
  <1>1. /\ foundation' = [foundation EXCEPT !.phase = "PROJECT_PROVISIONING"]
        /\ UNCHANGED <<making, generator, repo>>
    BY DEF OwnerRetries
  <1>2. /\ foundation'.runs = foundation.runs /\ foundation'.baseline = foundation.baseline
        /\ foundation'.provisioned = foundation.provisioned /\ foundation'.phase = "PROJECT_PROVISIONING"
        /\ foundation' \in [phase: {"PROJECT_PROVISIONING"}, runs: Seq(Shas), baseline: Shas,
                            provisioned: Shas]
    BY <1>1 DEF ProvisionTypeOK
  <1>3. ProvisionTypeOK'
    BY <1>1, <1>2 DEF ProvisionTypeOK, NoAttemptYet
  <1>4. CommitsAreNumbered' /\ WorkIsWhole' /\ BaselineIsClean'
    BY <1>1 DEF CommitsAreNumbered, Generating, WorkIsWhole, TipSha, BaselineIsClean, HasPlanned, InBaseline
  <1>5. SavedIsSound' /\ CursorHasRun'
    BY <1>1, <1>2 DEF SavedIsSound, CursorHasRun, TipSha, HasPlanned, InBaseline
  <1>. QED
    BY <1>3, <1>4, <1>5

\* What a worker that dies leaves: its generator, and the workspace as it is.
LEMMA ProvisionerDiesKeeps ==
  ASSUME ProvisionInv, ProvisionerDies
  PROVE  ProvisionInv'
  <1>. USE DEF ProvisionInv
  <1>1. /\ making' = NoAttemptYet /\ making'.pc = "idle"
        /\ UNCHANGED <<foundation, generator, repo>>
    BY DEF ProvisionerDies, NoAttemptYet
  <1>2. ProvisionTypeOK'
    <2>1. making' \in [pc: {"idle"}, baseline: Shas, generator: 0..MaxGenerators]
      BY <1>1, ProvisionBounds DEF NoAttemptYet
    <2>. QED
      BY <1>1, <2>1 DEF ProvisionTypeOK
  <1>3. CommitsAreNumbered' /\ WorkIsWhole'
    BY <1>1 DEF CommitsAreNumbered, Generating, WorkIsWhole, TipSha
  <1>. QED
    BY <1>1, <1>2, <1>3, NothingCommitted

LEMMA ProvisionStutterKeeps ==
  ASSUME ProvisionInv, UNCHANGED provisionVars
  PROVE  ProvisionInv'
  <1>1. UNCHANGED <<foundation, making, generator, repo>>
    BY DEF provisionVars
  <1>2. ProvisionTypeOK' /\ CommitsAreNumbered'
    BY <1>1 DEF ProvisionInv, ProvisionTypeOK, CommitsAreNumbered, TipSha, Generating
  <1>3. WorkIsWhole' /\ BaselineIsClean'
    BY <1>1 DEF ProvisionInv, WorkIsWhole, BaselineIsClean, TipSha, HasPlanned, InBaseline
  <1>4. SavedIsSound' /\ CursorHasRun'
    BY <1>1 DEF ProvisionInv, SavedIsSound, CursorHasRun, TipSha, HasPlanned, InBaseline
  <1>. QED
    BY <1>2, <1>3, <1>4 DEF ProvisionInv

LEMMA ProvisionNextKeeps ==
  ASSUME ProvisionInv, [ProvisionNext]_provisionVars
  PROVE  ProvisionInv'
  <1>1. CASE ProvisionSteps
    BY <1>1, BeginKeeps, EnterCursorKeeps, ResolveKeeps, ValidateScaffoldKeeps, AssertNoSecretsKeeps,
       AddAllKeeps, CommitBaselineKeeps, VerifyStarterKeeps DEF ProvisionSteps
  <1>2. CASE \E n \in Generators : GeneratorWrites(n) \/ GeneratorEnds(n)
    BY <1>2, GeneratorWritesKeeps, GeneratorEndsKeeps
  <1>. QED
    BY <1>1, <1>2, GeneratorTimeoutKeeps, OwnerRetriesKeeps, ProvisionerDiesKeeps, ProvisionStutterKeeps
    DEF ProvisionNext

LEMMA ProvisionInitHolds == ProvisionInit => ProvisionInv
  <1>. SUFFICES ASSUME ProvisionInit
                PROVE  ProvisionInv
    OBVIOUS
  <1>1. /\ foundation = [phase |-> "PROJECT_PROVISIONING", runs |-> <<>>, baseline |-> 0, provisioned |-> 0]
        /\ making = [pc |-> "idle", baseline |-> 0, generator |-> 0] /\ making = NoAttemptYet
        /\ generator = [n \in Generators |->
                         [state |-> "none", stack |-> "planned", timed |-> FALSE, stubborn |-> FALSE]]
        /\ repo = [files |-> {}, staged |-> {}, commits |-> <<>>]
    BY DEF ProvisionInit, NoAttemptYet, NoGenerator, NoSha
  <1>2. MaxGenerators \in Nat \ {0}
    BY ProvisioningAssumption
  <1>3. ProvisionTypeOK
    BY <1>1, <1>2 DEF ProvisionTypeOK, Shas
  <1>4. TipSha = 0
    BY <1>1 DEF TipSha
  <1>5. CommitsAreNumbered /\ WorkIsWhole
    BY <1>1, <1>2, <1>4 DEF CommitsAreNumbered, WorkIsWhole, Generating, Generators
  <1>6. BaselineIsClean
    BY <1>4 DEF BaselineIsClean, InBaseline
  <1>7. SavedIsSound /\ CursorHasRun
    BY <1>1 DEF SavedIsSound, CursorHasRun
  <1>. QED
    BY <1>3, <1>5, <1>6, <1>7 DEF ProvisionInv
-----------------------------------------------------------------------------
(* Theorems *)

\* Every reachable state satisfies the inductive invariant.
THEOREM ProvisionInvariant == ProvisionSpec => []ProvisionInv
  <1>1. ProvisionInit => ProvisionInv
    BY ProvisionInitHolds
  <1>2. ProvisionInv /\ [ProvisionNext]_provisionVars => ProvisionInv'
    BY ProvisionNextKeeps
  <1>. QED
    BY <1>1, <1>2, PTL DEF ProvisionSpec

\* The saved project, the attempt, the generators and the workspace have their
\* shapes, for every number of generators.
THEOREM ProvisionTypeCorrect == ProvisionSpec => []ProvisionTypeOK
  <1>1. ProvisionInv => ProvisionTypeOK
    BY DEF ProvisionInv
  <1>. QED
    BY <1>1, ProvisionInvariant, PTL

\* Cursor starts from a commit that has the outputs of the planned template,
\* whichever attempts, timeouts, deaths of the worker and generators left over
\* came before: nothing that validateScaffold has seen is gone when commitAll
\* runs, and no other commit is ever saved as the provisioned one.
THEOREM WholeFoundation == ProvisionSpec => []FoundationIsWhole
  <1>1. ProvisionInv => FoundationIsWhole
    BY DEF ProvisionInv, FoundationIsWhole, CursorHasRun, SavedIsSound, HasPlanned
  <1>. QED
    BY <1>1, ProvisionInvariant, PTL

\* No secret is in a baseline commit, although assertNoSecrets looks before
\* `git add` and generators write between the two: it is the search of the
\* staged files that keeps it out.
THEOREM CleanBaseline == ProvisionSpec => []BaselineIsClean
  <1>1. ProvisionInv => BaselineIsClean
    BY DEF ProvisionInv
  <1>. QED
    BY <1>1, ProvisionInvariant, PTL

\* Once a run has passed, the baseline of the project's repository and the
\* provisioned commit are both the commit of that run.
THEOREM AgreeingBaseline == ProvisionSpec => []BaselineAgrees
  <1>1. ProvisionInv => BaselineAgrees
    BY DEF ProvisionInv, BaselineAgrees, SavedIsSound
  <1>. QED
    BY <1>1, ProvisionInvariant, PTL

\* One step after a run has passed.
LEMMA SavedIsFinal ==
  ASSUME ProvisionInv, [ProvisionNext]_provisionVars, foundation.runs # <<>>
  PROVE  /\ foundation'.runs = foundation.runs /\ foundation'.provisioned = foundation.provisioned
         /\ repo'.commits = repo.commits
         /\ \A n \in Generators : generator[n].state = "none" => generator'[n].state = "none"
  <1>. USE DEF ProvisionInv
  <1>1. making.pc \in {"idle", "recorded"}
    BY DEF SavedIsSound
  <1>2. CASE ProvisionSteps
    <2>1. EnterCursor
      BY <1>1, <1>2 DEF ProvisionSteps, BeginProvisioning, ProvisioningSucceeded, SavedRuns, Resolve,
         ValidateScaffold, AssertNoSecrets, AddAll, CommitBaseline, VerifyStarter
    <2>. QED
      BY <2>1 DEF EnterCursor, ProvisionTypeOK
  <1>3. CASE \E n \in Generators : GeneratorWrites(n)
    BY <1>3 DEF GeneratorWrites, ProvisionTypeOK
  <1>4. CASE \E n \in Generators : GeneratorEnds(n)
    BY <1>1, <1>4 DEF GeneratorEnds, ProvisionTypeOK
  <1>5. CASE GeneratorTimeout
    BY <1>1, <1>5 DEF GeneratorTimeout
  <1>6. CASE OwnerRetries
    BY <1>6 DEF OwnerRetries, ProvisionTypeOK
  <1>7. CASE ProvisionerDies \/ UNCHANGED provisionVars
    BY <1>7 DEF ProvisionerDies, provisionVars
  <1>. QED
    BY <1>2, <1>3, <1>4, <1>5, <1>6, <1>7 DEF ProvisionNext

\* "A completed baseline is not regenerated": after a run has passed no step
\* changes the runs or the provisioned commit, commits, or starts a generator,
\* however often the job is repeated or retried and wherever it died.
THEOREM FinalFoundation == ProvisionSpec => FoundationIsFinal
  <1>1. ProvisionInv /\ [ProvisionNext]_provisionVars =>
          [foundation.runs # <<>> =>
             /\ foundation'.runs = foundation.runs /\ foundation'.provisioned = foundation.provisioned
             /\ repo'.commits = repo.commits
             /\ \A n \in Generators : generator[n].state = "none" => generator'[n].state = "none"]_provisionVars
    BY SavedIsFinal
  <1>. QED
    BY <1>1, ProvisionInvariant, PTL DEF ProvisionSpec, FoundationIsFinal
=============================================================================
