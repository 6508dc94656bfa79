# Formal models of the autonomous development platform

This directory holds TLA+ models of the platform under `src/`, the TLC
configurations that check them on small instances, and machine-checked proofs
about them. File names without a directory are relative to `src/src/`, so
`jobs/queue.js` is `src/src/jobs/queue.js` and `README.md:85` is a line of the
repository's own README.

## 1. The system

An owner submits an idea. A council of language models turns it into a
specification; Cursor implements it in a managed git worktree; the platform
verifies the checkpoint commit (build and tests, a launch, screenshots); the
council reviews the result, asks for corrections or a final verification; and
the result is packaged as a delivery that the owner approves or sends back.
API processes take the owner's commands; worker processes do the rest, one job
of a durable queue at a time. Everything is one PostgreSQL database, one
filesystem and the external services (models, Cursor).

| Component | State it keeps | Operations that change it | Interacts with | What makes it correct |
|---|---|---|---|---|
| **Job queue** `jobs/`, `db/schema.js` | table `jobs`: status, project, key, lock, lease, attempts, available_at; two partial unique indexes | `enqueue`, `claim`, `heartbeat`, `owns`, `completeAndHandoff`, `fail`, `recoverExpiredLeases`, `release`, `reconcile` | workers call it; API enqueues | one active row per project; locks are held by who executes; no planned work without a row; settled rows stay settled |
| **Worker** `worker/` | its id, the set of active executions | `start` (boot, reconcile, poll), `tick`, `executeClaimed`, `stop` | queue, orchestrator, store | exclusive execution per project; crash, SIGTERM and errors lose no work |
| **Orchestrator** `orchestrator/` | the project document (state, iteration, runs, records, decisions, delivery) | `submit`, `retry`, `approve`, `requestChanges`, `executeJob` with one handler per job type, `fail`, `recoverOnBoot` | queue, store, council, Cursor, git, verification, delivery | what is offered is verified and fresh; iterations are not run twice; history is kept; the work ends |
| **Stores** `storage/` | the rows of a document | `save` of a whole document, `get`, `list` | all | a save and a load bring back what later steps need; no save undoes another |
| **Delivery** `delivery/`, `notifications/` | deliveries, owner reviews, cycles, review sessions, notifications | `prepareDeliverySnapshot`, `recordOwnerDecision`, session start and stop, `notifyReady` | orchestrator, server | one decision per delivery; a decision is on what is current; a delivery is a snapshot |
| **HTTP server** `server.js` | in-process project locks | routes; some finish a delivery, mark notifications or open sessions and save the document themselves | orchestrator, store | its saves must not undo those of a worker |
| **Council, providers** `council/`, `providers/` | none but the calls under way | discovery, review, final verification, with retries and fallbacks | orchestrator | a verdict needs a quorum; a budget bounds the retries |
| **Cursor clients** `cursor/` | an ACP session or a cloud run | `run`, preflight, postflight, permission answers | orchestrator, git | one run edits a worktree at a time; timeouts end runs |
| **Git** `git/` | worktrees, branches, checkpoint commits | create, checkpoint, inspect | Cursor, verification | a checkpoint holds exactly what is verified; protected branches stay untouched |
| **Verification** `verify/`, `runtime/`, `visual/` | runs, logs, started processes | plan, run steps, launch, capture | orchestrator, sandbox | a missing result is no pass; started processes are stopped |
| **Provisioning** `provision/` | a new repository | plan, apply, validate, baseline commit | orchestrator | once, resumable, before Cursor |
| **Secrets broker** `secrets/` | leases, vault | grant, revoke | verification, sandbox | a lease is for one project and ends |
| **Sandbox** `sandbox/` | containers, sessions | start, run, clean up | verification, review sessions | sessions end with their owners |
| **Auth, security policy** `auth/`, `security/` | none | decisions on a request or document | server, gate | pure functions |
| **Capabilities, readiness** `capabilities/`, `readiness/` | what the host has | discovery | worker | what a worker advertises it can do |
| **Front end** `public/` | none of its own | | server | not considered |

What is hard in it:

* **Interleavings.** A worker's execution reads the project once, calls for
  minutes and saves the whole document; the owner's commands, other API routes
  and, after a lost lease, another worker save the same document meanwhile.
* **Half-done operations.** Every command saves first and enqueues second;
  approve and request-changes take two transitions; a completion is followed by
  an event that may throw into the handler of failures; a dead letter is
  followed by a second write that may get lost.
* **Crash recovery.** Leases expire and are recovered by polling; boot reconciles
  from a list read earlier; every handler must tell what was done before the
  crash from what was not.
* **Stale evidence.** Records are kept for ever and looked up by iteration with
  a fallback to the latest one; whether one counts is decided by commit, in six
  places.
* **Loops.** Review, correction and re-verification call each other in circles
  that only the iteration limit ends.

`PROJECT.json` lists each hazard with its line and the properties that would
catch it.

## 2. The modules

| Module | Models | Role |
|---|---|---|
| `JobQueue` | job queue, worker, the enqueue of the owner's commands | detailed specification, several workers |
| `MCJobQueue` | | symmetry and capability definitions for TLC |
| `JobQueueProofs` | | TLAPS proofs about `JobQueue` under any faults, and under those of the live runs |
| `Workflow` | orchestrator, with what it uses of stores, git, delivery | detailed specification, one project |
| `WorkflowProofs` | | TLAPS proofs about `Workflow`, and that it implements the safety of `Autonomy` |
| `Autonomy` | what the owner is promised | abstract specification, implemented by `Workflow` |
| `MCWorkflow` | | sets of verdicts for TLC |
| `OwnerReview` | delivery, notifications, server routes, stores, with the worker's saves | detailed specification, one project, requests side by side |
| `MCOwnerReview` | | symmetry of the requests for TLC |
| `OwnerReviewProofs` | | TLAPS proofs about `OwnerReview` |
| `Provisioning` | the PROJECT_PROVISIONING job, its generators and the workspace | detailed specification, one project |
| `ProvisioningProofs` | | TLAPS proofs about `Provisioning` |
| `CursorRun` | `executeCursor`, both Cursor clients, agents, postflight and checkpoint commit | detailed specification, one project |
| `CursorRunProofs` | | TLAPS proofs about `CursorRun` |
| `Council` | a session of the Council, its members, the Chair and their requests | detailed specification, one session |
| `CouncilProofs` | | TLAPS proofs about `Council` |
| `Verification` | the three verification jobs of one checkpoint, their processes and sandboxes | detailed specification, one checkpoint |
| `VerificationProofs` | | TLAPS proofs about `Verification` |
| `MCJobs` | | the four bodies of jobs side by side for TLC |
| `JobsProofs` | | TLAPS proofs about the four bodies side by side |

`JobQueue` and `Workflow` are the two halves of the core. `JobQueue` has many
workers and knows of a project only which job comes next; it shows when at most
one worker executes a project's jobs. `Workflow` takes that for granted and
follows one project through every handler; of the API it has the owner's
commands. `OwnerReview` looks at the end of that workflow with a finer grain: the
requests of an API process and the worker's jobs, each of which loads the
document, waits and saves it again. `Provisioning`, `CursorRun`, `Council` and
`Verification` are the insides of what `Workflow` has as one long call with a verdict: each
begins where a handler of `Workflow` starts its call (`Provision`, `CursorEdits` to
`SaveCursorResult`, `Discover`/`CouncilReview`/`FinalVerify`/`Look`, `Verify`/`Launch`) and ends with the
records that `Workflow` chooses at random. A project has one active job, so these
bodies do not interleave with each other; what outlives a body (an agent, a generator, a
process that ignores SIGTERM) is part of its own module.

### JobQueue

| Variable | Code |
|---|---|
| `job` | table `jobs` (`db/schema.js:137-170`); `lease` abstracts `lease_expires_at` to none, live, expired; `due` abstracts `available_at <= NOW()` |
| `stage`, `failed` | the saved document: which job `plannedJob` returns, and state FAILED |
| `call` | an API call between its save and its enqueue |
| `proc` | a worker process: off, booting, up, stopping (SIGTERM), released (rows given back), down |
| `run` | a call of `executeClaimed`: the claimed row with the attempts it was claimed with, what it has read, where it is |
| `listed` | what `recoverOnBoot` has read and not yet reconciled |
| `faults`, `resumes` | counters that only bound the instances |

Every UPDATE or transaction of `queue.js` is one action: `Claim`, `Heartbeat`,
`RecoverExpiredLeases`, `Complete`, `FailDead`/`FailRetry`/`FailRejected` (the
three outcomes of `fail`), `Release`, `Reconcile`. Between two of them the
processes interleave freely. The code looks at who holds the row in `heartbeat`,
`owns` and `release` only, and so does the model: `Complete` and the actions of
`fail` go by id. `Enqueue` covers both ways in which
nothing is inserted (the key is found; an index rejects the row). `Complete` has the
three outcomes of the transaction, the aborted one included (a look-up after the
failed INSERT throws, all is rolled back). `StartSkips`, `StartWorks` and `Save`
stand for `executeJob`: it reads the document, and it overwrites the whole
document with what it has made of it, whatever has been saved meanwhile. A
handler that finds an earlier stage than its job's catches up or returns; those of
COUNCIL_REVIEW and FINAL_VERIFICATION refuse it (an illegal transition, not retryable), which is
`WorkFails` and counts as a fault.

The faults a run allows are a constant, so that each property is checked under
exactly the faults it survives, and each fault in the list is one the code can
meet: processes die, SIGTERM arrives, any call throws, a live worker heartbeats
too late, `stop()` gives up waiting after its time, the owner acts between two
steps of a worker.

Abstracted: `WORKER_CONCURRENCY` is 1, its default; the order of rows in
`claim` (FIFO is not guaranteed, because of SKIP LOCKED and of required
capabilities); times are the two booleans above.

### Workflow

| Variable | Code |
|---|---|
| `doc` | the project document as `storage/project-document.js` saves it: state, iteration, Cursor runs, platform, runtime and visual records (`verified`, `launched`, `seen`), reviews, final verification, the latest delivery, cycles of owner feedback |
| `tree` | the managed worktree: head commit and whether there are uncommitted changes |
| `job`, `attempts` | the project's active row |
| `pc` | the execution: idle, start (a handler looks at the document), or inside a long call |
| `call` | the second step of an owner's command |
| `listed` | a boot between its list and its reconcile |

An action is what a handler does up to one save; a crash or an error may come between any two.
`At(step)` is the dispatch of `executeJob` (`orchestrator.js:150-234`): which
handler a job of this type runs in this state, or that it returns. `Saves` and
`Moves` are the save and `transition` with its table (`Targets` is
`states.js`). `Throws` is the worker's catch: queued again or, when the error is
not retryable or the attempts are used up, dead-lettered with
`orchestrator.fail`. `GateOpen` is `canCompleteAutonomousWork` (`gate.js`),
`LineageValid` is `validateEvidenceLineage`, `ResumeTarget` is
`resumeTargetAfterFailure`, `Latest` is the look-up with fallback that
`latestVerificationRun`, `latestRuntimeRun` and `latestVisualReview` share.
`Stored` is what a save keeps: `pendingOwnerFeedback` has no column.

Abstracted: verdicts of the council, the builds, the launches and the screenshots
are nondeterministic choices from the sets the constants give; Cursor may or may
not change the tree; only the latest delivery is kept (older ones are superseded, and only the latest one's key can come again).
A worker's hand-off reads the document and
completes in one step here; what happens between the two is what `JobQueue` is
about (run `q_owner_race`). Real projects only: demo projects and the JSON store
run a loop without a queue (`Orchestrator.run`), which is not modelled.

Deliveries: a delivery whose commit and records are those of an older one has its
idempotency key. `persistPhase9` then gives it the older one's row and id, while
its notification refers to the id it was created with; `Refused` is the violation of
the foreign key of `owner_notifications` that follows when the older delivery was
notified of (a PREPARING one is found again with its own id, a READY one is reused).

### OwnerReview

| Variable | Code |
|---|---|
| `db` | the rows of the project: its state, the delivery per evidence (`row`, with the id and the status of `delivery_snapshots`), which is `current`, `owner_reviews`, `owner_notifications`, the last of `review_sessions` |
| `act` | what each request and the worker is doing: its route or job, where it is, the document it has loaded; `torn` records that its tables were read on two sides of a save |
| `lock` | the chain of `withProjectLock`: the request whose turn it is |
| `crashes` | a counter that only bounds the instances |

`Saved` is what one `DurableStore.save` leaves in each table: the `projects` row is
overwritten, deliveries are upserted under the id their row has, a decision is
inserted `ON CONFLICT DO NOTHING`, notifications and sessions are upserted, and in the
implementation states deliveries are not written at all (`shouldSkipPhase9Persist`).
`Accepts` is the foreign key of notifications. `ReadState` and `ReadRest` are `get` and
`list`, which read `projects` first and the other tables afterwards, without a transaction.
`FinishDelivery` is taken by the job and by a GET of the project. `Decide` and
`Conclude` are the two transitions of `approve` and of `requestChanges`, under the lock.
`Open`, `Stop` and `MarkRead` are the routes that save a whole document for the sake
of a session or a notification.

Abstracted: what happens between a request for changes and the next delivery is one
job in discovery, one in implementation, always with a new commit; failures of the
project (`Workflow` has them), the servers behind review sessions, the external
notification providers and the contents of packages are left out. An id is
represented by who made it up; a request makes up one, and a worker never one for a row that exists (`TakesOver`).

### Provisioning

| Variable | Code |
|---|---|
| `asks` | what `evaluateArchitecture` finds of the specification: a provisioner of this worker, none but a Council to ask, infrastructure that is missing, or nothing |
| `foundation` | the saved project: its state, `provisioningRuns`, `repository.baselineSha` and `provisioning.baselineSha` |
| `making` | the attempt: where `runProjectProvisioning` is, and the baseline it has put into the project in memory |
| `generator` | the processes of `runGenerator`: up or gone, of the stack of the plan or of another, timed out, ignoring SIGTERM |
| `repo` | the workspace: files, staged files, commits |

`ProvisionFails` is the catch of `finishProvisioning`, which saves the project as the
attempt has left it, `CommitBaseline` the commit with its search of the staged files,
`VerifyStarter` the platform verification of the starter and `applyProvisioningResult`.
`Resolve` asks the Council twice in the case "council": the plan keeps the first answer,
the provisioner is the second's.

### CursorRun

| Variable | Code |
|---|---|
| `stage`, `iteration`, `row` | the project's state and its `cursor_runs` rows |
| `attempt` | the execution of `executeCursor` by the job at work |
| `owned` | what `queue.owns` answers |
| `call` | every call of `cursor.run`: where its own frame is (`exec`), what has become of its promise (`run`), its session, whether it is cancelled, its ownership interval (`watch`) |
| `active` | `this.active` of the client, the one slot |
| `agent` | the agent process or the remote run of each call |
| `tree` | pending, staged and committed files of the worktree |

The attempt and the frames of calls are separate actors: `withTimeout` (`Timeout`) settles the
attempt and the frame goes on, closes (`EndFrame`), polls or cancels later
and then finds the slot of somebody else. `Tick` is the interval of the ACP client,
`PollLost` and `PollEnds` the polling of the Cloud client, `CancelActive` and `CancelRemote` the two
`cancel`s.

The agents are further actors. One that works in the worktree edits, undoes changes, stages and commits between
any two steps (`AgentEdits`, `AgentDrops`, `AgentAdds`, `AgentCommits`): the permission policy allows it `git add`,
`git commit` and `git checkout` of a file. A local agent that was told to stop is `ending`, not gone: `close` and `cancel`
send SIGTERM to its process and do not wait for it, so that it goes on in all these ways beside the postflight, until
`AgentDies`, which need never happen. What it edits then is `late`.

The postflight and the checkpoint commit are as many steps as they have calls of git: `ReadHead`, `Collect` (names),
`Add`, `Scan`, `Commit`, `ReadHead` again. `Scan` looks at the names in the index and at contents in the worktree:
`touched` says that an agent has changed either since `git add`, after which the contents that are read need not be those that are
committed. A commit records whether the platform or an agent has decided what is in it, or both. While an agent is at work any call of
git may find the index locked (`GitBusy`).

### Council

| Variable | Code |
|---|---|
| `session`, `asked` | the session's kind, the round it is in, and who is asked |
| `request` | the request of each provider: tries of `withRetry`, repairs of `completeValidated`, calls in all, how it ended |
| `said`, `raised` | findings in the answers, and those the Chair's decision is checked against |
| `rounds`, `verdict` | the history, and how the session ended |

`After` is one more answer inside the two nested loops. `Quorum` is the check of
`independentRound`; screens have none. `Stands` gathers the assertions on the Chair's
decision (`assertReviewChairDecision`, `assertFinalDecision`, the check at the end of `visualReview`).

### Verification

| Variable | Code |
|---|---|
| `world` | what is verified: sandbox, plan, kind of application, whether it can be launched, mobile tools |
| `phase`, `saved` | the project's state and the saved platform, runtime and visual run |
| `at` | the job at work: step, results so far, outcomes of scenarios |
| `proc`, `left` | the process that is waited for with what it has started (`kin`), and those that outlived their run, each with why |

A process ends when it likes, and on the host may leave others behind; a timer sends SIGTERM, which a process of the fault
`stubborn` ignores. `Shutdown` is `shutdownManagedProcess`: on the host the group is signalled unless its leader has
exited, and a process that has left the group is not; docker is asked to kill a container, and the fault `docker` is that it does not. A
start that throws (`StartThrows`) may have started the process: `local-unsafe.js` spawns before it opens the log. `CommandTimeout` is the timer of a command, `StartupTimer` the one of
`launchManagedProcess` that only a shutdown clears. `RuntimeStatus` is the end of
`runRuntimeVerification`, with `RecordedStatus` for a CLI that was stopped and has no exit code.

Abstracted in the four: which templates, prompts, schemas, toolchains and
accessibility rules there are; a file is who wrote it and whether it is a secret;
the durations of timers are only compared where the code relies on it (the timers of an ACP call are equal, the one of
a Cloud attempt is shorter than its polling).

### Autonomy

Six lines of promise: the platform works on its own, `Iterate` at most
`MaxIterations` times, `Implement`s (a new head commit), `Prove`s the head,
`Offer`s only a head that is proven, or `Fail`s; while a commit is offered
nothing changes but by the owner; and it does not work for ever without an
outcome. `Workflow` implements it under the mapping at its end (`Promised`): phase is read off the state, proven
are the commits with a platform record that does not block, and offer is the
commit of the last run.

## 3. What TLC checks

Passing runs. State counts are distinct states.

| Run | States | Shows |
|---|---|---|
| `q_any_fault` | 1.1 million | two workers, three rows, three faults of **any** kind, one owner resume: types, at most one active row per project, and a row's holder is executing it or dead |
| `q_live` | 306 000 | three workers, late heartbeats and given-up stops excluded, one crash, stop or error, a retry by the owner: exclusive execution, settled rows are final, progress is never undone, no plan is without a row or somebody at work, and under fairness every planned job is worked off |
| `w_cycle` | 758 000 | a project with a UI, two iterations, all verdicts of all stages, a cycle of owner changes, two crashes, errors or boots at any point: what is offered is verified, judged and can be decided on, reviews follow verification, no iteration runs twice, the work ends, and the workflow implements `Autonomy`, its liveness included |
| `w_retry` | 811 000 | new and existing projects, errors anywhere, dead letters, two retries or cycles, two faults, those of the API included: what is offered is fresh, no stranded work, no Cursor without a foundation, history is kept |
| `d_review` | 671 000 | three requests of any kind beside the worker, two deliveries, one crash: one notification and one outcome per delivery, the lock is never left behind, and deciding or finishing twice takes no project back |
| `j_calls` | 1.15 million | each body of a job, with every kind of session, application, sandbox, backend and architecture, under every fault of its module: see the next table |

What `j_calls` shows of each body:

| Property | Of |
|---|---|
| `FoundationIsWhole`, `BaselineIsClean`, `BaselineAgrees`, `FoundationIsFinal` | provisioning: implementation starts from a commit with the scaffold of the plan, no secret is committed, the baseline of the project is the one that passed, and it is made once, whatever attempts and generators came before |
| `SecretsStayOut`, `ResultHasItsWork`, `EditsAreKept`, `OnlyLostRunsAreCancelled` | Cursor: no commit the platform makes has a secret it could see, although agents go on writing and staging; a checkpoint has all that its agent did until it was told to stop and nobody undid; the platform throws no edit away; a call is cancelled only if its job is lost, as long as none was given up on |
| `CallBudget`, `QuorumBacksVerdict`, `MinorityHeard` | Council: requests are bounded, every round behind a verdict had its quorum, and no severe finding is passed over |
| `PassIsEarned`, `LaunchedPassIsEarned`, `NothingLeftRunning` | verification: a PASS has all its steps or scenarios, whatever timers did; a job that is over holds no process, and what is left running has lost its worker, was reported as not started, was not signalled or ignored SIGTERM on the host, or is docker's |
| `JobsTypeOK`, `BodySettles` | all: types; every body comes to an end, unless it waits for a process that ignores SIGTERM |

Runs that show a disagreement between the code and what the repository says of
it; each is listed under `findings` with both lines.

| Run | Property | The code |
|---|---|---|
| `q_owner_race` | `NoStrandedPlan` | requests for changes between a worker's last read and its hand-off enqueue nothing and the hand-off plans nothing: the project waits with no job until a process boots |
| `w_unverified` | `ReadyIsVerified` | a retry after the iteration limit loses the override of a COMPLETE review; with a blocking failure that build, test and lint evidence do not show (conflicting lockfiles) the result is offered |
| `w_feedback` | `FeedbackReachesCursor` | the owner's feedback is lost by the first save; Cursor gets the old prompt |
| `w_undelivered` | `AcceptedWorkIsDelivered` | a cycle in which Cursor commits nothing has the key of the delivery that was sent back; each save of it violates the foreign key of its notification until the project fails |
| `d_done` | `DoneIsFinal` | opening or stopping a review session or marking a notification read saves the document loaded before the owner's approval: DONE becomes READY_FOR_OWNER_REVIEW again, with a decision that can be neither repeated nor changed |
| `j_unrun` | `RuntimePassIsEarned` | for a desktop application no scenario is planned and nothing is launched, and its runtime run is a PASS; so is that of a mobile application whose scenarios were NOT_RUN |

The passing runs of `Workflow` exclude what these show: `ReadyIsVerified`, `ReadyIsJudged`, `ReadyIsDecidable` and
`ReviewFollowsVerification` are checked with crashes, errors, boots and owner changes but
without retries of failed projects (`w_cycle`); `w_retry` then shows that what a retry leads to is still
fresh, although it may be unverified in the sense of `w_unverified`, not judged or not
decidable (section 5). `ReviewFollowsVerification` speaks of documents without an unresolved error: a job
that a late boot has planned may be at work on a project that has just failed, and the gate refuses whatever
comes of it. `ReadyIsFresh` asks for a final verification that said COMPLETE, `ReadyIsJudged` in addition
that it saw the last run, which is true only where nothing is retried.
`OnlyTransitions` of `d_review` excepts what follows a save by one of the routes of `d_done`, and loads that
were torn; what it shows is that the other saves, which are as blind, are kept from doing harm:
the late one of two that finish a delivery is refused by the foreign key of the notification, and the
late one of two decisions waits for the lock.

### Bounds

* `Last = 2`: two jobs and the wait for the owner. One job is handed off to a
  second, and one is the last; the first stage in `Guarded` is a handler that asks `owns()`, the other one
  does not. More stages repeat these two.
* Two workers suffice for a race over one row, a third takes over after both the
  first and the one that recovered it are gone; `q_any_fault` has two with all faults, `q_live` three.
* Rows: a run has one more than the fault-free life of a project needs per fault
  that adds one; an action that needs a free row is disabled without one,
  and `q_live` has so many (seven) that this cannot happen.
* `MaxAttempts = 2` has both a retry and an exhausted budget. It is the code's `JOB_MAX_ATTEMPTS` and bounds no
  claims: a row that crashes and expired leases bring back is claimed again whatever its attempts are, and `attempts` grows
  with the faults.
* `MaxIterations = 2`: a first implementation, a correction, and the limit. Look-ups
  by iteration with fallback need two iterations to go wrong.
* `j_calls`: `MaxCalls = 2` is a call that was given up on, or whose agent is ending, and one that
  it disturbs, of the same iteration or the next; a call makes one change at a time, one change in all is a secret. `MaxChanges = 2` are a
  change of either call beside the other's, so that one is staged or committed without the other. `MaxOwnCommits = 1` is one commit of an agent at
  any moment of the platform's own; a second one would again put something into the branch between two calls of git.
  `MaxGenerators = 2`
  is a generator that is left behind and that of the next attempt. Three members
  with a quorum of two are a majority, a minority and one that drops out; two
  findings are one that is severe and one that is not; one retry and one repair have
  both orders of the two. `SomePlans` has required and optional steps, a required install, a conflict of
  lockfiles, no step, no workspace.
* `d_review`: two versions are a delivery that is superseded and its successor; three
  requests are two that race and one that comes between them; each is of any kind, so that a
  fourth would only be one more of these. `MaxCrashes = 1` takes either process away
  at any point.
* `MaxFaults` and `MaxResumes` bound how many faults and owner commands a
  behaviour has; they are guards of the actions and nothing else depends on them.

Deadlock is not checked: a project that waits for its owner, or is done, stops, and so
do all workers when there is nothing to do or the last one is stopped.

### Fairness

`JobQueue!Fairness`: an API call that has saved goes on to enqueue; a dead
worker's lease runs out and a backoff elapses (clocks run); a process that has
started boots, polls (`setInterval`), claims a row it can take, executes it (every
long call has a timeout) and leaves when told to. There is no fairness for faults,
for owners, or for late heartbeats, and no process is ever restarted: `Boot` is for each id once, so
that liveness must come from the workers that are left. `q_live` leaves out `apiCrash` and the
races, after which the code relies on a later boot that nothing guarantees.

`Workflow`: weak fairness of what workers do and of what an API call does next.
The choice of verdicts is not fair: a council that always demands changes is
among the behaviours, and the work still ends, by the iteration limit. `KeepsPromise` excludes crashes of the API for the reason above.

`OwnerReview` states safety only and assumes no fairness.

`JobsFairness`: weak fairness of the steps of the worker and of its timers, and of the end of a process that
got SIGTERM and does not ignore it. Nothing is assumed of agents, remote runs, generators and commands:
`BodySettles` is what the timers are for.

## 4. What is proved

`JobQueueProofs` proves for any set of projects, rows and workers, any stage
count, any fault set and any bounds:

* `TypeCorrect`: `Spec => []TypeOK`
* `AtMostOneActive`: `Spec => []OneActivePerProject`
* `LocksAreHeld`: `Spec => []HolderExecutes`

The only assumption is `QueueAssumption` (None is no row and no worker, Last and
MaxAttempts are positive, Faults is a set of known faults).

None of the three is inductive. `HolderExecutes` says that a worker named in a row executes it, on its
last claim; to keep this when another worker recovers the row and a third one claims
it, one must know that an unlocked row is not RUNNING and that an execution has a
row. `OneActivePerProject` is kept by inserts, which look at the table, by `FailRetry`, which the
index guards, and by the requeues, which need that a row that is
RUNNING was active before. The inductive invariant `IInv` is therefore

    TypeOK /\ ExecutionHasRow /\ InsertedHasProject /\ LockedIffRunning
           /\ OneActivePerProject /\ HolderExecutes

where `ExecutionHasRow`: whoever is not idle has a row that was inserted, at an
attempt it really had; `InsertedHasProject`: inserted rows have a project, absent ones
have none; `LockedIffRunning`: RUNNING rows, and only these, have a holder and a
lease. The proof has a layer of lemmas about the operators (`EnqueueInserts`, `SettledFields`,
`RequeuedFields`, ...), a layer about kinds of steps (a row is written, an execution
moves, a process dies, a row is unlocked), one lemma per action, and `NextIInv`,
which is the case split over `Next`.

Its other parts prove what does not hold under every fault, each theorem from the faults it excludes:

* `Timely` (no lease of a live worker runs out, `stop()` waits, the event after a completion does not throw):
  `Exclusive`: `Spec => []ExclusiveExecution` and `SettledForGood`: `Spec => SettledIsFinal`, an action property
* `NoLateEnqueue` (`Timely`, and nothing is enqueued between a dead letter and the write of FAILED):
  `ProgressKept`: `Spec => ProgressIsKept`, an action property
* `NoDoubleFault` (`NoLateEnqueue`, the API does not die between its save and its enqueue, an owner acts on projects
  nobody works on, and either there is at most one fault, or no job throws, or nobody crashes and no write of FAILED is lost):
  `NothingStranded`: `Spec => []NoStrandedPlan`

The instance of `q_live` satisfies all three; `q_owner_race` shows what an owner does to the last one, and
section 5 names what a second fault does. The hypotheses are constant, so that they are assumptions
of the theorems and of no module. Workers may crash, stop, be recovered from and reconcile a stale list throughout.
Three invariants, each inductive with those before it:

* `Held` (`OwnRow`, `ExpiredIsDead`): whoever executes a row has it RUNNING and locked, and only leases of the dead run out.
  The first needs the second when a worker recovers rows, as the UPDATE looks at leases and not at processes. As the
  row is active, and a project has one such row, executions exclude each other, the abort of a hand-off
  (the third branch of `Complete`) and the rejected retry (`FailRejected`) cannot happen, and what `Complete`
  and `fail` write by id is their own.
* `Kept` (`DeadIsAlone`, `WorksOnSaved`): a project whose row is dead has no other until it is FAILED, and the document
  a handler works on is the one that is saved, which is why the blind write of the whole document loses nothing.
* `Planned`: what the hand-off has read is the plan (`ReadIsPlan`), and a plan has a row, a call on its way or a dead letter about to
  fail its project (`PlanHasRow`). A dead letter must come from a fault (`FailsByFault`), or two faults could
  not be excluded; so no handler may refuse its state, and this needs that a project is never more than one stage past
  its row (`RowsNear`), rows from a stale list included (`RowlessIsFresh`).

TLC checked the three as invariants of two-worker instances before they were proved.

`OwnerReviewProofs` proves for any set of requests and routes, any number of deliveries and
of crashes:

* `TypeCorrect`: `Spec => []TypeOK`
* `LockNeverLeft`: `Spec => []LockHasHolder`
* `OneNotification`: `Spec => []NotifiedOnce`
* `OneDecision`: `Spec => []OneOutcome`
* `SavesFollowTransitions`: `Spec => OnlyTransitions`

The only assumption is `ReviewAssumption` (None is no actor, the worker is no request,
`Kinds` are known routes, there is at least one delivery).
Torn loads and bystanders, which `OnlyTransitions` has to except, are included in the other four.

The saves are blind: what keeps the tables sound is that whatever is saved is a
document that is sound in itself and was loaded from these tables earlier, and that the
tables never take back what such a document relies on. The inductive invariant is

    TypeOK /\ LockHasHolder /\ LockExcludes /\ WaitsToDecide
           /\ Sound(db) /\ HeldIsSound /\ DecidesOnLatest

`Sound` is said of the tables and of every document in memory: a superseded
delivery was sent back and an approved one approved (`RowsSound`), so was every
delivery that has a successor, and the notifications are those of the deliveries,
under the ids these have (`NotesSound`). `HeldIsSound`: the tables still have what a document was loaded
with (`Loaded`), that is its decisions and the ids of its deliveries; that ids
stay is the upsert's doing, that decisions stay is `ON CONFLICT DO NOTHING`.
`DecidesOnLatest`: a request that decides has the latest decisions, as nobody else
decides while it has the lock (`LockExcludes`). Without it two decisions on one delivery would
overwrite each other's row while the first stays in `owner_reviews`. The notification of a
delivery that two actors finish together is kept single by the foreign key (`Accepts`), of a
delivery in a later cycle by `TakesOver`. The lemmas come in
layers: documents (`FinishedIsSound`, `CycleIsSound`, `DecidedIsSound`), saves
(`SavedRowsSound`, `SavedNotesSound`, `LoadedStays`), kinds of steps, one lemma per action, `NextKeeps`.

For `OnlyTransitions` a second invariant, `Orderly`, goes with this one. `Kept` holds always: no document
has evidence that the tables do not have (`VersionsKept`), only the worker adds any, so that what it holds is of the
latest (`WorkerIsLatest`), and a request that has made a delivery is done (`RowsOfDone`). `Straight` holds until a bystander
or a request with a torn load is done, after which the property says nothing either: all evidence
but the latest has its delivery, and the latest too unless it is being prepared (`DeliveredUpTo`, `PreparedIsNew`);
between a request for changes and the new evidence the worker cannot but make new evidence (`ChangesOwed`); and a document that would move
the project from some state is held only while the tables are still in that state, because the others that could move it
are not at work (`WorkerFollows`), do not have the lock (`DeciderFollows`, `ConcluderFollows`), or, if they finish a
delivery, make a new one (`PreparesNew`), which the foreign key refuses where somebody else's is in the table (`FinishesLatest`).
`ConcluderFollows` has a second case that is easy to miss: a worker whose load was torn by a decision can take the project back
to READY_FOR_OWNER_REVIEW before the decision's second save, which then leaves READY_FOR_OWNER_REVIEW for
DONE or COUNCIL_DISCOVERY; the property excepts both saves, as the worker's load stays torn.
TLC checked this invariant before it was proved, with three requests of all kinds and two crashes, and with four that view and decide.

`CouncilProofs` proves for any set of providers, any threshold of answers, budgets of retries
and repairs, findings and kinds of sessions:

* `CouncilTypeCorrect`: `CouncilSpec => []CouncilTypeOK`
* `WithinBudget`: `CouncilSpec => []CallBudget`
* `QuorumBehindVerdict`: `CouncilSpec => []QuorumBacksVerdict`
* `MinorityIsHeard`: `CouncilSpec => []MinorityHeard`

The only assumption is `CouncilAssumption` (finitely many members, of which the Chair, as a provider
with a model of its own, is none; natural numbers for the thresholds; severities the schema knows). The inductive
invariant `CouncilInv` is

    CouncilTypeOK /\ BudgetKept /\ PastHeld /\ ChairIsSilent
                  /\ BeginsEmpty /\ FoundIsRaised /\ VerdictStands

`CallBudget` bounds the calls by a product and is not inductive: an open request must be known to have used
at most its repairs with all retries each, and the tries of the one it is at (`BudgetKept`).
`QuorumBacksVerdict` speaks of sessions that are over; `PastHeld` says of every session that its earlier
independent rounds are in the history with their quorum, and as the Chair is last, a verdict has them all. A round that is
skipped must not be one of these: `RoundsInOrder` shows that it is the resolution after the
critique. For `MinorityHeard` what reviewers found has to reach the Chair: `FoundIsRaised` keeps the
history below what the decision is checked against, which in a session of reviews is replaced, not added
to, so that its history must be empty before (`BeginsEmpty`), and `VerdictStands` that the
decision has passed the checks.

`ProvisioningProofs` proves for any architectures, faults and number of generators:

* `ProvisionTypeCorrect`: `ProvisionSpec => []ProvisionTypeOK`
* `WholeFoundation`: `ProvisionSpec => []FoundationIsWhole`
* `CleanBaseline`: `ProvisionSpec => []BaselineIsClean`
* `AgreeingBaseline`: `ProvisionSpec => []BaselineAgrees`
* `FinalFoundation`: `ProvisionSpec => FoundationIsFinal`, an action property

The only assumption is `ProvisioningAssumption` (known architectures and faults, at least one
generator). The inductive invariant `ProvisionInv` is

    ProvisionTypeOK /\ CommitsAreNumbered /\ WorkIsWhole
                    /\ BaselineIsClean /\ SavedIsSound /\ CursorHasRun

`FoundationIsWhole` is said of the state in which Cursor starts, many steps after the
files were looked at. `WorkIsWhole` follows what `validateScaffold` has seen: the files are there until
`git add`, then in the index or an earlier baseline, then in the commit the attempt names as
its baseline; it holds because leftover generators add files and remove none, and because an attempt that
dies leaves the index to the next. `SavedIsSound` says what a saved run stands for: one run, of a whole
commit, with both baselines, and no attempt after it, from which
`FinalFoundation` follows. `CommitsAreNumbered` bounds the commits by the generators and is what keeps
the types; `BaselineIsClean` is inductive with them, as the search is of the index that is committed.

`CursorRunProofs` proves for any number of calls and iterations, either backend and any faults:

* `CursorTypeCorrect`: `CursorSpec => []CursorTypeOK`
* `NoSecretCommitted`: `CursorSpec => []SecretsStayOut`
* `WholeResult`: `CursorSpec => []ResultHasItsWork`
* `NoEditLost`: `CursorSpec => EditsAreKept`, an action property
* `NoSoundRunCancelled`: `CursorSpec => OnlyLostRunsAreCancelled`, an action property

The only assumption is `CursorAssumption` (a backend at least, positive bounds, known
faults). The inductive invariant `CursorInv` is

    CursorTypeOK /\ CallsAreTaken /\ FramesEnd
                 /\ WorkIsCommitted /\ StagedIsClean /\ ResultHasItsWork /\ SecretsStayOut

`ResultHasItsWork` speaks of the future of an agent as well: once a result is saved, whatever its agent still does must be
late. `FramesEnd` says that a call of the ACP client that was settled by its own end has an agent that was told to stop,
that only one frame is waited for, and that the slot and the intervals are those of living frames. `WorkIsCommitted` carries
what the agent had done by then from the worktree through the index into the checkpoint. On the way it may turn up in a
commit of some agent instead, and HEAD is asked for before the rest: a clean worktree is one whose work is in the branch, but
perhaps after the commit that was named (`InBranch`), in which case the commits in between are agents'. Of saved results it says that their call is over. A frame
whose call was given up on lives on, which is why the invariant is about all calls and not about the attempt's
alone; `CallsAreTaken` gives every attempt a call of its own, so that the work of an old agent is
never taken for that of a new one. `StagedIsClean` is what a search is worth between it and the commit: the index is clean as long as
no agent has touched it.

`VerificationProofs` proves for any plans, sandboxes, kinds of application and faults:

* `VerifyTypeCorrect`: `VerifySpec => []VerifyTypeOK`
* `EarnedPass`: `VerifySpec => []PassIsEarned`
* `EarnedLaunchedPass`: `VerifySpec => []LaunchedPassIsEarned`
* `NothingLeft`: `VerifySpec => []NothingLeftRunning`

The only assumption is `VerificationAssumption` (a plan's required steps are steps of the plan, these are known ones,
known sandboxes, kinds and faults). The inductive invariant `VerifyInv` is

    VerifyTypeOK /\ ProcessIsOfJob /\ CommandIsNext /\ ScenariosAreShown
                 /\ PassIsEarned /\ LaunchedPassIsEarned /\ NothingLeftRunning

A PASS is decided from the outcomes collected so far. That these are those of the whole plan needs the order of its
steps: a command that runs is the first that is not done (`CommandIsNext`; `Positions` and the lemmas after it
are about the minimum this is), so that the loop ends when nothing is to go.
`ProcessIsOfJob` ties the process to the step of the job, which is what a job that ends must know to leave
none behind, what a job may leave is shown at each of its ends (`Excused`, `ShutdownLeaves`, `StartThrowsLeaves`), and `ScenariosAreShown` says that what is judged is of this job and was launched.

`JobsProofs` takes the four together: `MCJobs`, on which TLC checks the bodies, lets one of them run and
holds the others still. Any constants of the four and any set of bodies:

* `JobsTypeCorrect`: `JobsSpec => []JobsTypeOK`
* `JobsAreSafe`: `JobsSpec => []BodiesAreSafe`, the eleven invariants of the bodies
* `JobsStepsAreSafe`: `JobsSpec => FoundationIsFinal /\ EditsAreKept /\ OnlyLostRunsAreCancelled`
* `JobsImplementBodies`: `JobsSpec => BodiesAsSpecified`: each body begins and goes on as its own specification
  says (fairness aside, which only the body that runs is given)

A step of one body leaves the variables of the others unchanged (`BodiesStep`), so that the conjunction `JobsInv` of the
four inductive invariants is inductive. The invariants of the bodies have names of their own for that reason, and
what is checked of the composition is what is proved of the parts.

`WorkflowProofs` proves for any owner, faults, verdicts and bounds:

* `TypeCorrect`: `Spec => []TypeOK`
* `FreshReady`: `Spec => []ReadyIsFresh`
* `RunsOnce`: `Spec => []IterationsRunOnce`
* `FoundationFirst`: `Spec => []CursorNeedsFoundation`
* `HistoryKept`: `Spec => HistoryIsKept`, an action property
* `WorkNotStranded`: `Spec => NoStrandedWork`, an action property

and, assuming `NoRetry` (the owner never retries a failed project; `"retry" \notin Owner`):

* `ReadyVerified`: `Spec => []ReadyIsVerified`
* `ReadyJudged`: `Spec => []ReadyIsJudged`
* `ReadyDecidable`: `Spec => []ReadyIsDecidable`
* `ReviewAfterVerification`: `Spec => []ReviewFollowsVerification`
* `PromiseKept`: `Spec => PromisedSafely`, the initial states and steps of `Autonomy`

The assumptions are `WorkflowAssumption` (known verdicts, owner commands and faults, natural numbers as bounds)
and `NoneAssumption` (null is none of the words that may stand in its place). `NoRetry` is a hypothesis and not
an oversight: with retries the code violates the first three (`w_unverified`, and section 5).

The inductive invariant is

    TypeOK /\ RunsInOrder /\ HeadIsLast /\ RecordsInOrder /\ StateIsEarned
           /\ CallIsOfState /\ DeliveryIsKept /\ CommandGoesOn /\ ReadyIsFresh

An offer is fresh because `LineageValid` and `GateOpen` look at the records by iteration and the gate's
look-up falls back to the latest record. What they find is of the head only if runs and
records are in the order of their iterations (`RunsInOrder`, `RecordsInOrder`), and nothing was
committed since the last run (`HeadIsLast`). The other parts say what a handler may rely on when it wakes up: the states
after the first checkpoint have one (`StateIsEarned`), a long call is one of the state and the job
it was begun in (`CallIsOfState`) although boots and owners act meanwhile, an approved delivery is not written
any more (`DeliveryIsKept`), and the second half of a command finds its first, or a job that has taken over
(`CommandGoesOn`), on which `WorkNotStranded` rests. Every action is shown to keep all nine parts, to
extend the history (`HistoryGoesOn`) and to strand nothing (`NothingStrands`) in one lemma; as nearly all of them end in a save, a
transition or a throw, there is a layer of lemmas about these three.

The results without retries rest on a second invariant over the first, `StraightInv`: a document without an
error is where its stages have led it (`Straight`). That a boot may plan a job for a state that has been left, and that this
job then finds another state, is why `Straight` says which job goes with which state; that
a fallback must not find a record of another commit, why every record is of a run that was done
(`RecordsAreOfRuns`), why states from review on have the last run verified (`IsVerified`), and why from final
verification on that record does not block (`IsAccepted`). A document with an error may be anywhere, and does no harm: the
gate is closed to it, only a retry clears the error, and it can only fail.

For `PromiseKept` the steps map as follows: `Checkpoint` is `Implement`, `Verify` is `Prove`, `RequestCursorRun` and a first
`StartCursor` are `Iterate`, `Deliver` and `BootDelivers` are `Offer`, a throw or a delivery that ends in FAILED is `Fail`,
`RequestChanges`, `Approve` and `Interpret` are what they are, and all other steps stutter.

Before they were proved TLC checked `IInv`, `StraightInv` and `PromisedSafely` on the instance of `w_cycle` and
`IInv` on that of `w_retry`.

Only model-checked is all liveness: that part of `KeepsPromise`, `BodySettles` and that of `JobQueue`. Liveness under
fairness is out of the reach of the prover.

## 5. What is not modelled

* The queue-less run loop for demo projects and the JSON store.
* Several API processes: the lock of decisions is a map in one process, so that two of them decide
  on one delivery together (the run's mutant without a lock shows what follows).
* The servers of review sessions, webhook and e-mail notifications, the files of a package.
* Mounts, networks and images of sandboxes, toolchain detection, artifacts.
* The secrets broker: its leases are in memory and the jobs modelled here take none.
* The creation of worktrees, import and migration: done once, before any job.
* Agents that switch, merge or rebase their branch (the policy allows it, `git/policy.js:76-82`), names that git quotes, and git failing for
  another reason than an index that an agent holds.
* The fate of an ACP call that is given up on while it opens its session: it stays where it is (`OpensAcp`). The code would go on to the prompt and save
  the document it was called with (`acp-client.js:158-175`, `orchestrator.js:788-806`).
* WORKER_CONCURRENCY above 1, where the jobs of a worker share `executionContext` (`orchestrator.js:151`).
* Pure decisions (security policy, permission policy, tokens, templates, names).
* I/O without state of its own: capability discovery, readiness, the front end.

Met while modelling and without a property: the attempt budget is looked at on failures only, so
that a job which kills its worker is claimed without limit (README.md:85 promises a dead letter); a
matching checkpoint after a crash is never recognised, because it is stored with
the result only, and the iteration is worked on again (README.md:184); an error and a
crash together may strand a project between its dead letter and FAILED; a worker that has lost its
lease saves its whole document over the FAILED of another worker's dead letter (README.md:194);
after an error in the second iteration's platform verification a retry takes the first
iteration's run for this one's (`orchestrator.js:1137`, `verify/pipeline.js:24`), and the council reviews a commit nobody has
verified (README.md:133). Two more ways through retries, which TLC finds with `Owner = {"retry", "changes"}` and two or three iterations:
a final verification that said COMPLETE while the gate was closed (the stale job of a late boot) stays, another run is
reviewed, an error comes between this review and FINAL_VERIFICATION, and the retry goes by the old decision
(`orchestrator.js:1147-1150`, `gate.js:105`), so that a result is delivered which violates `ReadyIsJudged` (README.md:188);
and a boot that half delivers a cycle without a commit saves a PREPARING delivery under the id of the one that was sent
back (`delivery/store.js:13`), so that after a failure and a retry what is offered violates `ReadyIsDecidable` and can neither be
approved nor sent back (`delivery/decisions.js:39-48`, README.md:420).

The queue's live runs count a handler that refuses the state of its project (a stale row for a project that an owner has
sent back) as a fault like any other error, so that a crash in the same behaviour, which may strand the
project between its dead letter and FAILED, belongs to what a second fault does.

What the platform does not know of its agents: an agent may commit by itself (`git/policy.js:60-63`, `cursor/command-policy.js:92`), and what it has
committed is not searched for secrets, neither by a checkpoint that finds the worktree clean (`checkpoint.js:54`) nor by the
postflight; contents are read from the worktree and not from the index that is committed (`checkpoint.js:80`, `secrets/scan.js:43`); the baseline of a
foundation is searched by names alone (`provision/git.js:110`). `SecretsStayOut` therefore speaks of commits the platform makes and
nobody has touched in between. A local agent, with the processes it has started, is told to stop and not waited for
(`acp-client.js:132-137`): what it does after that is in the checkpoint, in the next one, or in none.

What a verification may leave running, by the reasons `NothingLeftRunning` names: after a crash of the worker anything; after a start that was
reported as failed the process or the container (`local-unsafe.js:166` and `:192`, a `docker run` that timed out); on the host what the first
process has started, once it has exited (`process.js:122`), a command's anyway (`local-unsafe.js:11-20` signals the child alone), and what
ignores SIGTERM; a container when docker does not answer (`container.js:364`).

In the bodies of jobs: the interval of an ACP call that was given up on while it opened its session goes on and
cancels the call of the next job (`acp-client.js:123`), closing a frame empties the slot of whoever has it
(`acp-client.js:136`, `cloud-client.js:210`), and a Cloud run whose POST is answered after that is started and unknown;
what a Cloud run changes never reaches the local worktree, which is what the checkpoint is made of. `extractJson` throws for
braces with something else than JSON between them, and `council.js:64` does not repair that (README.md:233); a finding
of the same category and severity speaks for another, and final reviews are not held against the Chair (README.md:239).
A ready application is killed 30 seconds after its launch, as nothing clears the startup timer (`runtime/process.js:72`);
a command that ignores SIGTERM is waited for without end, and `cancelActiveVerification` has no handle to cancel
(`verify/runner.js:72`); the branch for a changed snapshot is empty (`verify/pipeline.js:100`). The plan of a foundation and its
provisioner can be of two answers of the Council (`architecture.js:54`) and nothing cleans the workspace in between, so that
files of both are committed; a load that fails on `provisioning_runs` alone has no foundation (`durable-store.js:367`, README.md:183).

## 6. Plan

1. `JobQueue`, its runs and the proofs of its safety, with any fault and under timely heartbeats. *Done.*
2. `Workflow`, `Autonomy` and their runs. *Done.*
3. `OwnerReview`: deliveries and the API's own saves, its runs and the proofs of one outcome,
   one notification and a state that keeps to its transitions. *Done.*
4. `Provisioning`, `CursorRun`, `Council`, `Verification`, composed in `MCJobs`, and their runs. *Done.*
5. Proofs about `Council`: types, the budget, the quorum behind a verdict, the minority. *Done.*
6. Proofs about `Workflow`: types, kept history, fresh, verified and decidable offers, its safety
   refinement of `Autonomy`. *Done.*
7. Proofs about `Provisioning`, `CursorRun` and `Verification`: types, whole and clean
   commits, no edit lost, verdicts that are earned. *Done.*
8. Proofs about the bodies side by side (`MCJobs`). *Done.*
9. If a run can be spared: the servers of review sessions (`delivery/session.js`).
