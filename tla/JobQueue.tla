------------------------------ MODULE JobQueue ------------------------------
(***************************************************************************)
(* The durable job queue: the jobs table (jobs/queue.js, db/schema.js) and *)
(* the worker processes that claim, heartbeat, execute, complete and fail  *)
(* its rows (worker/worker.js), with the two API calls that enqueue.       *)
(*                                                                         *)
(* A project is seen as the queue sees it: `stage' numbers the jobs its    *)
(* workflow plans one after the other (a correction loop has a new         *)
(* iteration, hence new keys, hence new stages), Last is a project that    *)
(* waits for its owner and plans no job, and `failed' is state FAILED.     *)
(* executeJob is abstracted to the read of the project it starts from and  *)
(* the blind write of the whole document it ends with.                     *)
(***************************************************************************)
EXTENDS Naturals, FiniteSets

CONSTANTS
  Projects,     \* project ids
  Jobs,         \* row ids of the jobs table
  Workers,      \* worker ids; a restarted process has a new one
  None,         \* NULL
  Last,         \* the stage at which a project waits for its owner
  MaxAttempts,  \* JOB_MAX_ATTEMPTS
  Guarded,      \* stages whose handler checks ctx.owns() before it starts
  Capable,      \* <<w, s>>: w advertises what a job of stage s requires
  Faults,       \* what the environment may do, a subset of FaultKinds
  MaxFaults,    \* bound: how many faults a behaviour has
  MaxResumes    \* bound: how many owner commands resume a project

FaultKinds == { "crash",          \* a worker process dies
                "stop",           \* a worker process gets SIGTERM
                "apiCrash",       \* the API dies between its save and enqueue
                "workError",      \* executeJob, or what follows it, throws
                "eventError",     \* appendEvent throws after the completion
                "failLost",       \* orchestrator.fail throws (swallowed)
                "slowHeartbeat",  \* a live worker's lease runs out
                "abortedDrain",   \* stop() gives up waiting for executions
                "deadLetterRace", \* an enqueue between dead letter and FAILED
                "ownerRace" }     \* an owner acts while a worker still runs

ASSUME QueueAssumption ==
  /\ None \notin Jobs /\ None \notin Workers
  /\ Last \in Nat \ {0}
  /\ MaxAttempts \in Nat \ {0}
  /\ Faults \subseteq FaultKinds
  /\ MaxFaults \in Nat /\ MaxResumes \in Nat

VARIABLES
  job,      \* the jobs table
  stage,    \* per project, the stage its saved document is at
  failed,   \* per project, whether its saved document is FAILED
  call,     \* per project, an API call that has saved and not yet enqueued
  proc,     \* per worker id, the life of its process
  run,      \* per worker, the execution of executeClaimed
  listed,   \* per worker, the plans recoverOnBoot read, to be reconciled
  faults,   \* faults so far
  resumes   \* owner commands so far

vars == <<job, stage, failed, call, proc, run, listed, faults, resumes>>
procVars == <<proc, run, listed>>

Statuses == {"ABSENT", "QUEUED", "RUNNING", "COMPLETED", "DEAD"}
Leases == {"none", "live", "expired"}

Row == [status: Statuses, project: Projects \cup {None}, stage: 0..Last,
        lockedBy: Workers \cup {None}, lease: Leases, attempts: Nat, due: BOOLEAN]

AbsentRow == [status |-> "ABSENT", project |-> None, stage |-> 0, lockedBy |-> None,
              lease |-> "none", attempts |-> 0, due |-> FALSE]

Pcs == {"idle", "claimed", "working", "saved", "read", "completed", "failed", "dead"}

Run == [pc: Pcs, job: Jobs \cup {None}, attempts: Nat, doc: 0..Last, terminal: BOOLEAN]

IdleRun == [pc |-> "idle", job |-> None, attempts |-> 0, doc |-> 0, terminal |-> FALSE]

-----------------------------------------------------------------------------
(* The plan of a project and the rows of the table *)

\* Mutant: a FAILED project still plans its job.
PlanIgnoringFailed(p) == stage[p]

\* plannedJob: the stage of the next job, Last when there is none.
Plan(p) == IF failed[p] THEN Last ELSE stage[p]

Active(j) == job[j].status \in {"QUEUED", "RUNNING"}

ActiveJobs(p) == {j \in Jobs : Active(j) /\ job[j].project = p}

Free == {j \in Jobs : job[j].status = "ABSENT"}

NewRow == CHOOSE j \in Jobs : j \in Free

\* The project and the stage of the job a worker executes.
ProjectOf(w) == job[run[w].job].project

StageOf(w) == job[run[w].job].stage

QueuedRow(p, s) == [AbsentRow EXCEPT !.status = "QUEUED", !.project = p,
                                     !.stage = s, !.due = TRUE]

\* The UPDATEs that settle a row or give it back; both clear the lock.
Settled(row, status) == [row EXCEPT !.status = status, !.lockedBy = None, !.lease = "none"]

\* Mutants: the lock is not cleared; the status is not set back.
RequeuedLocked(row, due) == [row EXCEPT !.status = "QUEUED", !.lease = "none", !.due = due]

RequeuedRunning(row, due) == [row EXCEPT !.lockedBy = None, !.lease = "none", !.due = due]

Requeued(row, due) == [row EXCEPT !.status = "QUEUED", !.lockedBy = None,
                                  !.lease = "none", !.due = due]

\* Mutant: only the key is looked up, the table has no index.
EnqueueByKey(p, s) ==
  IF s = Last \/ \E j \in ActiveJobs(p) : job[j].stage = s
  THEN UNCHANGED job
  ELSE /\ Free # {}
       /\ job' = [job EXCEPT ![NewRow] = QueuedRow(p, s)]

\* enqueue: nothing is inserted while the project has an active row, whether
\* the same key is found or an index of the table rejects the INSERT.
Enqueue(p, s) ==
  IF s = Last \/ ActiveJobs(p) # {}
  THEN UNCHANGED job
  ELSE /\ Free # {}
       /\ "deadLetterRace" \notin Faults =>
            \A w \in Workers : run[w].pc = "dead" => ProjectOf(w) # p
       /\ job' = [job EXCEPT ![NewRow] = QueuedRow(p, s)]

Running(w) == proc[w] \in {"up", "stopping", "released"}

Owns(w, j) == /\ job[j].status = "RUNNING"
              /\ job[j].lockedBy = w
              /\ job[j].lease = "live"

Fault(kind) == /\ kind \in Faults
               /\ faults < MaxFaults
               /\ faults' = faults + 1

-----------------------------------------------------------------------------
\* Every project has just been created by submit, whose enqueue is to come.
Init ==
  /\ job = [j \in Jobs |-> AbsentRow]
  /\ stage = [p \in Projects |-> 0]
  /\ failed = [p \in Projects |-> FALSE]
  /\ call = [p \in Projects |-> TRUE]
  /\ proc = [w \in Workers |-> "off"]
  /\ run = [w \in Workers |-> IdleRun]
  /\ listed = [w \in Workers |-> [p \in Projects |-> Last]]
  /\ faults = 0
  /\ resumes = 0

-----------------------------------------------------------------------------
(* The API: submit, retry, requestChanges *)

\* The second half of submit, retry and requestChanges.
OwnerEnqueue(p) ==
  /\ call[p]
  /\ call' = [call EXCEPT ![p] = FALSE]
  /\ Enqueue(p, Plan(p))
  /\ UNCHANGED <<stage, failed, proc, run, listed, faults, resumes>>

Working(p) == \E w \in Workers : run[w].pc # "idle" /\ ProjectOf(w) = p

\* The first half of retry (from FAILED, to the safest checkpoint) and of
\* requestChanges (from owner review, to a new discovery): the saved document.
OwnerResume(p) ==
  /\ Plan(p) = Last
  /\ ~call[p]
  /\ resumes < MaxResumes
  /\ "ownerRace" \notin Faults => ActiveJobs(p) = {} /\ ~Working(p)
  /\ \E s \in 0..(Last - 1) :
       /\ failed[p] => s <= stage[p]
       /\ ~failed[p] => s = 0
       /\ stage' = [stage EXCEPT ![p] = s]
  /\ failed' = [failed EXCEPT ![p] = FALSE]
  /\ call' = [call EXCEPT ![p] = TRUE]
  /\ resumes' = resumes + 1
  /\ UNCHANGED <<job, proc, run, listed, faults>>

ApiCrash(p) ==
  /\ call[p]
  /\ Fault("apiCrash")
  /\ call' = [call EXCEPT ![p] = FALSE]
  /\ UNCHANGED <<job, stage, failed, proc, run, listed, resumes>>

-----------------------------------------------------------------------------
(* The life of a worker process *)

\* createWorkerId, and the list recoverOnBoot reads before it reconciles.
Boot(w) ==
  /\ proc[w] = "off"
  /\ proc' = [proc EXCEPT ![w] = "booting"]
  /\ listed' = [listed EXCEPT ![w] = [p \in Projects |-> Plan(p)]]
  /\ UNCHANGED <<job, stage, failed, call, run, faults, resumes>>

\* One round of reconcile: a listed project with no active row is enqueued,
\* with the plan of the document that was listed.
Reconcile(w, p) ==
  /\ proc[w] = "booting"
  /\ listed[w][p] # Last
  /\ listed' = [listed EXCEPT ![w][p] = Last]
  /\ Enqueue(p, listed[w][p])
  /\ UNCHANGED <<stage, failed, call, proc, run, faults, resumes>>

StartPolling(w) ==
  /\ proc[w] = "booting"
  /\ \A p \in Projects : listed[w][p] = Last
  /\ proc' = [proc EXCEPT ![w] = "up"]
  /\ UNCHANGED <<job, stage, failed, call, run, listed, faults, resumes>>

\* What a dead process leaves: its rows stay as they are.
Dies(w) ==
  /\ proc' = [proc EXCEPT ![w] = "down"]
  /\ run' = [run EXCEPT ![w] = IdleRun]
  /\ listed' = [listed EXCEPT ![w] = [p \in Projects |-> Last]]

Crash(w) ==
  /\ proc[w] = "booting" \/ Running(w)
  /\ Fault("crash")
  /\ Dies(w)
  /\ UNCHANGED <<job, stage, failed, call, resumes>>

\* SIGTERM: no more ticks; then stop() waits for the active executions.
Stop(w) ==
  /\ proc[w] = "up"
  /\ Fault("stop")
  /\ proc' = [proc EXCEPT ![w] = "stopping"]
  /\ UNCHANGED <<job, stage, failed, call, run, listed, resumes>>

\* stop() has nothing active to wait for, or gives up waiting: then it gives
\* its active rows back, and the executions, which nothing cancels, go on
\* until the process exits.
Release(w) ==
  /\ proc[w] = "stopping"
  /\ LET j == run[w].job IN
       \/ /\ j = None
          /\ UNCHANGED <<job, faults>>
       \/ /\ j # None
          /\ Fault("abortedDrain")
          /\ job' = IF job[j].status = "RUNNING" /\ job[j].lockedBy = w
                    THEN [job EXCEPT ![j] = Requeued(job[j], TRUE)]
                    ELSE job
  /\ proc' = [proc EXCEPT ![w] = "released"]
  /\ UNCHANGED <<stage, failed, call, run, listed, resumes>>

Exit(w) ==
  /\ proc[w] = "released"
  /\ Dies(w)
  /\ UNCHANGED <<job, stage, failed, call, faults, resumes>>

-----------------------------------------------------------------------------
(* Time *)

\* A holder that is alive renews its lease well before it ends, unless the
\* heartbeats are late for longer than the whole lease.
LeaseExpires(j) ==
  /\ job[j].status = "RUNNING"
  /\ job[j].lease = "live"
  /\ \/ proc[job[j].lockedBy] = "down" /\ UNCHANGED faults
     \/ Fault("slowHeartbeat")
  /\ job' = [job EXCEPT ![j] = [job[j] EXCEPT !.lease = "expired"]]
  /\ UNCHANGED <<stage, failed, call, proc, run, listed, resumes>>

BackoffElapses(j) ==
  /\ job[j].status = "QUEUED"
  /\ ~job[j].due
  /\ job' = [job EXCEPT ![j] = [job[j] EXCEPT !.due = TRUE]]
  /\ UNCHANGED <<stage, failed, call, proc, run, listed, faults, resumes>>

\* heartbeat renews whatever row the worker still has locked, an expired
\* lease included. (Renewing a live lease changes nothing here.)
Heartbeat(w) ==
  /\ Running(w)
  /\ LET j == run[w].job IN
       /\ j # None
       /\ job[j].status = "RUNNING" /\ job[j].lockedBy = w
       /\ job[j].lease = "expired"
       /\ job' = [job EXCEPT ![j] = [job[j] EXCEPT !.lease = "live"]]
  /\ UNCHANGED <<stage, failed, call, proc, run, listed, faults, resumes>>

-----------------------------------------------------------------------------
(* tick *)

\* Mutants: leases that still run are recovered too; none ever is.
RecoverableAlways(w) == {j \in Jobs : job[j].status = "RUNNING" /\ j # run[w].job}

RecoverableNever(w) == {}

Recoverable(w) == {j \in Jobs : /\ job[j].status = "RUNNING"
                                /\ job[j].lease = "expired"
                                /\ j # run[w].job}

\* recoverExpiredLeases: one UPDATE over all rows but the worker's own.
RecoverExpiredLeases(w) ==
  /\ proc[w] = "up"
  /\ Recoverable(w) # {}
  /\ job' = [j \in Jobs |-> IF j \in Recoverable(w) THEN Requeued(job[j], TRUE) ELSE job[j]]
  /\ UNCHANGED <<stage, failed, call, proc, run, listed, faults, resumes>>

\* Mutant: the status of the candidate is not looked at.
ClaimAnyStatus(w) ==
  /\ proc[w] = "up"
  /\ run[w].pc = "idle"
  /\ \E j \in Jobs :
       /\ job[j].due
       /\ <<w, job[j].stage>> \in Capable
       /\ job' = [job EXCEPT ![j] = [job[j] EXCEPT !.status = "RUNNING", !.lockedBy = w,
                                       !.lease = "live", !.attempts = job[j].attempts + 1]]
       /\ run' = [run EXCEPT ![w] = [IdleRun EXCEPT !.pc = "claimed", !.job = j,
                                       !.attempts = job[j].attempts + 1]]
  /\ UNCHANGED <<stage, failed, call, proc, listed, faults, resumes>>

\* claim: SKIP LOCKED and the required capabilities may pass over older rows,
\* so that any due row the worker is capable of may be the one taken.
Claim(w) ==
  /\ proc[w] = "up"
  /\ run[w].pc = "idle"
  /\ \E j \in Jobs :
       /\ job[j].status = "QUEUED" /\ job[j].due
       /\ <<w, job[j].stage>> \in Capable
       /\ job' = [job EXCEPT ![j] = [job[j] EXCEPT !.status = "RUNNING", !.lockedBy = w,
                                       !.lease = "live", !.attempts = job[j].attempts + 1]]
       /\ run' = [run EXCEPT ![w] = [IdleRun EXCEPT !.pc = "claimed", !.job = j,
                                       !.attempts = job[j].attempts + 1]]
  /\ UNCHANGED <<stage, failed, call, proc, listed, faults, resumes>>

-----------------------------------------------------------------------------
(* executeClaimed *)

At(w, pc) == Running(w) /\ run[w].pc = pc

Goes(w, pc) == run' = [run EXCEPT ![w] = [run[w] EXCEPT !.pc = pc]]

Throws(w, terminal) ==
  run' = [run EXCEPT ![w] = [run[w] EXCEPT !.pc = "failed", !.terminal = terminal]]

\* executeJob reads the project. Nothing planned, the job's work done, or not its
\* turn yet: it returns. Past the next stage a handler may also refuse the state;
\* that one refuses a state before its stage is WorkFails.
StartSkips(w) ==
  /\ At(w, "claimed")
  /\ LET s == Plan(ProjectOf(w)) IN
       /\ s # StageOf(w)
       /\ \/ Goes(w, "saved")
          \/ s > StageOf(w) + 1 /\ s # Last /\ Throws(w, TRUE)
  /\ UNCHANGED <<job, stage, failed, call, proc, listed, faults, resumes>>

\* A handler may catch up from an earlier stage. Those of Guarded ask owns()
\* first, and throw the retryable JOB_LEASE_LOST.
StartWorks(w) ==
  /\ At(w, "claimed")
  /\ LET s == Plan(ProjectOf(w)) IN
       /\ s <= StageOf(w) /\ s # Last
       /\ IF s \in Guarded /\ ~Owns(w, run[w].job)
          THEN Throws(w, FALSE)
          ELSE run' = [run EXCEPT ![w] = [run[w] EXCEPT !.pc = "working", !.doc = s]]
  /\ UNCHANGED <<job, stage, failed, call, proc, listed, faults, resumes>>

\* Mutant: the handler advances what is saved, not what it has read.
SaveOntoStored(w) ==
  /\ At(w, "working")
  /\ stage' = [stage EXCEPT ![ProjectOf(w)] = @ + 1]
  /\ failed' = [failed EXCEPT ![ProjectOf(w)] = FALSE]
  /\ Goes(w, "saved")
  /\ UNCHANGED <<job, call, proc, listed, faults, resumes>>

\* The handler saves the whole document it read at the start, advanced by
\* one stage: what others saved in between is overwritten, FAILED included.
Save(w) ==
  /\ At(w, "working")
  /\ LET p == ProjectOf(w)
         s == run[w].doc + 1
     IN /\ stage' = [stage EXCEPT ![p] = s]
        /\ failed' = [failed EXCEPT ![p] = FALSE]
        /\ Goes(w, IF s <= StageOf(w) THEN "claimed" ELSE "saved")
  /\ UNCHANGED <<job, call, proc, listed, faults, resumes>>

WorkFails(w) ==
  /\ \E pc \in {"claimed", "working", "saved", "read"} : At(w, pc)
  /\ Fault("workError")
  /\ \E terminal \in BOOLEAN : Throws(w, terminal)
  /\ UNCHANGED <<job, stage, failed, call, proc, listed, resumes>>

\* store.get before the hand-off.
ReadProject(w) ==
  /\ At(w, "saved")
  /\ run' = [run EXCEPT ![w] = [run[w] EXCEPT !.pc = "read", !.doc = Plan(ProjectOf(w))]]
  /\ UNCHANGED <<job, stage, failed, call, proc, listed, faults, resumes>>

\* Mutant: the completion does not enqueue the next job.
CompleteOnly(w) ==
  /\ At(w, "read")
  /\ job' = [job EXCEPT ![run[w].job] = Settled(job[run[w].job], "COMPLETED")]
  /\ Goes(w, "completed")
  /\ UNCHANGED <<stage, failed, call, proc, listed, faults, resumes>>

\* completeAndHandoff: one transaction, by id, whoever has the row locked.
\* Another active row of the project with another key makes the INSERT fail,
\* and the look-up in the aborted transaction throws: all is rolled back.
Complete(w) ==
  /\ At(w, "read")
  /\ LET j == run[w].job
         p == ProjectOf(w)
         s == run[w].doc
         others == ActiveJobs(p) \ {j}
         done == [job EXCEPT ![j] = Settled(job[j], "COMPLETED")]
     IN \/ /\ s = Last \/ \E i \in others : job[i].stage = s
           /\ job' = done
           /\ Goes(w, "completed")
        \/ /\ s # Last /\ others = {} /\ Free # {}
           /\ job' = [done EXCEPT ![NewRow] = QueuedRow(p, s)]
           /\ Goes(w, "completed")
        \/ /\ s # Last /\ others # {} /\ \A i \in others : job[i].stage # s
           /\ Throws(w, FALSE)
           /\ UNCHANGED job
  /\ UNCHANGED <<stage, failed, call, proc, listed, faults, resumes>>

\* The event after the completion: written, or it throws into the same catch.
Finish(w) ==
  /\ At(w, "completed")
  /\ run' = [run EXCEPT ![w] = IdleRun]
  /\ UNCHANGED <<job, stage, failed, call, proc, listed, faults, resumes>>

EventFails(w) ==
  /\ At(w, "completed")
  /\ Fault("eventError")
  /\ Throws(w, FALSE)
  /\ UNCHANGED <<job, stage, failed, call, proc, listed, resumes>>

Exhausted(w) == run[w].terminal \/ run[w].attempts >= MaxAttempts

\* fail, by id, whoever has the row locked and whatever its status: the
\* dead letter, or the row queued again after a backoff.
FailDead(w) ==
  /\ At(w, "failed")
  /\ Exhausted(w)
  /\ job' = [job EXCEPT ![run[w].job] = Settled(job[run[w].job], "DEAD")]
  /\ Goes(w, "dead")
  /\ UNCHANGED <<stage, failed, call, proc, listed, faults, resumes>>

FailRetry(w) ==
  /\ At(w, "failed")
  /\ ~Exhausted(w)
  /\ ActiveJobs(ProjectOf(w)) \subseteq {run[w].job}
  /\ job' = [job EXCEPT ![run[w].job] = Requeued(job[run[w].job], FALSE)]
  /\ run' = [run EXCEPT ![w] = IdleRun]
  /\ UNCHANGED <<stage, failed, call, proc, listed, faults, resumes>>

\* The index rejects a second active row: the error leaves the catch of
\* executeClaimed, nobody handles the rejection and the process dies.
FailRejected(w) ==
  /\ At(w, "failed")
  /\ ~Exhausted(w)
  /\ ~(ActiveJobs(ProjectOf(w)) \subseteq {run[w].job})
  /\ Dies(w)
  /\ UNCHANGED <<job, stage, failed, call, faults, resumes>>

\* orchestrator.fail after a dead letter; its own errors are swallowed.
FailProject(w) ==
  /\ At(w, "dead")
  /\ LET p == ProjectOf(w) IN
       \/ /\ failed' = [failed EXCEPT ![p] = failed[p] \/ stage[p] # Last]
          /\ UNCHANGED faults
       \/ /\ Fault("failLost")
          /\ UNCHANGED failed
  /\ run' = [run EXCEPT ![w] = IdleRun]
  /\ UNCHANGED <<job, stage, call, proc, listed, resumes>>

-----------------------------------------------------------------------------
Execute(w) ==
  \/ StartSkips(w) \/ StartWorks(w) \/ Save(w) \/ ReadProject(w)
  \/ Complete(w) \/ Finish(w)
  \/ FailDead(w) \/ FailRetry(w) \/ FailRejected(w) \/ FailProject(w)

Next ==
  \/ \E p \in Projects : OwnerEnqueue(p) \/ OwnerResume(p) \/ ApiCrash(p)
  \/ \E w \in Workers : \/ Boot(w) \/ StartPolling(w) \/ Crash(w)
                        \/ \E p \in Projects : Reconcile(w, p)
                        \/ Stop(w) \/ Release(w) \/ Exit(w)
                        \/ Heartbeat(w) \/ RecoverExpiredLeases(w) \/ Claim(w)
                        \/ Execute(w) \/ WorkFails(w) \/ EventFails(w)
  \/ \E j \in Jobs : LeaseExpires(j) \/ BackoffElapses(j)

Spec == Init /\ [][Next]_vars

\* The API and the clock make progress, and every booted process runs its
\* event loop: it polls, executes and settles. Nothing makes an owner act, a
\* process boot again, or a fault happen.
Fairness ==
  /\ \A p \in Projects : WF_vars(OwnerEnqueue(p))
  /\ \A j \in Jobs : WF_vars(LeaseExpires(j) /\ UNCHANGED faults) /\ WF_vars(BackoffElapses(j))
  /\ \A w \in Workers : /\ WF_vars(\E p \in Projects : Reconcile(w, p))
                        /\ WF_vars(Boot(w) \/ StartPolling(w))
                        /\ WF_vars(RecoverExpiredLeases(w))
                        /\ WF_vars(Claim(w))
                        /\ WF_vars(Execute(w))
                        /\ WF_vars(Release(w) \/ Exit(w))

FairSpec == Spec /\ Fairness
-----------------------------------------------------------------------------
(* Properties *)

\* Every variable holds what the code may store in it.
TypeOK ==
  /\ job \in [Jobs -> Row]
  /\ stage \in [Projects -> 0..Last]
  /\ failed \in [Projects -> BOOLEAN]
  /\ call \in [Projects -> BOOLEAN]
  /\ proc \in [Workers -> {"off", "booting", "up", "stopping", "released", "down"}]
  /\ run \in [Workers -> Run]
  /\ listed \in [Workers -> [Projects -> 0..Last]]
  /\ faults \in Nat
  /\ resumes \in Nat

\* A project never has two active rows, whoever completes, fails, releases,
\* recovers or enqueues at whatever moment.
OneActivePerProject ==
  \A i, j \in Jobs : Active(i) /\ Active(j) /\ job[i].project = job[j].project => i = j

\* The worker a row names is executing it, on its last claim, or is dead: a
\* live worker never keeps a lock (and renews a lease) it does nothing for.
HolderExecutes ==
  \A j \in Jobs, w \in Workers :
    /\ job[j].lockedBy = w
    /\ proc[w] # "down"
    => /\ Running(w)
       /\ run[w].job = j
       /\ run[w].attempts = job[j].attempts
       /\ run[w].pc \in {"claimed", "working", "saved", "read", "failed"}

Executing(w) == run[w].pc \in {"claimed", "working", "saved", "read", "failed"}

\* With timely heartbeats and drained stops, no two workers ever execute the
\* jobs of one project at once.
ExclusiveExecution ==
  \A v, w \in Workers : Executing(v) /\ Executing(w) /\ ProjectOf(v) = ProjectOf(w) => v = w

\* ... and a job that is COMPLETED or DEAD is never touched again.
SettledIsFinal ==
  [][\A j \in Jobs : job[j].status \in {"COMPLETED", "DEAD"} => job'[j] = job[j]]_vars

\* ... and no project moves back, or out of FAILED, but by an owner command.
ProgressIsKept ==
  [][\A p \in Projects : \/ resumes' # resumes
                         \/ stage'[p] >= stage[p] /\ (failed[p] => failed'[p])]_vars

\* Who will enqueue or fail the project of a plan that has no active row.
Responsible(p) ==
  \/ call[p]
  \/ Working(p)

\* Work is never lost: a project that plans a job has an active row or
\* somebody still at work who will enqueue, or fail, it.
NoStrandedPlan ==
  \A p \in Projects : Plan(p) # Last => ActiveJobs(p) # {} \/ Responsible(p)

\* Every planned job is worked off: the project ends with its owner or FAILED.
WorkGetsDone == \A p \in Projects : Plan(p) # Last ~> Plan(p) = Last
=============================================================================
