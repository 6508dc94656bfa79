--------------------------- MODULE JobQueueProofs ---------------------------
(***************************************************************************)
(* What holds of JobQueue for every number of projects, rows and workers   *)
(* and every bound.  Under every fault the environment may inject: the     *)
(* types, at most one active row per project, and that the holder of a     *)
(* lock executes its job.  IInv is the inductive invariant the three       *)
(* follow from.  The rest is under hypotheses about the faults, each part  *)
(* with an invariant that is inductive relative to those before it: Held   *)
(* needs timely heartbeats, and gives that executions exclude each other   *)
(* and that settled rows stay; Kept also needs that nothing is enqueued    *)
(* between a dead letter and FAILED, and gives that progress is kept;      *)
(* Planned also needs that the API does not die, that no owner acts in     *)
(* between and that no second fault hits a dead letter, and gives that no  *)
(* plan is stranded.                                                       *)
(***************************************************************************)
EXTENDS JobQueue, TLAPS

\* An execution and its row: a worker that is not running has no execution,
\* an execution has a row that was inserted, of a project of the system.
ExecutionHasRow ==
  \A w \in Workers :
    /\ ~Running(w) => run[w] = IdleRun
    /\ run[w].pc = "idle" <=> run[w].job = None
    /\ run[w].pc = "working" => run[w].doc < Last
    /\ run[w].job # None => job[run[w].job].status # "ABSENT"

InsertedHasProject ==
  \A j \in Jobs : job[j].status # "ABSENT" => job[j].project \in Projects

\* A row is locked, with a lease, exactly while it is RUNNING.
LockedIffRunning ==
  \A j \in Jobs : /\ job[j].status = "RUNNING" <=> job[j].lockedBy # None
                  /\ job[j].status = "RUNNING" <=> job[j].lease # "none"

\* What TypeOK says of the variables other than the table and the executions.
RestOK ==
  /\ stage \in [Projects -> 0..Last]
  /\ failed \in [Projects -> BOOLEAN]
  /\ call \in [Projects -> BOOLEAN]
  /\ proc \in [Workers -> {"off", "booting", "up", "stopping", "released", "down"}]
  /\ listed \in [Workers -> [Projects -> 0..Last]]
  /\ faults \in Nat
  /\ resumes \in Nat

\* What a claim of the table holds alone: all of IInv that is about the rows.
TableOK == /\ job \in [Jobs -> Row]
           /\ InsertedHasProject
           /\ LockedIffRunning
           /\ OneActivePerProject

\* The inductive invariant.
IInv == /\ TypeOK
        /\ ExecutionHasRow
        /\ InsertedHasProject
        /\ LockedIffRunning
        /\ OneActivePerProject
        /\ HolderExecutes

-----------------------------------------------------------------------------
(* Lemmas about the operators of the table *)

\* The row an INSERT takes is one that was absent.
LEMMA NewRowIsAbsent ==
  ASSUME Free # {}
  PROVE  NewRow \in Jobs /\ job[NewRow].status = "ABSENT"
  BY DEF Free, NewRow

\* What the UPDATEs of the queue write are rows.
LEMMA RowsAreRows ==
  ASSUME NEW row \in Row, NEW p \in Projects, NEW s \in 0..Last,
         NEW status \in Statuses, NEW due \in BOOLEAN
  PROVE  /\ QueuedRow(p, s) \in Row
         /\ Settled(row, status) \in Row
         /\ Requeued(row, due) \in Row
         /\ AbsentRow \in Row
<1>1. AbsentRow \in Row
  BY QueueAssumption DEF QueueAssumption, Row, AbsentRow, Statuses, Leases
<1>2. QueuedRow(p, s) \in Row
  BY <1>1 DEF Row, QueuedRow, AbsentRow, Statuses, Leases
<1>3. Settled(row, status) \in Row
  BY DEF Row, Settled, Leases
<1>4. Requeued(row, due) \in Row
  BY DEF Row, Requeued, Statuses, Leases
<1>5. QED
  BY <1>1, <1>2, <1>3, <1>4

\* Enqueue inserts at most one row, and only for a project with none active.
LEMMA EnqueueInserts ==
  ASSUME TypeOK, InsertedHasProject, LockedIffRunning, OneActivePerProject,
         NEW p \in Projects, NEW s \in 0..Last, Enqueue(p, s)
  PROVE  /\ job' \in [Jobs -> Row]
         /\ InsertedHasProject'
         /\ LockedIffRunning'
         /\ OneActivePerProject'
         /\ \A j \in Jobs : job[j].status # "ABSENT" => job'[j] = job[j]
         /\ \A j \in Jobs : job'[j].lockedBy # None => job'[j] = job[j]
<1>1. CASE UNCHANGED job
  BY <1>1 DEF TypeOK, InsertedHasProject, LockedIffRunning, OneActivePerProject, Active
<1>2. CASE /\ ActiveJobs(p) = {}
           /\ Free # {}
           /\ job' = [job EXCEPT ![NewRow] = QueuedRow(p, s)]
  <2>1. NewRow \in Jobs /\ job[NewRow].status = "ABSENT"
    BY <1>2, NewRowIsAbsent
  <2>2. QueuedRow(p, s) \in Row
    BY RowsAreRows DEF TypeOK, Statuses
  <2>3. /\ QueuedRow(p, s).status = "QUEUED"
        /\ QueuedRow(p, s).project = p
        /\ QueuedRow(p, s).lockedBy = None
        /\ QueuedRow(p, s).lease = "none"
    BY DEF QueuedRow, AbsentRow
  <2>4. \A j \in Jobs : job'[j] = IF j = NewRow THEN QueuedRow(p, s) ELSE job[j]
    BY <1>2, <2>1 DEF TypeOK
  <2>5. job' \in [Jobs -> Row]
    BY <1>2, <2>2 DEF TypeOK
  <2>6. InsertedHasProject'
    BY <2>3, <2>4 DEF InsertedHasProject
  <2>7. LockedIffRunning'
    BY <2>3, <2>4 DEF LockedIffRunning
  <2>8. OneActivePerProject'
    BY <1>2, <2>3, <2>4 DEF OneActivePerProject, Active, ActiveJobs
  <2>9. QED
    BY <2>1, <2>3, <2>4, <2>5, <2>6, <2>7, <2>8
<1>3. QED
  BY <1>1, <1>2 DEF Enqueue

\* The fields that the UPDATEs write, and those they keep.
LEMMA SettledFields ==
  ASSUME NEW row \in Row, NEW status
  PROVE  LET r == Settled(row, status) IN
           /\ r.status = status /\ r.project = row.project
           /\ r.lockedBy = None /\ r.lease = "none"
  BY DEF Row, Settled

LEMMA RequeuedFields ==
  ASSUME NEW row \in Row, NEW due
  PROVE  LET r == Requeued(row, due) IN
           /\ r.status = "QUEUED" /\ r.project = row.project
           /\ r.lockedBy = None /\ r.lease = "none"
  BY DEF Row, Requeued

-----------------------------------------------------------------------------
(* Lemmas about steps: one row is written, one execution is written *)

\* A row that is written with its own project, and is made active only when
\* the project has no other active row, leaves the table in order.
LEMMA RowWritten ==
  ASSUME TypeOK, InsertedHasProject, LockedIffRunning, OneActivePerProject,
         NEW j \in Jobs, NEW r \in Row,
         job' = [job EXCEPT ![j] = r],
         job[j].status # "ABSENT",
         r.project = job[j].project,
         r.status = "RUNNING" <=> r.lockedBy # None,
         r.status = "RUNNING" <=> r.lease # "none",
         r.status \in {"QUEUED", "RUNNING"} =>
           \A i \in Jobs \ {j} : Active(i) => job[i].project # r.project
  PROVE  TableOK'
<1>1. job' \in [Jobs -> Row]
  BY DEF TypeOK
<1>2. \A i \in Jobs : job'[i] = IF i = j THEN r ELSE job[i]
  BY DEF TypeOK
<1>3. InsertedHasProject'
  BY <1>2 DEF InsertedHasProject
<1>4. LockedIffRunning'
  BY <1>2 DEF LockedIffRunning
<1>5. OneActivePerProject'
  BY <1>2 DEF OneActivePerProject, Active
<1>6. QED
  BY <1>1, <1>3, <1>4, <1>5 DEF TableOK

\* An active row stays the only one.
LEMMA OnlyActive ==
  ASSUME OneActivePerProject, NEW j \in Jobs, Active(j)
  PROVE  \A i \in Jobs \ {j} : Active(i) => job[i].project # job[j].project
  BY DEF OneActivePerProject

\* A worker that runs is given another execution (r is IdleRun or has a row).
LEMMA ExecutionWritten ==
  ASSUME TypeOK, ExecutionHasRow, NEW w \in Workers, NEW r \in Run,
         Running(w), run' = [run EXCEPT ![w] = r], proc' = proc,
         \A j \in Jobs : job[j].status # "ABSENT" => job'[j].status # "ABSENT",
         r.pc = "idle" <=> r.job = None,
         r.pc = "working" => r.doc < Last,
         r.job # None => job'[r.job].status # "ABSENT"
  PROVE  ExecutionHasRow' /\ run' \in [Workers -> Run]
<1>1. run' \in [Workers -> Run]
  BY DEF TypeOK
<1>2. \A v \in Workers : run'[v] = IF v = w THEN r ELSE run[v]
  BY DEF TypeOK
<1>3. ASSUME NEW v \in Workers
      PROVE  /\ ~Running(v)' => run'[v] = IdleRun
             /\ run'[v].pc = "idle" <=> run'[v].job = None
             /\ run'[v].pc = "working" => run'[v].doc < Last
             /\ run'[v].job # None => job'[run'[v].job].status # "ABSENT"
  <2>1. CASE v = w
    BY <1>2, <2>1 DEF Running
  <2>2. CASE v # w
    <3>1. run'[v] = run[v] /\ run[v].job \in Jobs \cup {None}
      BY <1>2, <2>2 DEF TypeOK, Run
    <3>2. QED
      BY <3>1 DEF ExecutionHasRow, Running
  <2>3. QED
    BY <2>1, <2>2
<1>4. QED
  BY <1>1, <1>3 DEF ExecutionHasRow

\* The executions stay, and no row that was inserted is absent again.
LEMMA ExecutionsKept ==
  ASSUME TypeOK, ExecutionHasRow, UNCHANGED <<run, proc>>,
         \A j \in Jobs : job[j].status # "ABSENT" => job'[j].status # "ABSENT"
  PROVE  ExecutionHasRow'
<1>1. \A v \in Workers : run[v].job \in Jobs \cup {None}
  BY DEF TypeOK, Run
<1>2. QED
  BY <1>1 DEF ExecutionHasRow, Running

\* Where the execution of the holder of a row may be.
Holding == {"claimed", "working", "saved", "read", "failed"}

\* Rows are only ever unlocked, and w still holds what it holds with r.
LEMMA HolderWritten ==
  ASSUME TypeOK, HolderExecutes, NEW w \in Workers, NEW r \in Run,
         Running(w), run' = [run EXCEPT ![w] = r], proc' = proc, None \notin Workers,
         \A j \in Jobs : job'[j].lockedBy \notin {None, w} =>
           job'[j].lockedBy = job[j].lockedBy /\ job'[j].attempts = job[j].attempts,
         \A j \in Jobs : job'[j].lockedBy = w =>
           r.job = j /\ r.attempts = job'[j].attempts /\ r.pc \in Holding
  PROVE  HolderExecutes'
<1>1. \A v \in Workers : run'[v] = IF v = w THEN r ELSE run[v]
  BY DEF TypeOK
<1>2. QED
  BY <1>1 DEF HolderExecutes, Running, Holding

LEMMA HoldersKept ==
  ASSUME HolderExecutes, UNCHANGED <<run, proc>>, None \notin Workers,
         \A j \in Jobs : job'[j].lockedBy # None =>
           job'[j].lockedBy = job[j].lockedBy /\ job'[j].attempts = job[j].attempts
  PROVE  HolderExecutes'
  BY DEF HolderExecutes, Running

\* The parts make the whole.
LEMMA Assembled ==
  ASSUME TableOK', RestOK', run' \in [Workers -> Run], ExecutionHasRow', HolderExecutes'
  PROVE  IInv'
  BY DEF TableOK, RestOK, IInv, TypeOK

\* A step of an execution that leaves the table alone.
LEMMA OnlyExecution ==
  ASSUME IInv, NEW w \in Workers, NEW r \in Run, Running(w), run[w].pc \in Pcs \ {"idle"},
         run' = [run EXCEPT ![w] = r], UNCHANGED <<job, proc>>, RestOK',
         r.pc # "idle", r.job = run[w].job, r.attempts = run[w].attempts,
         r.pc = "working" => r.doc < Last,
         r.pc \in Holding \/ \A j \in Jobs : job[j].lockedBy # w
  PROVE  IInv'
<1>1. TableOK'
  BY DEF IInv, TypeOK, TableOK, InsertedHasProject, LockedIffRunning, OneActivePerProject, Active
<1>2. run[w].job \in Jobs /\ job[run[w].job].status # "ABSENT"
  BY DEF IInv, TypeOK, ExecutionHasRow, Run
<1>3. r.job # None
  BY <1>2, QueueAssumption DEF QueueAssumption
<1>4. ExecutionHasRow' /\ run' \in [Workers -> Run]
  BY <1>2, <1>3, ExecutionWritten DEF IInv
<1>5. proc[w] # "down"
  BY DEF Running
<1>6. \A j \in Jobs : job[j].lockedBy = w =>
        r.job = j /\ r.attempts = job[j].attempts /\ r.pc \in Holding
  BY <1>5 DEF IInv, HolderExecutes
<1>7. HolderExecutes'
  BY <1>6, HolderWritten, QueueAssumption DEF IInv, QueueAssumption
<1>8. QED
  BY <1>1, <1>4, <1>7, Assembled

-----------------------------------------------------------------------------
(* The actions that leave the table alone *)

\* An execution that goes elsewhere keeps its row and its claim.
LEMMA GoesToRun ==
  ASSUME NEW e \in Run, NEW pc \in Pcs
  PROVE  LET r == [e EXCEPT !.pc = pc] IN
           /\ r \in Run /\ r.pc = pc
           /\ r.job = e.job /\ r.attempts = e.attempts /\ r.doc = e.doc
  BY DEF Run

LEMMA ThrowsRun ==
  ASSUME NEW e \in Run, NEW terminal \in BOOLEAN
  PROVE  LET r == [e EXCEPT !.pc = "failed", !.terminal = terminal] IN
           /\ r \in Run /\ r.pc = "failed"
           /\ r.job = e.job /\ r.attempts = e.attempts
  BY DEF Run, Pcs

\* The row of an execution: inserted, and of a project.
LEMMA RowOfExecution ==
  ASSUME IInv, NEW w \in Workers, run[w].pc # "idle"
  PROVE  /\ run[w] \in Run /\ run[w].job \in Jobs
         /\ job[run[w].job] \in Row /\ job[run[w].job].status # "ABSENT"
         /\ ProjectOf(w) = job[run[w].job].project /\ ProjectOf(w) \in Projects
         /\ StageOf(w) = job[run[w].job].stage /\ StageOf(w) \in 0..Last
<1>1. run[w] \in Run /\ run[w].job \in Jobs \cup {None} /\ run[w].job # None
  BY DEF IInv, TypeOK, Run, ExecutionHasRow
<1>2. job[run[w].job] \in Row /\ job[run[w].job].status # "ABSENT"
  BY <1>1 DEF IInv, TypeOK, ExecutionHasRow
<1>3. ProjectOf(w) \in Projects /\ StageOf(w) \in 0..Last
  BY <1>1, <1>2 DEF IInv, InsertedHasProject, ProjectOf, StageOf, Row
<1>4. QED
  BY <1>1, <1>2, <1>3 DEF ProjectOf, StageOf

LEMMA PlanIsStage ==
  ASSUME IInv, NEW p \in Projects
  PROVE  Plan(p) \in 0..Last
  BY QueueAssumption DEF QueueAssumption, IInv, TypeOK, Plan

LEMMA FaultCounts ==
  ASSUME faults \in Nat, NEW kind, Fault(kind)
  PROVE  faults' \in Nat
  BY DEF Fault

LEMMA StartSkipsStep ==
  ASSUME IInv, NEW w \in Workers, StartSkips(w)
  PROVE  IInv'
<1>1. Running(w) /\ run[w].pc \in Pcs \ {"idle"} /\ run[w] \in Run
  BY RowOfExecution DEF StartSkips, At, Pcs
<1>2. UNCHANGED <<job, proc>> /\ RestOK'
  BY DEF StartSkips, IInv, TypeOK, RestOK
<1>3. CASE Goes(w, "saved")
  <2> DEFINE r == [run[w] EXCEPT !.pc = "saved"]
  <2>1. /\ r \in Run /\ r.pc = "saved"
        /\ r.job = run[w].job /\ r.attempts = run[w].attempts
    BY <1>1, GoesToRun DEF Pcs
  <2>2. run' = [run EXCEPT ![w] = r]
    BY <1>3 DEF Goes
  <2> HIDE DEF r
  <2>3. QED
    BY <1>1, <1>2, <2>1, <2>2, OnlyExecution DEF Holding
<1>4. CASE Throws(w, TRUE)
  <2> DEFINE r == [run[w] EXCEPT !.pc = "failed", !.terminal = TRUE]
  <2>1. /\ r \in Run /\ r.pc = "failed"
        /\ r.job = run[w].job /\ r.attempts = run[w].attempts
    BY <1>1, ThrowsRun
  <2>2. run' = [run EXCEPT ![w] = r]
    BY <1>4 DEF Throws
  <2> HIDE DEF r
  <2>3. QED
    BY <1>1, <1>2, <2>1, <2>2, OnlyExecution DEF Holding
<1>5. QED
  BY <1>3, <1>4 DEF StartSkips

LEMMA StartWorksStep ==
  ASSUME IInv, NEW w \in Workers, StartWorks(w)
  PROVE  IInv'
<1>1. Running(w) /\ run[w].pc \in Pcs \ {"idle"} /\ run[w] \in Run
  BY RowOfExecution DEF StartWorks, At, Pcs
<1>2. UNCHANGED <<job, proc>> /\ RestOK'
  BY DEF StartWorks, IInv, TypeOK, RestOK
<1>3. PICK s \in 0..Last : s = Plan(ProjectOf(w)) /\ s # Last
  BY <1>1, RowOfExecution, PlanIsStage DEF StartWorks
<1>4. CASE Throws(w, FALSE)
  <2> DEFINE r == [run[w] EXCEPT !.pc = "failed", !.terminal = FALSE]
  <2>1. /\ r \in Run /\ r.pc = "failed"
        /\ r.job = run[w].job /\ r.attempts = run[w].attempts
    BY <1>1, ThrowsRun
  <2>2. run' = [run EXCEPT ![w] = r]
    BY <1>4 DEF Throws
  <2> HIDE DEF r
  <2>3. QED
    BY <1>1, <1>2, <2>1, <2>2, OnlyExecution DEF Holding
<1>5. CASE run' = [run EXCEPT ![w] = [run[w] EXCEPT !.pc = "working", !.doc = s]]
  <2> DEFINE r == [run[w] EXCEPT !.pc = "working", !.doc = s]
  <2>1. /\ r \in Run /\ r.pc = "working" /\ r.doc = s
        /\ r.job = run[w].job /\ r.attempts = run[w].attempts
    BY <1>1, <1>3 DEF Run, Pcs
  <2>2. r.doc < Last
    BY <1>3, <2>1, QueueAssumption DEF QueueAssumption
  <2>3. run' = [run EXCEPT ![w] = r]
    BY <1>5
  <2> HIDE DEF r
  <2>4. QED
    BY <1>1, <1>2, <2>1, <2>2, <2>3, OnlyExecution DEF Holding
<1>6. QED
  BY <1>3, <1>4, <1>5 DEF StartWorks

LEMMA SaveStep ==
  ASSUME IInv, NEW w \in Workers, Save(w)
  PROVE  IInv'
<1>1. Running(w) /\ run[w].pc \in Pcs \ {"idle"} /\ run[w] \in Run
  BY RowOfExecution DEF Save, At, Pcs
<1>2. run[w].doc + 1 \in 0..Last
  BY <1>1, QueueAssumption DEF QueueAssumption, Save, At, IInv, ExecutionHasRow, Run
<1>3. UNCHANGED <<job, proc>> /\ RestOK'
  BY <1>2 DEF Save, IInv, TypeOK, RestOK
<1>4. PICK pc \in {"claimed", "saved"} : Goes(w, pc)
  BY DEF Save
<1> DEFINE r == [run[w] EXCEPT !.pc = pc]
<1>5. run' = [run EXCEPT ![w] = r]
  BY <1>4 DEF Goes
<1>6. /\ r \in Run /\ r.pc = pc
      /\ r.job = run[w].job /\ r.attempts = run[w].attempts
  BY <1>1, <1>4 DEF Run, Pcs
<1> HIDE DEF r
<1>7. QED
  BY <1>1, <1>3, <1>4, <1>5, <1>6, OnlyExecution DEF Holding

LEMMA WorkFailsStep ==
  ASSUME IInv, NEW w \in Workers, WorkFails(w)
  PROVE  IInv'
<1>1. Running(w) /\ run[w].pc \in Pcs \ {"idle"} /\ run[w] \in Run
  BY RowOfExecution DEF WorkFails, At, Pcs
<1>2. UNCHANGED <<job, proc>> /\ RestOK'
  BY FaultCounts DEF WorkFails, IInv, TypeOK, RestOK
<1>3. PICK terminal \in BOOLEAN : Throws(w, terminal)
  BY DEF WorkFails
<1> DEFINE r == [run[w] EXCEPT !.pc = "failed", !.terminal = terminal]
<1>4. /\ r \in Run /\ r.pc = "failed"
      /\ r.job = run[w].job /\ r.attempts = run[w].attempts
  BY <1>1, ThrowsRun
<1>5. run' = [run EXCEPT ![w] = r]
  BY <1>3 DEF Throws
<1> HIDE DEF r
<1>6. QED
  BY <1>1, <1>2, <1>4, <1>5, OnlyExecution DEF Holding

LEMMA ReadProjectStep ==
  ASSUME IInv, NEW w \in Workers, ReadProject(w)
  PROVE  IInv'
<1>1. Running(w) /\ run[w].pc \in Pcs \ {"idle"} /\ run[w] \in Run
  BY RowOfExecution DEF ReadProject, At, Pcs
<1>2. UNCHANGED <<job, proc>> /\ RestOK'
  BY DEF ReadProject, IInv, TypeOK, RestOK
<1>3. PICK s \in 0..Last : s = Plan(ProjectOf(w))
  BY <1>1, RowOfExecution, PlanIsStage DEF ReadProject, At
<1> DEFINE r == [run[w] EXCEPT !.pc = "read", !.doc = s]
<1>4. run' = [run EXCEPT ![w] = r]
  BY <1>3 DEF ReadProject
<1>5. /\ r \in Run /\ r.pc = "read"
      /\ r.job = run[w].job /\ r.attempts = run[w].attempts
  BY <1>1, <1>3 DEF Run, Pcs
<1> HIDE DEF r
<1>6. QED
  BY <1>1, <1>2, <1>4, <1>5, OnlyExecution DEF Holding

LEMMA EventFailsStep ==
  ASSUME IInv, NEW w \in Workers, EventFails(w)
  PROVE  IInv'
<1> DEFINE r == [run[w] EXCEPT !.pc = "failed", !.terminal = FALSE]
<1>1. Running(w) /\ run[w].pc \in Pcs \ {"idle"} /\ run[w] \in Run
  BY RowOfExecution DEF EventFails, At, Pcs
<1>2. UNCHANGED <<job, proc>> /\ RestOK'
  BY FaultCounts DEF EventFails, IInv, TypeOK, RestOK
<1>3. /\ r \in Run /\ r.pc = "failed"
      /\ r.job = run[w].job /\ r.attempts = run[w].attempts
  BY <1>1, ThrowsRun
<1>4. run' = [run EXCEPT ![w] = r]
  BY DEF EventFails, Throws
<1> HIDE DEF r
<1>5. QED
  BY <1>1, <1>2, <1>3, <1>4, OnlyExecution DEF Holding

\* A worker that runs holds no row unless its execution is at a place of Holding.
LEMMA HoldsNothing ==
  ASSUME IInv, NEW w \in Workers, Running(w), run[w].pc \notin Holding
  PROVE  \A j \in Jobs : job[j].lockedBy # w
  BY DEF IInv, HolderExecutes, Running, Holding

LEMMA IdleRunFields ==
  IdleRun \in Run /\ IdleRun.pc = "idle" /\ IdleRun.job = None
  BY QueueAssumption DEF QueueAssumption, Run, IdleRun, Pcs

\* The execution is over, and the table was settled before.
LEMMA Ends ==
  ASSUME IInv, NEW w \in Workers, Running(w), run[w].pc \notin Holding,
         run' = [run EXCEPT ![w] = IdleRun], UNCHANGED <<job, proc>>, RestOK'
  PROVE  IInv'
<1>1. TableOK'
  BY DEF IInv, TypeOK, TableOK, InsertedHasProject, LockedIffRunning, OneActivePerProject, Active
<1>2. ExecutionHasRow' /\ run' \in [Workers -> Run]
  BY IdleRunFields, ExecutionWritten DEF IInv
<1>3. HolderExecutes'
  BY IdleRunFields, HoldsNothing, HolderWritten, QueueAssumption DEF IInv, QueueAssumption
<1>4. QED
  BY <1>1, <1>2, <1>3, Assembled

LEMMA FinishStep ==
  ASSUME IInv, NEW w \in Workers, Finish(w)
  PROVE  IInv'
<1>1. Running(w) /\ run[w].pc \notin Holding /\ RestOK'
  BY DEF Finish, At, Holding, IInv, TypeOK, RestOK
<1>2. QED
  BY <1>1, Ends DEF Finish

LEMMA FailProjectStep ==
  ASSUME IInv, NEW w \in Workers, FailProject(w)
  PROVE  IInv'
<1>1. Running(w) /\ run[w].pc \notin Holding
  BY DEF FailProject, At, Holding
<1>2. ProjectOf(w) \in Projects
  BY <1>1, RowOfExecution DEF FailProject, At
<1>3. RestOK'
  BY <1>2, FaultCounts DEF FailProject, IInv, TypeOK, RestOK
<1>4. QED
  BY <1>1, <1>3, Ends DEF FailProject

\* A process that dies leaves no lock that a live worker should have.
LEMMA DiesStep ==
  ASSUME IInv, NEW w \in Workers, Dies(w), UNCHANGED job,
         UNCHANGED <<stage, failed, call>>, faults' \in Nat, resumes' \in Nat
  PROVE  IInv'
<1>1. TableOK'
  BY DEF IInv, TypeOK, TableOK, InsertedHasProject, LockedIffRunning, OneActivePerProject, Active
<1>2. RestOK'
  BY QueueAssumption DEF QueueAssumption, Dies, IInv, TypeOK, RestOK
<1>3. /\ \A v \in Workers : run'[v] = IF v = w THEN IdleRun ELSE run[v]
      /\ \A v \in Workers : proc'[v] = IF v = w THEN "down" ELSE proc[v]
      /\ run' \in [Workers -> Run]
  BY IdleRunFields DEF Dies, IInv, TypeOK
<1>4. ASSUME NEW v \in Workers
      PROVE  /\ ~Running(v)' => run'[v] = IdleRun
             /\ run'[v].pc = "idle" <=> run'[v].job = None
             /\ run'[v].pc = "working" => run'[v].doc < Last
             /\ run'[v].job # None => job'[run'[v].job].status # "ABSENT"
  <2>1. CASE v = w
    BY <1>3, <2>1, IdleRunFields
  <2>2. CASE v # w
    BY <1>3, <2>2 DEF IInv, ExecutionHasRow, Running
  <2>3. QED
    BY <2>1, <2>2
<1>5. ExecutionHasRow'
  BY <1>4 DEF ExecutionHasRow
<1>6. HolderExecutes'
  BY <1>3 DEF IInv, HolderExecutes, Running
<1>7. QED
  BY <1>1, <1>2, <1>3, <1>5, <1>6, Assembled

LEMMA CrashStep ==
  ASSUME IInv, NEW w \in Workers, Crash(w)
  PROVE  IInv'
<1>1. faults' \in Nat /\ resumes' \in Nat
  BY FaultCounts DEF Crash, IInv, TypeOK
<1>2. QED
  BY <1>1, DiesStep DEF Crash

LEMMA ExitStep ==
  ASSUME IInv, NEW w \in Workers, Exit(w)
  PROVE  IInv'
<1>1. faults' \in Nat /\ resumes' \in Nat
  BY DEF Exit, IInv, TypeOK
<1>2. QED
  BY <1>1, DiesStep DEF Exit

LEMMA FailRejectedStep ==
  ASSUME IInv, NEW w \in Workers, FailRejected(w)
  PROVE  IInv'
<1>1. faults' \in Nat /\ resumes' \in Nat
  BY DEF FailRejected, IInv, TypeOK
<1>2. QED
  BY <1>1, DiesStep DEF FailRejected

\* Steps that change neither the table nor an execution, and at most bring up
\* a process or stop it.
LEMMA ProcessMoves ==
  ASSUME IInv, NEW w \in Workers, NEW to, UNCHANGED <<job, run>>, RestOK',
         proc' = [proc EXCEPT ![w] = to],
         Running(w) => to \in {"up", "stopping", "released"},
         ~Running(w) => proc[w] # "down"
  PROVE  IInv'
<1>1. TableOK'
  BY DEF IInv, TypeOK, TableOK, InsertedHasProject, LockedIffRunning, OneActivePerProject, Active
<1>2. \A v \in Workers : proc'[v] = IF v = w THEN to ELSE proc[v]
  BY DEF IInv, TypeOK
<1>3. ExecutionHasRow'
  BY <1>2 DEF IInv, ExecutionHasRow, Running
<1>4. HolderExecutes'
  BY <1>2 DEF IInv, HolderExecutes, Running
<1>5. QED
  BY <1>1, <1>3, <1>4, Assembled DEF IInv, TypeOK

LEMMA BootStep ==
  ASSUME IInv, NEW w \in Workers, Boot(w)
  PROVE  IInv'
<1>1. [p \in Projects |-> Plan(p)] \in [Projects -> 0..Last]
  BY PlanIsStage
<1>2. RestOK'
  BY <1>1 DEF Boot, IInv, TypeOK, RestOK
<1>3. QED
  BY <1>2, ProcessMoves DEF Boot, Running

LEMMA StartPollingStep ==
  ASSUME IInv, NEW w \in Workers, StartPolling(w)
  PROVE  IInv'
<1>1. RestOK'
  BY DEF StartPolling, IInv, TypeOK, RestOK
<1>2. QED
  BY <1>1, ProcessMoves DEF StartPolling, Running

LEMMA StopStep ==
  ASSUME IInv, NEW w \in Workers, Stop(w)
  PROVE  IInv'
<1>1. RestOK'
  BY FaultCounts DEF Stop, IInv, TypeOK, RestOK
<1>2. QED
  BY <1>1, ProcessMoves DEF Stop, Running

\* An owner's save, and the loss of the call that made it.
LEMMA OwnerStep ==
  ASSUME IInv, UNCHANGED <<job, run, proc>>, RestOK'
  PROVE  IInv'
<1>1. TableOK'
  BY DEF IInv, TypeOK, TableOK, InsertedHasProject, LockedIffRunning, OneActivePerProject, Active
<1>2. ExecutionHasRow' /\ HolderExecutes'
  BY DEF IInv, ExecutionHasRow, HolderExecutes, Running
<1>3. QED
  BY <1>1, <1>2, Assembled DEF IInv, TypeOK

LEMMA OwnerResumeStep ==
  ASSUME IInv, NEW p \in Projects, OwnerResume(p)
  PROVE  IInv'
<1>1. PICK s \in 0..(Last - 1) : stage' = [stage EXCEPT ![p] = s]
  BY DEF OwnerResume
<1>2. s \in 0..Last
  BY <1>1, QueueAssumption DEF QueueAssumption
<1>3. RestOK'
  BY <1>1, <1>2 DEF OwnerResume, IInv, TypeOK, RestOK
<1>4. QED
  BY <1>3, OwnerStep DEF OwnerResume

LEMMA ApiCrashStep ==
  ASSUME IInv, NEW p \in Projects, ApiCrash(p)
  PROVE  IInv'
<1>1. RestOK'
  BY FaultCounts DEF ApiCrash, IInv, TypeOK, RestOK
<1>2. QED
  BY <1>1, OwnerStep DEF ApiCrash

-----------------------------------------------------------------------------
(* The actions that write the table *)

\* A row that is unlocked, whoever has it locked.
LEMMA Unlocks ==
  ASSUME IInv, NEW j \in Jobs, NEW r \in Row, job' = [job EXCEPT ![j] = r],
         job[j].status # "ABSENT", r.project = job[j].project,
         r.status \notin {"ABSENT", "RUNNING"}, r.lockedBy = None, r.lease = "none",
         r.status = "QUEUED" =>
           \A i \in Jobs \ {j} : Active(i) => job[i].project # r.project
  PROVE  /\ TableOK'
         /\ \A i \in Jobs : job[i].status # "ABSENT" => job'[i].status # "ABSENT"
         /\ \A i \in Jobs : job'[i].lockedBy # None => i # j /\ job'[i] = job[i]
<1>1. TableOK'
  BY RowWritten DEF IInv
<1>2. \A i \in Jobs : job'[i] = IF i = j THEN r ELSE job[i]
  BY DEF IInv, TypeOK
<1>3. QED
  BY <1>1, <1>2

LEMMA OwnerEnqueueStep ==
  ASSUME IInv, NEW p \in Projects, OwnerEnqueue(p)
  PROVE  IInv'
<1>1. RestOK'
  BY DEF OwnerEnqueue, IInv, TypeOK, RestOK
<1>2. /\ TableOK'
      /\ \A j \in Jobs : job[j].status # "ABSENT" => job'[j] = job[j]
      /\ \A j \in Jobs : job'[j].lockedBy # None => job'[j] = job[j]
  BY PlanIsStage, EnqueueInserts DEF OwnerEnqueue, IInv, TableOK
<1>3. ExecutionHasRow' /\ HolderExecutes'
  BY <1>2, ExecutionsKept, HoldersKept, QueueAssumption
     DEF QueueAssumption, OwnerEnqueue, IInv
<1>4. QED
  BY <1>1, <1>2, <1>3, Assembled DEF OwnerEnqueue, IInv, TypeOK

LEMMA ReconcileStep ==
  ASSUME IInv, NEW w \in Workers, NEW p \in Projects, Reconcile(w, p)
  PROVE  IInv'
<1>1. listed[w][p] \in 0..Last
  BY DEF IInv, TypeOK
<1>2. RestOK'
  BY QueueAssumption DEF QueueAssumption, Reconcile, IInv, TypeOK, RestOK
<1>3. /\ TableOK'
      /\ \A j \in Jobs : job[j].status # "ABSENT" => job'[j] = job[j]
      /\ \A j \in Jobs : job'[j].lockedBy # None => job'[j] = job[j]
  BY <1>1, EnqueueInserts DEF Reconcile, IInv, TableOK
<1>4. ExecutionHasRow' /\ HolderExecutes'
  BY <1>3, ExecutionsKept, HoldersKept, QueueAssumption
     DEF QueueAssumption, Reconcile, IInv
<1>5. QED
  BY <1>2, <1>3, <1>4, Assembled DEF Reconcile, IInv, TypeOK

LEMMA ReleaseStep ==
  ASSUME IInv, NEW w \in Workers, Release(w)
  PROVE  IInv'
<1> DEFINE j == run[w].job
<1>1. RestOK'
  BY FaultCounts DEF Release, IInv, TypeOK, RestOK
<1>2. CASE UNCHANGED job
  BY <1>1, <1>2, ProcessMoves DEF Release, Running
<1>3. CASE /\ j # None
           /\ job[j].status = "RUNNING"
           /\ job' = [job EXCEPT ![j] = Requeued(job[j], TRUE)]
  <2>1. run[w].pc # "idle"
    BY <1>3 DEF IInv, ExecutionHasRow
  <2>2. j \in Jobs /\ job[j] \in Row
    BY <2>1, RowOfExecution
  <2> HIDE DEF j
  <2>3. PICK r \in Row : r = Requeued(job[j], TRUE)
    BY <2>2 DEF Row, Requeued, Statuses, Leases
  <2>4. /\ r.status = "QUEUED" /\ r.project = job[j].project
        /\ r.lockedBy = None /\ r.lease = "none"
    BY <2>2, <2>3, RequeuedFields
  <2>5. \A i \in Jobs \ {j} : Active(i) => job[i].project # job[j].project
    BY <1>3, <2>2, OnlyActive DEF IInv, Active
  <2>6. /\ TableOK'
        /\ \A i \in Jobs : job[i].status # "ABSENT" => job'[i].status # "ABSENT"
        /\ \A i \in Jobs : job'[i].lockedBy # None => i # j /\ job'[i] = job[i]
    BY <1>3, <2>2, <2>3, <2>4, <2>5, Unlocks
  <2>7. /\ \A v \in Workers : proc'[v] = IF v = w THEN "released" ELSE proc[v]
        /\ run' = run
        /\ proc[w] = "stopping"
    BY DEF Release, IInv, TypeOK
  <2>8. ExecutionHasRow'
    <3>1. \A v \in Workers : run[v].job \in Jobs \cup {None}
      BY DEF IInv, TypeOK, Run
    <3>2. QED
      BY <2>6, <2>7, <3>1 DEF IInv, ExecutionHasRow, Running
  <2>9. HolderExecutes'
    BY <2>6, <2>7, QueueAssumption DEF QueueAssumption, IInv, HolderExecutes, Running
  <2>10. QED
    BY <1>1, <2>6, <2>7, <2>8, <2>9, Assembled DEF IInv, TypeOK
<1>4. QED
  BY <1>2, <1>3 DEF Release

\* One field of a row is written.
LEMMA LeaseWritten ==
  ASSUME NEW row \in Row, NEW lease \in Leases
  PROVE  LET r == [row EXCEPT !.lease = lease] IN
           /\ r \in Row /\ r.status = row.status /\ r.project = row.project
           /\ r.lockedBy = row.lockedBy /\ r.lease = lease /\ r.attempts = row.attempts
  BY DEF Row

LEMMA DueWritten ==
  ASSUME NEW row \in Row, NEW due \in BOOLEAN
  PROVE  LET r == [row EXCEPT !.due = due] IN
           /\ r \in Row /\ r.status = row.status /\ r.project = row.project
           /\ r.lockedBy = row.lockedBy /\ r.lease = row.lease /\ r.attempts = row.attempts
  BY DEF Row

\* A row that keeps its status, its lock, its project and its attempts.
LEMMA Touched ==
  ASSUME IInv, NEW j \in Jobs, NEW r \in Row, job' = [job EXCEPT ![j] = r],
         Active(j), UNCHANGED <<run, proc>>, RestOK',
         r.status = job[j].status, r.project = job[j].project,
         r.lockedBy = job[j].lockedBy, r.attempts = job[j].attempts,
         r.lease = "none" <=> job[j].lease = "none"
  PROVE  IInv'
<1>1. job[j].status # "ABSENT"
  BY DEF Active
<1>2. /\ job[j].status = "RUNNING" <=> job[j].lockedBy # None
      /\ job[j].status = "RUNNING" <=> job[j].lease # "none"
  BY DEF IInv, LockedIffRunning
<1>3. \A i \in Jobs \ {j} : Active(i) => job[i].project # r.project
  BY OnlyActive DEF IInv
<1>4. TableOK'
  BY <1>1, <1>2, <1>3, RowWritten DEF IInv
<1>5. \A i \in Jobs : job'[i] = IF i = j THEN r ELSE job[i]
  BY DEF IInv, TypeOK
<1>6. ExecutionHasRow' /\ HolderExecutes'
  BY <1>1, <1>5, ExecutionsKept, HoldersKept, QueueAssumption DEF QueueAssumption, IInv
<1>7. QED
  BY <1>4, <1>6, Assembled DEF IInv, TypeOK

LEMMA LeaseExpiresStep ==
  ASSUME IInv, NEW j \in Jobs, LeaseExpires(j)
  PROVE  IInv'
<1>1. RestOK'
  BY FaultCounts DEF LeaseExpires, IInv, TypeOK, RestOK
<1>2. job[j] \in Row
  BY DEF IInv, TypeOK
<1>3. PICK r \in Row : r = [job[j] EXCEPT !.lease = "expired"]
  BY <1>2, LeaseWritten DEF Leases
<1>4. /\ r.status = job[j].status /\ r.project = job[j].project
      /\ r.lockedBy = job[j].lockedBy /\ r.attempts = job[j].attempts
      /\ r.lease = "expired"
  BY <1>2, <1>3, LeaseWritten DEF Leases
<1>5. QED
  BY <1>1, <1>3, <1>4, Touched DEF LeaseExpires, Active

LEMMA BackoffElapsesStep ==
  ASSUME IInv, NEW j \in Jobs, BackoffElapses(j)
  PROVE  IInv'
<1>1. RestOK'
  BY DEF BackoffElapses, IInv, TypeOK, RestOK
<1>2. job[j] \in Row
  BY DEF IInv, TypeOK
<1>3. PICK r \in Row : r = [job[j] EXCEPT !.due = TRUE]
  BY <1>2, DueWritten
<1>4. /\ r.status = job[j].status /\ r.project = job[j].project
      /\ r.lockedBy = job[j].lockedBy /\ r.attempts = job[j].attempts
      /\ r.lease = job[j].lease
  BY <1>2, <1>3, DueWritten
<1>5. QED
  BY <1>1, <1>3, <1>4, Touched DEF BackoffElapses, Active

LEMMA HeartbeatStep ==
  ASSUME IInv, NEW w \in Workers, Heartbeat(w)
  PROVE  IInv'
<1>1. RestOK'
  BY DEF Heartbeat, IInv, TypeOK, RestOK
<1>2. run[w].pc # "idle"
  BY DEF Heartbeat, IInv, ExecutionHasRow
<1>3. PICK j \in Jobs : j = run[w].job /\ job[j] \in Row
  BY <1>2, RowOfExecution
<1>4. PICK r \in Row : r = [job[j] EXCEPT !.lease = "live"]
  BY <1>3, LeaseWritten DEF Leases
<1>5. /\ r.status = job[j].status /\ r.project = job[j].project
      /\ r.lockedBy = job[j].lockedBy /\ r.attempts = job[j].attempts
      /\ r.lease = "live"
  BY <1>3, <1>4, LeaseWritten DEF Leases
<1>6. QED
  BY <1>1, <1>3, <1>4, <1>5, Touched DEF Heartbeat, Active

LEMMA RecoverExpiredLeasesStep ==
  ASSUME IInv, NEW w \in Workers, RecoverExpiredLeases(w)
  PROVE  IInv'
<1>1. RestOK'
  BY DEF RecoverExpiredLeases, IInv, TypeOK, RestOK
<1>2. \A j \in Jobs : job[j] \in Row
  BY DEF IInv, TypeOK
<1>3. \A j \in Jobs : job'[j] = IF j \in Recoverable(w) THEN Requeued(job[j], TRUE) ELSE job[j]
  BY DEF RecoverExpiredLeases
<1>4. ASSUME NEW j \in Jobs
      PROVE  /\ job'[j] \in Row
             /\ job'[j].project = job[j].project
             /\ j \in Recoverable(w) => /\ job[j].status = "RUNNING"
                                        /\ job'[j].status = "QUEUED"
                                        /\ job'[j].lockedBy = None
                                        /\ job'[j].lease = "none"
             /\ j \notin Recoverable(w) => job'[j] = job[j]
  <2>1. CASE j \in Recoverable(w)
    <3>1. job[j].status = "RUNNING"
      BY <2>1 DEF Recoverable
    <3>2. job'[j] = Requeued(job[j], TRUE) /\ job[j] \in Row
      BY <1>2, <1>3, <2>1
    <3>3. Requeued(job[j], TRUE) \in Row
      BY <3>2 DEF Row, Requeued, Statuses, Leases
    <3>4. /\ Requeued(job[j], TRUE).status = "QUEUED"
          /\ Requeued(job[j], TRUE).project = job[j].project
          /\ Requeued(job[j], TRUE).lockedBy = None
          /\ Requeued(job[j], TRUE).lease = "none"
      BY <3>2, RequeuedFields
    <3>5. QED
      BY <2>1, <3>1, <3>2, <3>3, <3>4
  <2>2. CASE j \notin Recoverable(w)
    BY <1>2, <1>3, <2>2
  <2>3. QED
    BY <2>1, <2>2
<1>5. job' \in [Jobs -> Row]
  BY <1>4 DEF RecoverExpiredLeases
<1>6. InsertedHasProject' /\ LockedIffRunning' /\ OneActivePerProject'
  BY <1>4 DEF IInv, InsertedHasProject, LockedIffRunning, OneActivePerProject, Active
<1>7. /\ \A j \in Jobs : job[j].status # "ABSENT" => job'[j].status # "ABSENT"
      /\ \A j \in Jobs : job'[j].lockedBy # None => job'[j] = job[j]
  BY <1>4
<1>8. ExecutionHasRow' /\ HolderExecutes'
  BY <1>7, ExecutionsKept, HoldersKept, QueueAssumption
     DEF QueueAssumption, IInv, RecoverExpiredLeases
<1>9. QED
  BY <1>1, <1>5, <1>6, <1>8, Assembled DEF TableOK, IInv, TypeOK, RecoverExpiredLeases

\* The row of a settled execution is unlocked, and w goes on with r.
LEMMA UnlocksItsOwn ==
  ASSUME IInv, NEW w \in Workers, NEW e \in Run, Running(w), run[w].pc # "idle",
         NEW j \in Jobs, j = run[w].job, TableOK', RestOK', proc' = proc,
         run' = [run EXCEPT ![w] = e],
         e.job \in {None, j}, e.job = None <=> e.pc = "idle", e.pc # "working",
         \A i \in Jobs : job[i].status # "ABSENT" => job'[i].status # "ABSENT",
         \A i \in Jobs : job'[i].lockedBy # None => i # j /\ job'[i] = job[i]
  PROVE  IInv'
<1>1. job[j].status # "ABSENT" /\ j # None
  BY RowOfExecution, QueueAssumption DEF QueueAssumption
<1>2. e.job # None => job'[e.job].status # "ABSENT"
  BY <1>1
<1>3. ExecutionHasRow' /\ run' \in [Workers -> Run]
  BY <1>2, ExecutionWritten DEF IInv
<1>4. \A i \in Jobs : job[i].lockedBy = w => i = j
  BY DEF IInv, HolderExecutes, Running
<1>5. \A i \in Jobs : job'[i].lockedBy # w
  BY <1>4, QueueAssumption DEF QueueAssumption
<1>6. HolderExecutes'
  BY <1>5, HolderWritten, QueueAssumption DEF QueueAssumption, IInv
<1>7. QED
  BY <1>3, <1>6, Assembled

LEMMA FailDeadStep ==
  ASSUME IInv, NEW w \in Workers, FailDead(w)
  PROVE  IInv'
<1>1. RestOK'
  BY DEF FailDead, IInv, TypeOK, RestOK
<1>2. Running(w) /\ run[w].pc = "failed" /\ run[w] \in Run
  BY RowOfExecution DEF FailDead, At
<1>3. PICK j \in Jobs : j = run[w].job /\ job[j] \in Row /\ job[j].status # "ABSENT" /\ j # None
  BY <1>2, RowOfExecution, QueueAssumption DEF QueueAssumption
<1>4. PICK r \in Row : r = Settled(job[j], "DEAD")
  BY <1>3 DEF Row, Settled, Statuses, Leases
<1>5. /\ r.status = "DEAD" /\ r.project = job[j].project
      /\ r.lockedBy = None /\ r.lease = "none"
  BY <1>3, <1>4, SettledFields
<1>6. job' = [job EXCEPT ![j] = r]
  BY <1>3, <1>4 DEF FailDead
<1>7. /\ TableOK'
      /\ \A i \in Jobs : job[i].status # "ABSENT" => job'[i].status # "ABSENT"
      /\ \A i \in Jobs : job'[i].lockedBy # None => i # j /\ job'[i] = job[i]
  BY <1>3, <1>5, <1>6, Unlocks
<1> DEFINE e == [run[w] EXCEPT !.pc = "dead"]
<1>8. e \in Run /\ e.job = j /\ e.pc = "dead"
  BY <1>2, <1>3 DEF Run, Pcs
<1>9. run' = [run EXCEPT ![w] = e] /\ proc' = proc
  BY DEF FailDead, Goes
<1> HIDE DEF e
<1>10. QED
  BY <1>1, <1>2, <1>3, <1>7, <1>8, <1>9, UnlocksItsOwn DEF Pcs

LEMMA FailRetryStep ==
  ASSUME IInv, NEW w \in Workers, FailRetry(w)
  PROVE  IInv'
<1>1. RestOK'
  BY DEF FailRetry, IInv, TypeOK, RestOK
<1>2. Running(w) /\ run[w].pc = "failed" /\ run[w] \in Run
  BY RowOfExecution DEF FailRetry, At
<1>3. PICK j \in Jobs : /\ j = run[w].job /\ job[j] \in Row /\ job[j].status # "ABSENT"
                        /\ ProjectOf(w) = job[j].project /\ j # None
  BY <1>2, RowOfExecution, QueueAssumption DEF QueueAssumption
<1>4. PICK r \in Row : r = Requeued(job[j], FALSE)
  BY <1>3 DEF Row, Requeued, Statuses, Leases
<1>5. /\ r.status = "QUEUED" /\ r.project = job[j].project
      /\ r.lockedBy = None /\ r.lease = "none"
  BY <1>3, <1>4, RequeuedFields
<1>6. job' = [job EXCEPT ![j] = r] /\ run' = [run EXCEPT ![w] = IdleRun] /\ proc' = proc
  BY <1>3, <1>4 DEF FailRetry
<1>7. \A i \in Jobs \ {j} : Active(i) => job[i].project # r.project
  BY <1>3, <1>5 DEF FailRetry, ActiveJobs
<1>8. /\ TableOK'
      /\ \A i \in Jobs : job[i].status # "ABSENT" => job'[i].status # "ABSENT"
      /\ \A i \in Jobs : job'[i].lockedBy # None => i # j /\ job'[i] = job[i]
  BY <1>3, <1>5, <1>6, <1>7, Unlocks
<1>9. PICK e \in Run : e = IdleRun /\ e.job = None /\ e.pc = "idle"
  BY IdleRunFields
<1>10. Running(w) /\ run[w].pc # "idle" /\ run' = [run EXCEPT ![w] = e] /\ proc' = proc
  BY <1>2, <1>6, <1>9
<1>11. j = run[w].job
  BY <1>3
<1>12. QED
  BY <1>1, <1>8, <1>9, <1>10, <1>11, UnlocksItsOwn

LEMMA CompleteStep ==
  ASSUME IInv, NEW w \in Workers, Complete(w)
  PROVE  IInv'
<1>1. RestOK'
  BY DEF Complete, IInv, TypeOK, RestOK
<1>2. Running(w) /\ run[w].pc = "read" /\ run[w] \in Run /\ proc' = proc
  BY RowOfExecution DEF Complete, At
<1>3. PICK j \in Jobs : /\ j = run[w].job /\ job[j] \in Row /\ job[j].status # "ABSENT"
                        /\ ProjectOf(w) = job[j].project /\ j # None
  BY <1>2, RowOfExecution, QueueAssumption DEF QueueAssumption
<1>4. PICK p \in Projects : p = ProjectOf(w)
  BY <1>2, RowOfExecution
<1>5. PICK s \in 0..Last : s = run[w].doc
  BY <1>2 DEF Run
<1>6. PICK r \in Row : r = Settled(job[j], "COMPLETED")
  BY <1>3 DEF Row, Settled, Statuses, Leases
<1>7. /\ r.status = "COMPLETED" /\ r.project = job[j].project
      /\ r.lockedBy = None /\ r.lease = "none"
  BY <1>3, <1>6, SettledFields
<1> DEFINE e == [run[w] EXCEPT !.pc = "completed"]
<1>8. e \in Run /\ e.job = j /\ e.pc = "completed"
  BY <1>2, <1>3 DEF Run, Pcs
<1>9. CASE job' = [job EXCEPT ![j] = r] /\ Goes(w, "completed")
  <2>1. run' = [run EXCEPT ![w] = e]
    BY <1>9 DEF Goes
  <2> HIDE DEF e
  <2>2. /\ TableOK'
        /\ \A i \in Jobs : job[i].status # "ABSENT" => job'[i].status # "ABSENT"
        /\ \A i \in Jobs : job'[i].lockedBy # None => i # j /\ job'[i] = job[i]
    BY <1>3, <1>7, <1>9, Unlocks
  <2>3. QED
    BY <1>1, <1>2, <1>3, <1>8, <2>1, <2>2, UnlocksItsOwn DEF Pcs
<1>10. CASE /\ ActiveJobs(p) \ {j} = {}
            /\ Free # {}
            /\ job' = [[job EXCEPT ![j] = r] EXCEPT ![NewRow] = QueuedRow(p, s)]
            /\ Goes(w, "completed")
  <2>1. run' = [run EXCEPT ![w] = e]
    BY <1>10 DEF Goes
  <2> HIDE DEF e
  <2>2. PICK n \in Jobs : n = NewRow /\ job[n].status = "ABSENT" /\ n # j
    BY <1>3, <1>10, NewRowIsAbsent
  <2>3. PICK q \in Row : q = QueuedRow(p, s)
    BY <1>3, RowsAreRows DEF Statuses
  <2>4. /\ q.status = "QUEUED" /\ q.project = p
        /\ q.lockedBy = None /\ q.lease = "none"
    BY <2>3 DEF QueuedRow, AbsentRow
  <2>5. /\ job' \in [Jobs -> Row]
        /\ \A i \in Jobs : job'[i] = IF i = n THEN q ELSE IF i = j THEN r ELSE job[i]
    BY <1>10, <2>2, <2>3 DEF IInv, TypeOK
  <2>6. InsertedHasProject' /\ LockedIffRunning'
    BY <1>3, <1>7, <2>4, <2>5 DEF IInv, InsertedHasProject, LockedIffRunning
  <2>7. \A i \in Jobs \ {j} : Active(i) => job[i].project # p
    BY <1>10 DEF ActiveJobs
  <2>8. OneActivePerProject'
    BY <1>7, <2>4, <2>5, <2>7 DEF IInv, OneActivePerProject, Active
  <2>9. /\ \A i \in Jobs : job[i].status # "ABSENT" => job'[i].status # "ABSENT"
        /\ \A i \in Jobs : job'[i].lockedBy # None => i # j /\ job'[i] = job[i]
    BY <1>7, <2>4, <2>5
  <2>10. QED
    BY <1>1, <1>2, <1>3, <1>8, <2>1, <2>5, <2>6, <2>8, <2>9, UnlocksItsOwn DEF Pcs, TableOK
<1>11. CASE Throws(w, FALSE) /\ UNCHANGED job
  <2> DEFINE t == [run[w] EXCEPT !.pc = "failed", !.terminal = FALSE]
  <2>1. /\ t \in Run /\ t.pc = "failed"
        /\ t.job = run[w].job /\ t.attempts = run[w].attempts
    BY <1>2, ThrowsRun
  <2>2. run' = [run EXCEPT ![w] = t]
    BY <1>11 DEF Throws
  <2> HIDE DEF t
  <2>3. QED
    BY <1>1, <1>2, <1>11, <2>1, <2>2, OnlyExecution DEF Holding, Pcs
<1>12. \/ job' = [job EXCEPT ![j] = Settled(job[j], "COMPLETED")] /\ Goes(w, "completed")
       \/ /\ ActiveJobs(p) \ {j} = {} /\ Free # {}
          /\ job' = [[job EXCEPT ![j] = Settled(job[j], "COMPLETED")]
                       EXCEPT ![NewRow] = QueuedRow(p, s)]
          /\ Goes(w, "completed")
       \/ Throws(w, FALSE) /\ UNCHANGED job
  BY <1>3, <1>4, <1>5, Zenon DEF Complete
<1>13. QED
  BY <1>6, <1>9, <1>10, <1>11, <1>12

LEMMA ClaimStep ==
  ASSUME IInv, NEW w \in Workers, Claim(w)
  PROVE  IInv'
<1>1. RestOK'
  BY DEF Claim, IInv, TypeOK, RestOK
<1>2. Running(w) /\ run[w].pc = "idle" /\ proc' = proc
  BY DEF Claim, Running
<1>3. PICK j \in Jobs :
        /\ job[j].status = "QUEUED"
        /\ job' = [job EXCEPT ![j] = [job[j] EXCEPT !.status = "RUNNING", !.lockedBy = w,
                                        !.lease = "live", !.attempts = job[j].attempts + 1]]
        /\ run' = [run EXCEPT ![w] = [IdleRun EXCEPT !.pc = "claimed", !.job = j,
                                        !.attempts = job[j].attempts + 1]]
  BY DEF Claim
<1>4. job[j] \in Row
  BY DEF IInv, TypeOK
<1>5. PICK r \in Row :
        r = [job[j] EXCEPT !.status = "RUNNING", !.lockedBy = w,
                           !.lease = "live", !.attempts = job[j].attempts + 1]
  <2>1. PICK n \in Nat : n = job[j].attempts + 1
    BY <1>4 DEF Row
  <2>2. [job[j] EXCEPT !.status = "RUNNING", !.lockedBy = w,
                       !.lease = "live", !.attempts = n] \in Row
    BY <1>4 DEF Row, Statuses, Leases
  <2>3. QED
    BY <2>1, <2>2
<1>6. /\ r.status = "RUNNING" /\ r.project = job[j].project
      /\ r.lockedBy = w /\ r.lease = "live" /\ r.attempts = job[j].attempts + 1
  BY <1>4, <1>5 DEF Row
<1>7. PICK e \in Run : e = [IdleRun EXCEPT !.pc = "claimed", !.job = j,
                                           !.attempts = job[j].attempts + 1]
  <2>1. PICK n \in Nat : n = job[j].attempts + 1
    BY <1>4 DEF Row
  <2>2. [IdleRun EXCEPT !.pc = "claimed", !.job = j, !.attempts = n] \in Run
    BY IdleRunFields DEF Run, Pcs
  <2>3. QED
    BY <2>1, <2>2
<1>8. e.pc = "claimed" /\ e.job = j /\ e.attempts = r.attempts
  BY <1>6, <1>7, IdleRunFields DEF Run
<1>9. job' = [job EXCEPT ![j] = r] /\ run' = [run EXCEPT ![w] = e]
  BY <1>3, <1>5, <1>7
<1>10. \A i \in Jobs : job'[i] = IF i = j THEN r ELSE job[i]
  BY <1>9 DEF IInv, TypeOK
<1>11. TableOK'
  <2>1. \A i \in Jobs \ {j} : Active(i) => job[i].project # r.project
    BY <1>3, <1>6, OnlyActive DEF IInv, Active
  <2>2. w # None
    BY QueueAssumption DEF QueueAssumption
  <2>3. QED
    BY <1>3, <1>6, <1>9, <2>1, <2>2, RowWritten DEF IInv
<1>12. ExecutionHasRow' /\ run' \in [Workers -> Run]
  <2>1. j # None
    BY QueueAssumption DEF QueueAssumption
  <2>2. /\ \A i \in Jobs : job[i].status # "ABSENT" => job'[i].status # "ABSENT"
        /\ job'[e.job].status # "ABSENT"
    BY <1>6, <1>8, <1>10
  <2>3. QED
    BY <1>2, <1>8, <1>9, <2>1, <2>2, ExecutionWritten DEF IInv
<1>13. HolderExecutes'
  <2>1. \A i \in Jobs : job[i].lockedBy # w
    BY <1>2, HoldsNothing DEF Holding
  <2>2. \A i \in Jobs : job'[i].lockedBy = w =>
          e.job = i /\ e.attempts = job'[i].attempts /\ e.pc \in Holding
    BY <1>8, <1>10, <2>1 DEF Holding
  <2>3. \A i \in Jobs : job'[i].lockedBy \notin {None, w} =>
          job'[i].lockedBy = job[i].lockedBy /\ job'[i].attempts = job[i].attempts
    BY <1>6, <1>10
  <2>4. QED
    BY <1>2, <1>9, <2>2, <2>3, HolderWritten, QueueAssumption DEF QueueAssumption, IInv
<1>14. QED
  BY <1>1, <1>11, <1>12, <1>13, Assembled

-----------------------------------------------------------------------------
(* The theorems *)

\* The state every behaviour starts from.
LEMMA InitIInv == Init => IInv
<1> SUFFICES ASSUME Init PROVE IInv
  OBVIOUS
<1>1. /\ AbsentRow \in Row /\ AbsentRow.status = "ABSENT"
      /\ AbsentRow.lockedBy = None /\ AbsentRow.lease = "none"
  BY QueueAssumption DEF QueueAssumption, Row, AbsentRow, Statuses, Leases
<1>2. TypeOK
  BY <1>1, IdleRunFields, QueueAssumption DEF QueueAssumption, Init, TypeOK
<1>3. ExecutionHasRow
  BY IdleRunFields DEF Init, ExecutionHasRow
<1>4. InsertedHasProject /\ LockedIffRunning /\ OneActivePerProject
  BY <1>1 DEF Init, InsertedHasProject, LockedIffRunning, OneActivePerProject, Active
<1>5. HolderExecutes
  BY <1>1, QueueAssumption DEF QueueAssumption, Init, HolderExecutes
<1>6. QED
  BY <1>2, <1>3, <1>4, <1>5 DEF IInv

\* Every action keeps the invariant.
LEMMA NextIInv == IInv /\ [Next]_vars => IInv'
<1> SUFFICES ASSUME IInv, [Next]_vars PROVE IInv'
  OBVIOUS
<1>1. CASE UNCHANGED vars
  BY <1>1, OwnerStep DEF vars, IInv, TypeOK, RestOK
<1>2. ASSUME NEW p \in Projects, OwnerEnqueue(p) \/ OwnerResume(p) \/ ApiCrash(p)
      PROVE  IInv'
  BY <1>2, OwnerEnqueueStep, OwnerResumeStep, ApiCrashStep
<1>3. ASSUME NEW w \in Workers, Boot(w) \/ StartPolling(w) \/ Crash(w) \/ Stop(w)
                                  \/ Release(w) \/ Exit(w)
      PROVE  IInv'
  BY <1>3, BootStep, StartPollingStep, CrashStep, StopStep, ReleaseStep, ExitStep
<1>4. ASSUME NEW w \in Workers, NEW p \in Projects, Reconcile(w, p)
      PROVE  IInv'
  BY <1>4, ReconcileStep
<1>5. ASSUME NEW w \in Workers, Heartbeat(w) \/ RecoverExpiredLeases(w) \/ Claim(w)
      PROVE  IInv'
  BY <1>5, HeartbeatStep, RecoverExpiredLeasesStep, ClaimStep
<1>6. ASSUME NEW w \in Workers, Execute(w) \/ WorkFails(w) \/ EventFails(w)
      PROVE  IInv'
  BY <1>6, StartSkipsStep, StartWorksStep, SaveStep, ReadProjectStep, CompleteStep,
     FinishStep, FailDeadStep, FailRetryStep, FailRejectedStep, FailProjectStep,
     WorkFailsStep, EventFailsStep DEF Execute
<1>7. ASSUME NEW j \in Jobs, LeaseExpires(j) \/ BackoffElapses(j)
      PROVE  IInv'
  BY <1>7, LeaseExpiresStep, BackoffElapsesStep
<1>8. QED
  BY <1>1, <1>2, <1>3, <1>4, <1>5, <1>6, <1>7 DEF Next

\* The inductive invariant holds of every reachable state.
THEOREM Invariant == Spec => []IInv
<1>1. QED
  BY InitIInv, NextIInv, PTL DEF Spec

\* The tables, documents and executions hold what the code may store in them.
THEOREM TypeCorrect == Spec => []TypeOK
<1>1. IInv => TypeOK
  BY DEF IInv
<1>2. QED
  BY <1>1, Invariant, PTL

\* A project never has two active rows, whatever crashes, stalls or races:
\* enqueue, completeAndHandoff, fail, release and recoverExpiredLeases.
THEOREM AtMostOneActive == Spec => []OneActivePerProject
<1>1. IInv => OneActivePerProject
  BY DEF IInv
<1>2. QED
  BY <1>1, Invariant, PTL

\* The worker named by a lock executes that job on its last claim, or is dead:
\* what makes the expiry of a lease a safe reason to take the row away.
THEOREM LocksAreHeld == Spec => []HolderExecutes
<1>1. IInv => HolderExecutes
  BY DEF IInv
<1>2. QED
  BY <1>1, Invariant, PTL

-----------------------------------------------------------------------------
(* With timely heartbeats and drained stops *)

\* Live workers renew their leases in time, stop() waits for what they do, and
\* no event after a completion throws.
Timely == Faults \cap {"slowHeartbeat", "abortedDrain", "eventError"} = {}

\* Whoever executes a row has it locked.
OwnRow ==
  \A w \in Workers : Executing(w) => /\ job[run[w].job].status = "RUNNING"
                                     /\ job[run[w].job].lockedBy = w

\* Only the leases of the dead run out.
ExpiredIsDead == \A j \in Jobs : job[j].lease = "expired" => proc[job[j].lockedBy] = "down"

Held == OwnRow /\ ExpiredIsDead

SettledStay ==
  \A j \in Jobs : job[j].status \in {"COMPLETED", "DEAD"} => job'[j] = job[j]

\* The dead stay dead.
DeadStay == \A v \in Workers : proc[v] = "down" => proc'[v] = "down"

LEMMA ExecutedRow ==
  ASSUME IInv, OwnRow, NEW w \in Workers, Executing(w)
  PROVE  /\ run[w] \in Run /\ run[w].job \in Jobs /\ job[run[w].job] \in Row
         /\ job[run[w].job].status = "RUNNING" /\ job[run[w].job].lockedBy = w
         /\ ProjectOf(w) \in Projects /\ run[w].job \in ActiveJobs(ProjectOf(w))
         /\ Running(w) /\ proc[w] # "down"
<1>1. run[w].pc # "idle"
  BY DEF Executing
<1>2. /\ run[w] \in Run /\ run[w].job \in Jobs /\ job[run[w].job] \in Row
      /\ ProjectOf(w) \in Projects /\ ProjectOf(w) = job[run[w].job].project
  BY <1>1, RowOfExecution
<1>3. Running(w) /\ proc[w] # "down"
  BY <1>1, IdleRunFields DEF IInv, ExecutionHasRow, Running
<1> QED BY <1>2, <1>3 DEF OwnRow, ActiveJobs, Active

\* A lock is its holder's, and a lease that ran out is a lock.
LEMMA ExpiredHasHolder ==
  ASSUME IInv, NEW j \in Jobs, job[j].lease = "expired"
  PROVE  job[j].lockedBy \in Workers /\ job[j].status = "RUNNING"
  BY DEF IInv, LockedIffRunning, TypeOK, Row

\* Executions go on with their rows or end, and the table stays.
LEMMA HeldWhileRunsMove ==
  ASSUME IInv, Held, UNCHANGED job, DeadStay,
         \A v \in Workers : Executing(v)' => Executing(v) /\ run'[v].job = run[v].job
  PROVE  Held' /\ SettledStay
<1>1. OwnRow'
  BY DEF Held, OwnRow, Executing
<1>2. ExpiredIsDead'
  BY ExpiredHasHolder DEF Held, ExpiredIsDead, DeadStay
<1>3. SettledStay
  BY DEF SettledStay
<1> QED BY <1>1, <1>2, <1>3 DEF Held

\* The execution of w goes on with the same row.
LEMMA HeldWhenOneMoves ==
  ASSUME IInv, Held, NEW w \in Workers, NEW e, UNCHANGED <<job, proc>>,
         run' = [run EXCEPT ![w] = e],
         e.pc \in Holding => Executing(w) /\ e.job = run[w].job
  PROVE  Held' /\ SettledStay
<1>1. \A v \in Workers : run'[v] = IF v = w THEN e ELSE run[v]
  BY DEF IInv, TypeOK
<1>2. DeadStay
  BY DEF DeadStay
<1>3. ASSUME NEW v \in Workers, Executing(v)'
      PROVE  Executing(v) /\ run'[v].job = run[v].job
  BY <1>1, <1>3 DEF Executing, Holding
<1> QED BY <1>2, <1>3, HeldWhileRunsMove

\* A process dies, and its execution with it.
LEMMA HeldWhenDies ==
  ASSUME IInv, Held, NEW w \in Workers, Dies(w), UNCHANGED job
  PROVE  Held' /\ SettledStay
<1>1. /\ \A v \in Workers : run'[v] = IF v = w THEN IdleRun ELSE run[v]
      /\ \A v \in Workers : proc'[v] = IF v = w THEN "down" ELSE proc[v]
  BY DEF Dies, IInv, TypeOK
<1>2. DeadStay
  BY <1>1 DEF DeadStay
<1>3. ASSUME NEW v \in Workers, Executing(v)'
      PROVE  Executing(v) /\ run'[v].job = run[v].job
  BY <1>1, <1>3, IdleRunFields DEF Executing
<1> QED BY <1>2, <1>3, HeldWhileRunsMove

\* Rows are written, and those that are executed keep their lock.
LEMMA HeldWhenWritten ==
  ASSUME IInv, Held, UNCHANGED <<run, proc>>,
         \A v \in Workers : Executing(v) =>
           /\ job'[run[v].job].status = job[run[v].job].status
           /\ job'[run[v].job].lockedBy = job[run[v].job].lockedBy,
         \A j \in Jobs : job'[j].lease = "expired" =>
           \/ job'[j] = job[j]
           \/ proc[job'[j].lockedBy] = "down"
  PROVE  Held'
<1>1. OwnRow'
  BY DEF Held, OwnRow, Executing
<1>2. ExpiredIsDead'
  BY DEF Held, ExpiredIsDead
<1> QED BY <1>1, <1>2 DEF Held

LEMMA HeldByEnqueue ==
  ASSUME IInv, Held, NEW p \in Projects, NEW s \in 0..Last, Enqueue(p, s), UNCHANGED <<run, proc>>
  PROVE  Held' /\ SettledStay
<1>1. /\ TableOK'
      /\ \A j \in Jobs : job[j].status # "ABSENT" => job'[j] = job[j]
      /\ \A j \in Jobs : job'[j].lockedBy # None => job'[j] = job[j]
  BY EnqueueInserts DEF IInv, TableOK
<1>2. \A v \in Workers : Executing(v) => job'[run[v].job] = job[run[v].job]
  BY <1>1, ExecutedRow DEF Held
<1>3. \A j \in Jobs : job'[j].lease = "expired" => job'[j] = job[j]
  BY <1>1 DEF TableOK, LockedIffRunning
<1>4. Held'
  BY <1>2, <1>3, HeldWhenWritten
<1>5. SettledStay
  BY <1>1 DEF SettledStay
<1> QED BY <1>4, <1>5

LEMMA HeldByStop ==
  ASSUME IInv, Held, NEW w \in Workers, NEW to, proc[w] # "down", UNCHANGED <<job, run>>,
         proc' = [proc EXCEPT ![w] = to]
  PROVE  Held' /\ SettledStay
<1>1. DeadStay
  BY DEF DeadStay, IInv, TypeOK
<1>2. \A v \in Workers : Executing(v)' => Executing(v) /\ run'[v].job = run[v].job
  BY DEF Executing
<1> QED BY <1>1, <1>2, HeldWhileRunsMove

LEMMA ReleaseIsEmpty ==
  ASSUME Timely, NEW w \in Workers, Release(w)
  PROVE  run[w].job = None /\ UNCHANGED <<job, run>> /\ proc[w] = "stopping"
         /\ proc' = [proc EXCEPT ![w] = "released"]
  BY DEF Timely, Release, Fault

\* A row is written and what is not said of it is kept.
LEMMA OneRowWritten ==
  ASSUME IInv, NEW j \in Jobs, NEW r, job' = [job EXCEPT ![j] = r]
  PROVE  \A i \in Jobs : job'[i] = IF i = j THEN r ELSE job[i]
  BY DEF IInv, TypeOK

LEMMA HeldByLeaseExpires ==
  ASSUME Timely, IInv, Held, NEW j \in Jobs, LeaseExpires(j)
  PROVE  Held' /\ SettledStay
<1>1. job[j] \in Row /\ job[j].status = "RUNNING"
  BY DEF LeaseExpires, IInv, TypeOK
<1>2. proc[job[j].lockedBy] = "down"
  BY DEF Timely, LeaseExpires, Fault
<1>3. PICK r : r = [job[j] EXCEPT !.lease = "expired"]
  OBVIOUS
<1>4. r.status = job[j].status /\ r.lockedBy = job[j].lockedBy
  BY <1>1, <1>3, LeaseWritten DEF Leases
<1>5. \A i \in Jobs : job'[i] = IF i = j THEN r ELSE job[i]
  <2>1. job' = [job EXCEPT ![j] = r]
    BY <1>3 DEF LeaseExpires
  <2> QED BY <2>1, OneRowWritten
<1>6. UNCHANGED <<run, proc>>
  BY DEF LeaseExpires
<1>7. \A v \in Workers : Executing(v) =>
           /\ job'[run[v].job].status = job[run[v].job].status
           /\ job'[run[v].job].lockedBy = job[run[v].job].lockedBy
  BY <1>4, <1>5, ExecutedRow DEF Held
<1>8. \A i \in Jobs : job'[i].lease = "expired" =>
        job'[i] = job[i] \/ proc[job'[i].lockedBy] = "down"
  BY <1>2, <1>4, <1>5
<1>9. Held'
  BY <1>6, <1>7, <1>8, HeldWhenWritten
<1>10. SettledStay
  BY <1>1, <1>5 DEF SettledStay
<1> QED BY <1>9, <1>10

LEMMA HeldByBackoffElapses ==
  ASSUME IInv, Held, NEW j \in Jobs, BackoffElapses(j)
  PROVE  Held' /\ SettledStay
<1>1. job[j] \in Row /\ job[j].status = "QUEUED"
  BY DEF BackoffElapses, IInv, TypeOK
<1>2. PICK r : r = [job[j] EXCEPT !.due = TRUE]
  OBVIOUS
<1>3. r.status = job[j].status /\ r.lockedBy = job[j].lockedBy /\ r.lease = job[j].lease
  BY <1>1, <1>2, DueWritten
<1>4. \A i \in Jobs : job'[i] = IF i = j THEN r ELSE job[i]
  <2>1. job' = [job EXCEPT ![j] = r]
    BY <1>2 DEF BackoffElapses
  <2> QED BY <2>1, OneRowWritten
<1>5. UNCHANGED <<run, proc>>
  BY DEF BackoffElapses
<1>6. \A v \in Workers : Executing(v) =>
           /\ job'[run[v].job].status = job[run[v].job].status
           /\ job'[run[v].job].lockedBy = job[run[v].job].lockedBy
  BY <1>3, <1>4, ExecutedRow DEF Held
<1>7. \A i \in Jobs : job'[i].lease = "expired" => job'[i] = job[i]
  BY <1>1, <1>3, <1>4 DEF IInv, LockedIffRunning
<1>8. Held'
  BY <1>5, <1>6, <1>7, HeldWhenWritten
<1>9. SettledStay
  BY <1>1, <1>4 DEF SettledStay
<1> QED BY <1>8, <1>9

LEMMA HeldByHeartbeat ==
  ASSUME IInv, Held, NEW w \in Workers, Heartbeat(w)
  PROVE  Held' /\ SettledStay
<1>1. run[w].pc # "idle"
  BY DEF Heartbeat, IInv, ExecutionHasRow
<1>2. PICK j \in Jobs : j = run[w].job /\ job[j] \in Row
  BY <1>1, RowOfExecution
<1>3. job[j].status = "RUNNING"
  BY <1>2 DEF Heartbeat
<1>4. PICK r : r = [job[j] EXCEPT !.lease = "live"]
  OBVIOUS
<1>5. r.status = job[j].status /\ r.lockedBy = job[j].lockedBy /\ r.lease = "live"
  BY <1>2, <1>4, LeaseWritten DEF Leases
<1>6. \A i \in Jobs : job'[i] = IF i = j THEN r ELSE job[i]
  <2>1. job' = [job EXCEPT ![j] = r]
    BY <1>2, <1>4 DEF Heartbeat
  <2> QED BY <2>1, OneRowWritten
<1>7. UNCHANGED <<run, proc>>
  BY DEF Heartbeat
<1>8. \A v \in Workers : Executing(v) =>
           /\ job'[run[v].job].status = job[run[v].job].status
           /\ job'[run[v].job].lockedBy = job[run[v].job].lockedBy
  BY <1>5, <1>6, ExecutedRow DEF Held
<1>9. \A i \in Jobs : job'[i].lease = "expired" => job'[i] = job[i]
  BY <1>5, <1>6
<1>10. Held'
  BY <1>7, <1>8, <1>9, HeldWhenWritten
<1>11. SettledStay
  BY <1>3, <1>6 DEF SettledStay
<1> QED BY <1>10, <1>11

LEMMA HeldByRecoverExpiredLeases ==
  ASSUME IInv, Held, NEW w \in Workers, RecoverExpiredLeases(w)
  PROVE  Held' /\ SettledStay
<1>1. \A i \in Jobs : job'[i] = IF i \in Recoverable(w) THEN Requeued(job[i], TRUE) ELSE job[i]
  BY DEF RecoverExpiredLeases
<1>2. \A i \in Recoverable(w) : /\ i \in Jobs /\ job[i].status = "RUNNING"
                                /\ proc[job[i].lockedBy] = "down"
                                /\ Requeued(job[i], TRUE).lease = "none"
  <2>1. ASSUME NEW i \in Recoverable(w)
        PROVE  i \in Jobs /\ job[i].status = "RUNNING" /\ job[i].lease = "expired"
    BY DEF Recoverable
  <2>2. ASSUME NEW i \in Jobs
        PROVE  Requeued(job[i], TRUE).lease = "none"
    <3>1. job[i] \in Row
      BY DEF IInv, TypeOK
    <3> QED BY <3>1, RequeuedFields
  <2> QED BY <2>1, <2>2 DEF Held, ExpiredIsDead
<1>3. ASSUME NEW v \in Workers, Executing(v)
      PROVE  job'[run[v].job] = job[run[v].job]
  <2>1. run[v].job \in Jobs /\ job[run[v].job].lockedBy = v /\ proc[v] # "down"
    BY <1>3, ExecutedRow DEF Held
  <2> QED BY <1>1, <1>2, <2>1
<1>4. \A i \in Jobs : job'[i].lease = "expired" => job'[i] = job[i]
  BY <1>1, <1>2
<1>5. Held'
  BY <1>3, <1>4, HeldWhenWritten DEF RecoverExpiredLeases
<1>6. SettledStay
  BY <1>1, <1>2 DEF SettledStay
<1> QED BY <1>5, <1>6

LEMMA HeldByClaim ==
  ASSUME IInv, Held, NEW w \in Workers, Claim(w)
  PROVE  Held' /\ SettledStay
<1>1. PICK j \in Jobs :
        /\ job[j].status = "QUEUED"
        /\ job' = [job EXCEPT ![j] = [job[j] EXCEPT !.status = "RUNNING", !.lockedBy = w,
                                        !.lease = "live", !.attempts = job[j].attempts + 1]]
        /\ run' = [run EXCEPT ![w] = [IdleRun EXCEPT !.pc = "claimed", !.job = j,
                                        !.attempts = job[j].attempts + 1]]
  BY DEF Claim
<1>2. PICK r : r = [job[j] EXCEPT !.status = "RUNNING", !.lockedBy = w,
                                  !.lease = "live", !.attempts = job[j].attempts + 1]
  OBVIOUS
<1>3. PICK e : e = [IdleRun EXCEPT !.pc = "claimed", !.job = j, !.attempts = job[j].attempts + 1]
  OBVIOUS
<1>4. r.status = "RUNNING" /\ r.lockedBy = w /\ r.lease = "live"
  <2>1. job[j] \in Row
    BY DEF IInv, TypeOK
  <2> QED BY <1>2, <2>1 DEF Row
<1>5. e.job = j
  BY <1>3 DEF IdleRun
<1>6. \A i \in Jobs : job'[i] = IF i = j THEN r ELSE job[i]
  <2>1. job' = [job EXCEPT ![j] = r]
    BY <1>1, <1>2
  <2> QED BY <2>1, OneRowWritten
<1>7. \A v \in Workers : run'[v] = IF v = w THEN e ELSE run[v]
  BY <1>1, <1>3 DEF IInv, TypeOK
<1>8. proc' = proc
  BY DEF Claim
<1>9. ASSUME NEW v \in Workers, Executing(v)'
      PROVE  job'[run'[v].job].status = "RUNNING" /\ job'[run'[v].job].lockedBy = v
  <2>1. CASE v = w
    BY <1>4, <1>5, <1>6, <1>7, <2>1
  <2>2. CASE v # w
    <3>1. Executing(v) /\ run'[v] = run[v]
      BY <1>7, <1>9, <2>2 DEF Executing
    <3>2. /\ run[v].job \in Jobs
          /\ job[run[v].job].status = "RUNNING" /\ job[run[v].job].lockedBy = v
      BY <3>1, ExecutedRow DEF Held
    <3> QED BY <1>1, <1>6, <3>1, <3>2
  <2> QED BY <2>1, <2>2
<1>10. OwnRow'
  BY <1>9 DEF OwnRow
<1>11. ExpiredIsDead'
  BY <1>4, <1>6, <1>8 DEF Held, ExpiredIsDead
<1>12. SettledStay
  BY <1>1, <1>6 DEF SettledStay
<1> QED BY <1>10, <1>11, <1>12 DEF Held

\* A worker that settles its row leaves those of others locked.
LEMMA HeldWhenSettled ==
  ASSUME IInv, Held, NEW w \in Workers, Executing(w), NEW e, e.pc \notin Holding,
         run' = [run EXCEPT ![w] = e], proc' = proc,
         \A i \in Jobs : job[i].status # "ABSENT" /\ i # run[w].job => job'[i] = job[i],
         \A i \in Jobs : job'[i].lease = "expired" => job'[i] = job[i]
  PROVE  Held' /\ SettledStay
<1>1. \A v \in Workers : run'[v] = IF v = w THEN e ELSE run[v]
  BY DEF IInv, TypeOK
<1>2. job[run[w].job].status = "RUNNING" /\ job[run[w].job].lockedBy = w
  BY ExecutedRow DEF Held
<1>3. ASSUME NEW v \in Workers, Executing(v)'
      PROVE  job'[run'[v].job].status = "RUNNING" /\ job'[run'[v].job].lockedBy = v
  <2>1. v # w /\ Executing(v) /\ run'[v] = run[v]
    BY <1>1, <1>3 DEF Executing, Holding
  <2>2. /\ run[v].job \in Jobs
        /\ job[run[v].job].status = "RUNNING" /\ job[run[v].job].lockedBy = v
    BY <2>1, ExecutedRow DEF Held
  <2> QED BY <1>2, <2>1, <2>2
<1>4. OwnRow'
  BY <1>3 DEF OwnRow
<1>5. ExpiredIsDead'
  BY DEF Held, ExpiredIsDead
<1>6. SettledStay
  BY <1>2 DEF SettledStay
<1> QED BY <1>4, <1>5, <1>6 DEF Held

LEMMA HeldByFailDead ==
  ASSUME IInv, Held, NEW w \in Workers, FailDead(w)
  PROVE  Held' /\ SettledStay
<1>1. run[w].pc = "failed" /\ Executing(w)
  BY DEF FailDead, At, Executing
<1>2. PICK j \in Jobs : j = run[w].job /\ job[j] \in Row
  BY <1>1, ExecutedRow DEF Held
<1>3. PICK r : r = Settled(job[j], "DEAD")
  OBVIOUS
<1>4. r.lease = "none"
  BY <1>2, <1>3, SettledFields
<1>5. PICK e : e = [run[w] EXCEPT !.pc = "dead"]
  OBVIOUS
<1>6. e.pc = "dead"
  BY <1>1, <1>5, ExecutedRow DEF Held, Run
<1>7. run' = [run EXCEPT ![w] = e] /\ proc' = proc
  BY <1>5 DEF FailDead, Goes
<1>8. \A i \in Jobs : job'[i] = IF i = j THEN r ELSE job[i]
  <2>1. job' = [job EXCEPT ![j] = r]
    BY <1>2, <1>3 DEF FailDead
  <2> QED BY <2>1, OneRowWritten
<1>9. \A i \in Jobs : job'[i].lease = "expired" => job'[i] = job[i]
  BY <1>4, <1>8
<1>10. \A i \in Jobs : job[i].status # "ABSENT" /\ i # run[w].job => job'[i] = job[i]
  BY <1>2, <1>8
<1>11. e.pc \notin Holding
  BY <1>6 DEF Holding
<1> QED BY <1>1, <1>7, <1>9, <1>10, <1>11, HeldWhenSettled

LEMMA HeldByFailRetry ==
  ASSUME IInv, Held, NEW w \in Workers, FailRetry(w)
  PROVE  Held' /\ SettledStay
<1>1. run[w].pc = "failed" /\ Executing(w)
  BY DEF FailRetry, At, Executing
<1>2. PICK j \in Jobs : j = run[w].job /\ job[j] \in Row
  BY <1>1, ExecutedRow DEF Held
<1>3. PICK r : r = Requeued(job[j], FALSE)
  OBVIOUS
<1>4. r.lease = "none"
  BY <1>2, <1>3, RequeuedFields
<1>5. run' = [run EXCEPT ![w] = IdleRun] /\ proc' = proc
  BY DEF FailRetry
<1>6. \A i \in Jobs : job'[i] = IF i = j THEN r ELSE job[i]
  <2>1. job' = [job EXCEPT ![j] = r]
    BY <1>2, <1>3 DEF FailRetry
  <2> QED BY <2>1, OneRowWritten
<1>7. \A i \in Jobs : job'[i].lease = "expired" => job'[i] = job[i]
  BY <1>4, <1>6
<1>8. \A i \in Jobs : job[i].status # "ABSENT" /\ i # run[w].job => job'[i] = job[i]
  BY <1>2, <1>6
<1>9. IdleRun.pc \notin Holding
  BY IdleRunFields DEF Holding
<1> QED BY <1>1, <1>5, <1>7, <1>8, <1>9, HeldWhenSettled

\* The row of a worker is the only active one of its project, so that its
\* completion is never aborted.
LEMMA OnlyOwnActive ==
  ASSUME IInv, OwnRow, NEW w \in Workers, Executing(w)
  PROVE  ActiveJobs(ProjectOf(w)) = {run[w].job}
<1>1. run[w].job \in ActiveJobs(ProjectOf(w)) /\ run[w].job \in Jobs
  BY ExecutedRow
<1>2. \A i \in ActiveJobs(ProjectOf(w)) : i = run[w].job
  BY <1>1 DEF IInv, OneActivePerProject, ActiveJobs
<1> QED BY <1>1, <1>2

\* What a completion does: the row is settled, and the next job of the plan,
\* if there is one, is inserted.
LEMMA Completes ==
  ASSUME IInv, Held, NEW w \in Workers, Complete(w)
  PROVE  /\ Executing(w) /\ run[w].pc = "read"
         /\ UNCHANGED <<stage, failed, call, proc, listed, faults, resumes>>
         /\ Goes(w, "completed")
         /\ \/ /\ run[w].doc = Last
               /\ job' = [job EXCEPT ![run[w].job] = Settled(job[run[w].job], "COMPLETED")]
            \/ /\ run[w].doc # Last /\ Free # {}
               /\ job' = [[job EXCEPT ![run[w].job] = Settled(job[run[w].job], "COMPLETED")]
                            EXCEPT ![NewRow] = QueuedRow(ProjectOf(w), run[w].doc)]
<1>1. run[w].pc = "read" /\ Executing(w)
  BY DEF Complete, At, Executing
<1>2. ActiveJobs(ProjectOf(w)) \ {run[w].job} = {}
  BY <1>1, OnlyOwnActive DEF Held
<1> QED BY <1>1, <1>2, Zenon DEF Complete

\* The table after a completion.
LEMMA CompletedTable ==
  ASSUME IInv, Held, NEW w \in Workers, Complete(w), NEW j, j = run[w].job
  PROVE  /\ j \in Jobs
         /\ job'[j].status = "COMPLETED" /\ job'[j].lease = "none"
         /\ job'[j].project = job[j].project /\ job'[j].stage = job[j].stage
         /\ \/ /\ run[w].doc = Last
               /\ \A i \in Jobs \ {j} : job'[i] = job[i]
            \/ /\ run[w].doc # Last
               /\ \E n \in Jobs \ {j} :
                    /\ job[n].status = "ABSENT"
                    /\ job'[n].status = "QUEUED" /\ job'[n].lease = "none"
                    /\ job'[n].project = ProjectOf(w) /\ job'[n].stage = run[w].doc
                    /\ \A i \in Jobs \ {n, j} : job'[i] = job[i]
<1>1. Executing(w)
  BY Completes
<1>2. j \in Jobs /\ job[j] \in Row /\ job[j].status = "RUNNING"
  BY <1>1, ExecutedRow DEF Held
<1>3. PICK r : r = Settled(job[j], "COMPLETED")
  OBVIOUS
<1>4. r.status = "COMPLETED" /\ r.lease = "none" /\ r.project = job[j].project /\ r.stage = job[j].stage
  BY <1>2, <1>3 DEF Settled, Row
<1>5. CASE /\ run[w].doc = Last
           /\ job' = [job EXCEPT ![run[w].job] = Settled(job[run[w].job], "COMPLETED")]
  <2>1. \A i \in Jobs : job'[i] = IF i = j THEN r ELSE job[i]
    <3>1. job' = [job EXCEPT ![j] = r]
      BY <1>3, <1>5
    <3> QED BY <1>2, <3>1, OneRowWritten
  <2> QED BY <1>2, <1>4, <1>5, <2>1
<1>6. CASE /\ run[w].doc # Last /\ Free # {}
           /\ job' = [[job EXCEPT ![run[w].job] = Settled(job[run[w].job], "COMPLETED")]
                        EXCEPT ![NewRow] = QueuedRow(ProjectOf(w), run[w].doc)]
  <2>1. PICK n \in Jobs : n = NewRow /\ job[n].status = "ABSENT" /\ n # j
    BY <1>2, <1>6, NewRowIsAbsent
  <2>2. PICK q : q = QueuedRow(ProjectOf(w), run[w].doc)
    OBVIOUS
  <2>3. q.status = "QUEUED" /\ q.project = ProjectOf(w) /\ q.stage = run[w].doc /\ q.lease = "none"
    BY <2>2 DEF QueuedRow, AbsentRow
  <2>4. job' = [[job EXCEPT ![j] = r] EXCEPT ![n] = q]
    BY <1>3, <1>6, <2>1, <2>2
  <2>5. \A i \in Jobs : job'[i] = IF i = n THEN q ELSE IF i = j THEN r ELSE job[i]
    BY <2>1, <2>4 DEF IInv, TypeOK
  <2>6. /\ job[n].status = "ABSENT"
        /\ job'[n].status = "QUEUED" /\ job'[n].lease = "none"
        /\ job'[n].project = ProjectOf(w) /\ job'[n].stage = run[w].doc
        /\ \A i \in Jobs \ {n, j} : job'[i] = job[i]
    BY <2>1, <2>3, <2>5
  <2>7. job'[j] = r /\ n \in Jobs \ {j}
    BY <1>2, <2>1, <2>5
  <2> QED BY <1>2, <1>4, <1>6, <2>6, <2>7
<1> QED BY <1>5, <1>6, Completes

LEMMA HeldByComplete ==
  ASSUME IInv, Held, NEW w \in Workers, Complete(w)
  PROVE  Held' /\ SettledStay
<1>1. Executing(w) /\ proc' = proc
  BY Completes
<1>2. PICK j : j = run[w].job
  OBVIOUS
<1>3. PICK e : e = [run[w] EXCEPT !.pc = "completed"]
  OBVIOUS
<1>4. e.pc \notin Holding
  <2>1. e.pc = "completed"
    BY <1>1, <1>3, ExecutedRow DEF Held, Run
  <2> QED BY <2>1 DEF Holding
<1>5. run' = [run EXCEPT ![w] = e]
  BY <1>3, Completes DEF Goes
<1>6. /\ \A i \in Jobs : job[i].status # "ABSENT" /\ i # j => job'[i] = job[i]
      /\ \A i \in Jobs : job'[i].lease = "expired" => job'[i] = job[i]
  BY <1>2, CompletedTable
<1> QED BY <1>1, <1>2, <1>4, <1>5, <1>6, HeldWhenSettled

LEMMA HeldByExecution ==
  ASSUME Timely, IInv, Held, NEW w \in Workers,
         StartSkips(w) \/ StartWorks(w) \/ Save(w) \/ ReadProject(w) \/ Finish(w)
           \/ FailProject(w) \/ WorkFails(w) \/ EventFails(w)
  PROVE  Held' /\ SettledStay
<1>1. UNCHANGED <<job, proc>> /\ run[w].pc # "idle"
  BY DEF StartSkips, StartWorks, Save, ReadProject, Finish, FailProject, WorkFails, EventFails, At
<1>2. run[w] \in Run
  BY <1>1, RowOfExecution
<1>3. \E e : /\ run' = [run EXCEPT ![w] = e]
             /\ e.pc \in Holding => Executing(w) /\ e.job = run[w].job
  <2>1. CASE StartSkips(w) \/ WorkFails(w)
    <3>1. Executing(w)
      BY <2>1 DEF StartSkips, WorkFails, At, Executing
    <3>2. CASE Goes(w, "saved")
      <4>1. run' = [run EXCEPT ![w] = [run[w] EXCEPT !.pc = "saved"]]
        BY <3>2 DEF Goes
      <4>2. [run[w] EXCEPT !.pc = "saved"].job = run[w].job
        BY <1>2 DEF Run
      <4> QED BY <3>1, <4>1, <4>2
    <3>3. ASSUME NEW t \in BOOLEAN, Throws(w, t)
          PROVE  \E e : /\ run' = [run EXCEPT ![w] = e]
                        /\ e.pc \in Holding => Executing(w) /\ e.job = run[w].job
      BY <1>2, <3>1, <3>3, ThrowsRun DEF Throws
    <3> QED BY <2>1, <3>2, <3>3 DEF StartSkips, WorkFails
  <2>2. CASE StartWorks(w)
    <3>1. Executing(w)
      BY <2>2 DEF StartWorks, At, Executing
    <3>2. CASE Throws(w, FALSE)
      BY <1>2, <3>1, <3>2, ThrowsRun DEF Throws
    <3>3. CASE run' = [run EXCEPT ![w] = [run[w] EXCEPT !.pc = "working", !.doc = Plan(ProjectOf(w))]]
      <4>1. [run[w] EXCEPT !.pc = "working", !.doc = Plan(ProjectOf(w))].job = run[w].job
        BY <1>2 DEF Run
      <4> QED BY <3>1, <3>3, <4>1
    <3> QED BY <2>2, <3>2, <3>3 DEF StartWorks
  <2>3. CASE Save(w)
    <3>1. Executing(w)
      BY <2>3 DEF Save, At, Executing
    <3>2. PICK pc \in {"claimed", "saved"} : Goes(w, pc)
      BY <2>3 DEF Save
    <3>3. [run[w] EXCEPT !.pc = pc].job = run[w].job
      BY <1>2, <3>2 DEF Run
    <3> QED BY <3>1, <3>2, <3>3 DEF Goes
  <2>4. CASE ReadProject(w)
    <3>1. Executing(w)
      BY <2>4 DEF ReadProject, At, Executing
    <3>2. [run[w] EXCEPT !.pc = "read", !.doc = Plan(ProjectOf(w))].job = run[w].job
      BY <1>2 DEF Run
    <3> QED BY <2>4, <3>1, <3>2 DEF ReadProject
  <2>5. CASE Finish(w) \/ FailProject(w)
    <3>1. run' = [run EXCEPT ![w] = IdleRun]
      BY <2>5 DEF Finish, FailProject
    <3>2. IdleRun.pc \notin Holding
      BY IdleRunFields DEF Holding
    <3> QED BY <3>1, <3>2
  <2>6. CASE EventFails(w)
    BY <2>6 DEF Timely, EventFails, Fault
  <2> QED BY <2>1, <2>2, <2>3, <2>4, <2>5, <2>6
<1> QED BY <1>1, <1>3, HeldWhenOneMoves

LEMMA HeldByProcess ==
  ASSUME Timely, IInv, Held, NEW w \in Workers,
         Boot(w) \/ StartPolling(w) \/ Crash(w) \/ Stop(w) \/ Release(w) \/ Exit(w)
           \/ FailRejected(w)
  PROVE  Held' /\ SettledStay
<1>1. CASE Boot(w) \/ StartPolling(w) \/ Stop(w)
  <2>1. PICK to : proc' = [proc EXCEPT ![w] = to]
    BY <1>1 DEF Boot, StartPolling, Stop
  <2>2. proc[w] # "down" /\ UNCHANGED <<job, run>>
    BY <1>1 DEF Boot, StartPolling, Stop
  <2> QED BY <2>1, <2>2, HeldByStop
<1>2. CASE Crash(w) \/ Exit(w) \/ FailRejected(w)
  BY <1>2, HeldWhenDies DEF Crash, Exit, FailRejected
<1>3. CASE Release(w)
  <2>1. UNCHANGED <<job, run>> /\ proc[w] = "stopping" /\ proc' = [proc EXCEPT ![w] = "released"]
    BY <1>3, ReleaseIsEmpty
  <2> QED BY <2>1, HeldByStop
<1> QED BY <1>1, <1>2, <1>3

LEMMA HeldWhenStill ==
  ASSUME IInv, Held, UNCHANGED <<job, run, proc>>
  PROVE  Held' /\ SettledStay
<1>1. DeadStay /\ \A v \in Workers : Executing(v)' => Executing(v) /\ run'[v].job = run[v].job
  BY DEF DeadStay, Executing
<1> QED BY <1>1, HeldWhileRunsMove

LEMMA StepHeld ==
  ASSUME Timely, IInv, Held, [Next]_vars
  PROVE  Held' /\ SettledStay
<1>1. CASE UNCHANGED vars
  BY <1>1, HeldWhenStill DEF vars
<1>2. ASSUME NEW p \in Projects, OwnerEnqueue(p) \/ OwnerResume(p) \/ ApiCrash(p)
      PROVE  Held' /\ SettledStay
  <2>1. CASE OwnerEnqueue(p)
    BY <2>1, PlanIsStage, HeldByEnqueue DEF OwnerEnqueue
  <2>2. CASE OwnerResume(p) \/ ApiCrash(p)
    BY <2>2, HeldWhenStill DEF OwnerResume, ApiCrash
  <2> QED BY <1>2, <2>1, <2>2
<1>3. ASSUME NEW w \in Workers, NEW p \in Projects, Reconcile(w, p)
      PROVE  Held' /\ SettledStay
  <2>1. listed[w][p] \in 0..Last
    BY DEF IInv, TypeOK
  <2> QED BY <1>3, <2>1, HeldByEnqueue DEF Reconcile
<1>4. ASSUME NEW w \in Workers, Boot(w) \/ StartPolling(w) \/ Crash(w) \/ Stop(w)
                                  \/ Release(w) \/ Exit(w) \/ FailRejected(w)
      PROVE  Held' /\ SettledStay
  BY <1>4, HeldByProcess
<1>5. ASSUME NEW w \in Workers, Heartbeat(w) \/ RecoverExpiredLeases(w) \/ Claim(w)
                                  \/ Complete(w) \/ FailDead(w) \/ FailRetry(w)
      PROVE  Held' /\ SettledStay
  BY <1>5, HeldByHeartbeat, HeldByRecoverExpiredLeases, HeldByClaim, HeldByComplete,
     HeldByFailDead, HeldByFailRetry
<1>6. ASSUME NEW w \in Workers, StartSkips(w) \/ StartWorks(w) \/ Save(w) \/ ReadProject(w)
                                  \/ Finish(w) \/ FailProject(w) \/ WorkFails(w) \/ EventFails(w)
      PROVE  Held' /\ SettledStay
  BY <1>6, HeldByExecution
<1>7. ASSUME NEW j \in Jobs, LeaseExpires(j) \/ BackoffElapses(j)
      PROVE  Held' /\ SettledStay
  BY <1>7, HeldByLeaseExpires, HeldByBackoffElapses
<1> QED BY <1>1, <1>2, <1>3, <1>4, <1>5, <1>6, <1>7 DEF Next, Execute

LEMMA InitHeld ==
  ASSUME Init
  PROVE  Held
<1>1. \A j \in Jobs : job[j].lease = "none"
  BY DEF Init, AbsentRow
<1>2. \A w \in Workers : ~Executing(w)
  BY IdleRunFields DEF Init, Executing
<1> QED BY <1>1, <1>2 DEF Held, OwnRow, ExpiredIsDead

LEMMA HeldIsExclusive ==
  ASSUME IInv, Held
  PROVE  ExclusiveExecution
<1> SUFFICES ASSUME NEW v \in Workers, NEW w \in Workers, Executing(v), Executing(w),
                    ProjectOf(v) = ProjectOf(w)
             PROVE  v = w
  BY DEF ExclusiveExecution
<1>1. {run[v].job} = {run[w].job}
  BY OnlyOwnActive DEF Held
<1>2. run[v].job = run[w].job
  BY <1>1
<1> QED BY <1>2 DEF Held, OwnRow

\* Where leases are renewed in time, whoever executes a row has it locked.
THEOREM HeldInvariant ==
  ASSUME Timely
  PROVE  Spec => []Held
<1>1. Init => Held
  BY InitHeld
<1>2. IInv /\ Held /\ [Next]_vars => Held'
  BY StepHeld
<1> QED BY <1>1, <1>2, Invariant, PTL DEF Spec

\* Where leases are renewed in time no two workers execute the jobs of one
\* project at once, whoever crashes, stops, recovers and enqueues
\* (claim, heartbeat, recoverExpiredLeases, fail, completeAndHandoff).
THEOREM Exclusive ==
  ASSUME Timely
  PROVE  Spec => []ExclusiveExecution
<1>1. IInv /\ Held => ExclusiveExecution
  BY HeldIsExclusive
<1> QED BY <1>1, Invariant, HeldInvariant, PTL

\* ... and a job that is COMPLETED or DEAD is never written again, although
\* completeAndHandoff and fail write by id, whoever has the row locked.
THEOREM SettledForGood ==
  ASSUME Timely
  PROVE  Spec => SettledIsFinal
<1>1. IInv /\ Held /\ [Next]_vars => [SettledStay]_vars
  BY StepHeld
<1>2. SettledIsFinal <=> [][SettledStay]_vars
  BY DEF SettledIsFinal, SettledStay
<1> QED BY <1>1, <1>2, Invariant, HeldInvariant, PTL DEF Spec

-----------------------------------------------------------------------------
(* ... and no enqueue between a dead letter and FAILED: progress *)

NoLateEnqueue == Timely /\ "deadLetterRace" \notin Faults

\* Some worker has settled a row of p as DEAD and goes on to fail the project.
DeadOn(p) == \E v \in Workers : run[v].pc = "dead" /\ ProjectOf(v) = p

\* A project whose job is dead has no other.
DeadIsAlone == \A p \in Projects : DeadOn(p) => ActiveJobs(p) = {}

\* The document a handler works on is still the one that is saved.
WorksOnSaved ==
  \A w \in Workers : run[w].pc = "working" =>
    run[w].doc = stage[ProjectOf(w)] /\ ~failed[ProjectOf(w)]

Kept == DeadIsAlone /\ WorksOnSaved

ProgressStep ==
  \A p \in Projects : \/ resumes' # resumes
                      \/ stage'[p] >= stage[p] /\ (failed[p] => failed'[p])

\* A row keeps its project and its job.
RowsStay ==
  \A j \in Jobs : job[j].status # "ABSENT" =>
    job'[j].project = job[j].project /\ job'[j].stage = job[j].stage

\* The same rows are active.
SameActive == RowsStay /\ \A j \in Jobs : Active(j)' <=> Active(j)

LEMMA SameExecution ==
  ASSUME IInv, RowsStay, NEW v \in Workers, run[v].pc # "idle", run'[v].job = run[v].job
  PROVE  ProjectOf(v)' = ProjectOf(v) /\ StageOf(v)' = StageOf(v)
<1>1. run[v].job \in Jobs /\ job[run[v].job].status # "ABSENT"
  BY RowOfExecution
<1> QED BY <1>1 DEF RowsStay, ProjectOf, StageOf

LEMMA SameActiveJobs ==
  ASSUME IInv, SameActive, NEW p
  PROVE  ActiveJobs(p)' = ActiveJobs(p)
  BY DEF SameActive, RowsStay, ActiveJobs, Active

LEMMA NobodyNewDead ==
  ASSUME IInv, RowsStay, \A v \in Workers : run'[v] = run[v] \/ run'[v].pc # "dead",
         NEW p \in Projects, DeadOn(p)'
  PROVE  DeadOn(p)
<1>1. PICK v \in Workers : run'[v].pc = "dead" /\ ProjectOf(v)' = p
  BY DEF DeadOn
<1>2. run'[v] = run[v]
  BY <1>1
<1>3. ProjectOf(v)' = ProjectOf(v)
  BY <1>1, <1>2, SameExecution
<1> QED BY <1>1, <1>2, <1>3 DEF DeadOn

\* An execution that goes on or begins has a row of its own; the documents stay.
LEMMA WorksOnKept ==
  ASSUME IInv, WorksOnSaved, RowsStay, UNCHANGED <<stage, failed>>,
         \A v \in Workers : \/ run'[v] = run[v]
                            \/ run'[v].pc = "working" =>
                                 /\ run[v].pc # "idle" /\ run'[v].job = run[v].job
                                 /\ run'[v].doc = stage[ProjectOf(v)] /\ ~failed[ProjectOf(v)]
  PROVE  WorksOnSaved'
<1> SUFFICES ASSUME NEW v \in Workers, run'[v].pc = "working"
             PROVE  run'[v].doc = stage[ProjectOf(v)'] /\ ~failed[ProjectOf(v)']
  BY DEF WorksOnSaved
<1>1. CASE run'[v] = run[v]
  <2>1. ProjectOf(v)' = ProjectOf(v)
    BY <1>1, SameExecution
  <2> QED BY <1>1, <2>1 DEF WorksOnSaved
<1>2. CASE run'[v] # run[v]
  <2>1. /\ run[v].pc # "idle" /\ run'[v].job = run[v].job
        /\ run'[v].doc = stage[ProjectOf(v)] /\ ~failed[ProjectOf(v)]
    BY <1>2
  <2>2. ProjectOf(v)' = ProjectOf(v)
    BY <2>1, SameExecution
  <2> QED BY <2>1, <2>2
<1> QED BY <1>1, <1>2

LEMMA KeptWhenQuiet ==
  ASSUME IInv, Kept, SameActive, UNCHANGED <<stage, failed>>,
         \A v \in Workers : \/ run'[v] = run[v]
                            \/ /\ run'[v].pc # "dead"
                               /\ run'[v].pc = "working" =>
                                    /\ run[v].pc # "idle" /\ run'[v].job = run[v].job
                                    /\ run'[v].doc = stage[ProjectOf(v)]
                                    /\ ~failed[ProjectOf(v)]
  PROVE  Kept' /\ ProgressStep
<1>1. RowsStay
  BY DEF SameActive
<1>2. DeadIsAlone'
  <2> SUFFICES ASSUME NEW p \in Projects, DeadOn(p)'
               PROVE  ActiveJobs(p)' = {}
    BY DEF DeadIsAlone
  <2>1. DeadOn(p)
    BY <1>1, NobodyNewDead
  <2> QED BY <2>1, SameActiveJobs DEF Kept, DeadIsAlone
<1>3. WorksOnSaved'
  BY <1>1, WorksOnKept DEF Kept
<1>4. ProgressStep
  BY DEF ProgressStep, IInv, TypeOK
<1> QED BY <1>2, <1>3, <1>4 DEF Kept

-----------------------------------------------------------------------------
(* What the actions do to the active rows *)

LEMMA StillTable ==
  ASSUME UNCHANGED job
  PROVE  SameActive
  BY DEF SameActive, RowsStay, Active

\* One active row is written and stays active.
LEMMA OneStaysActive ==
  ASSUME IInv, NEW j \in Jobs, NEW r, job' = [job EXCEPT ![j] = r], Active(j),
         r.status \in {"QUEUED", "RUNNING"}, r.project = job[j].project, r.stage = job[j].stage
  PROVE  SameActive
<1>1. \A i \in Jobs : job'[i] = IF i = j THEN r ELSE job[i]
  BY OneRowWritten
<1> QED BY <1>1 DEF SameActive, RowsStay, Active

LEMMA RequeuedStage ==
  ASSUME NEW row \in Row, NEW due
  PROVE  Requeued(row, due).stage = row.stage
  BY DEF Row, Requeued

LEMMA ActiveByTime ==
  ASSUME IInv, NEW j \in Jobs, LeaseExpires(j) \/ BackoffElapses(j)
  PROVE  SameActive
<1>1. job[j] \in Row
  BY DEF IInv, TypeOK
<1>2. CASE LeaseExpires(j)
  <2>1. PICK r : r = [job[j] EXCEPT !.lease = "expired"]
    OBVIOUS
  <2>2. job' = [job EXCEPT ![j] = r] /\ job[j].status = "RUNNING"
    BY <1>2, <2>1 DEF LeaseExpires
  <2>3. r.status = job[j].status /\ r.project = job[j].project /\ r.stage = job[j].stage
    BY <1>1, <2>1 DEF Row
  <2> QED BY <2>2, <2>3, OneStaysActive DEF Active
<1>3. CASE BackoffElapses(j)
  <2>1. PICK r : r = [job[j] EXCEPT !.due = TRUE]
    OBVIOUS
  <2>2. job' = [job EXCEPT ![j] = r] /\ job[j].status = "QUEUED"
    BY <1>3, <2>1 DEF BackoffElapses
  <2>3. r.status = job[j].status /\ r.project = job[j].project /\ r.stage = job[j].stage
    BY <1>1, <2>1 DEF Row
  <2> QED BY <2>2, <2>3, OneStaysActive DEF Active
<1> QED BY <1>2, <1>3

LEMMA ActiveByHeartbeat ==
  ASSUME IInv, NEW w \in Workers, Heartbeat(w)
  PROVE  SameActive
<1>1. run[w].pc # "idle"
  BY DEF Heartbeat, IInv, ExecutionHasRow
<1>2. PICK j \in Jobs : j = run[w].job /\ job[j] \in Row
  BY <1>1, RowOfExecution
<1>3. PICK r : r = [job[j] EXCEPT !.lease = "live"]
  OBVIOUS
<1>4. job' = [job EXCEPT ![j] = r] /\ job[j].status = "RUNNING"
  BY <1>2, <1>3 DEF Heartbeat
<1>5. r.status = job[j].status /\ r.project = job[j].project /\ r.stage = job[j].stage
  BY <1>2, <1>3 DEF Row
<1> QED BY <1>4, <1>5, OneStaysActive DEF Active

LEMMA ActiveByRecoverExpiredLeases ==
  ASSUME IInv, NEW w \in Workers, RecoverExpiredLeases(w)
  PROVE  SameActive
<1>1. \A i \in Jobs : job'[i] = IF i \in Recoverable(w) THEN Requeued(job[i], TRUE) ELSE job[i]
  BY DEF RecoverExpiredLeases
<1>2. ASSUME NEW i \in Jobs
      PROVE  /\ Requeued(job[i], TRUE).project = job[i].project
             /\ Requeued(job[i], TRUE).stage = job[i].stage
             /\ Requeued(job[i], TRUE).status = "QUEUED"
  <2>1. job[i] \in Row
    BY DEF IInv, TypeOK
  <2> QED BY <2>1, RequeuedFields, RequeuedStage
<1>3. \A i \in Recoverable(w) : job[i].status = "RUNNING"
  BY DEF Recoverable
<1> QED BY <1>1, <1>2, <1>3 DEF SameActive, RowsStay, Active

LEMMA ActiveByClaim ==
  ASSUME IInv, NEW w \in Workers, Claim(w)
  PROVE  /\ SameActive
         /\ \A v \in Workers : run'[v] = run[v] \/ (run[v].pc = "idle" /\ run'[v].pc = "claimed")
<1>1. PICK j \in Jobs :
        /\ job[j].status = "QUEUED"
        /\ job' = [job EXCEPT ![j] = [job[j] EXCEPT !.status = "RUNNING", !.lockedBy = w,
                                        !.lease = "live", !.attempts = job[j].attempts + 1]]
        /\ run' = [run EXCEPT ![w] = [IdleRun EXCEPT !.pc = "claimed", !.job = j,
                                        !.attempts = job[j].attempts + 1]]
  BY DEF Claim
<1>2. PICK r : r = [job[j] EXCEPT !.status = "RUNNING", !.lockedBy = w,
                                  !.lease = "live", !.attempts = job[j].attempts + 1]
  OBVIOUS
<1>3. r.status = "RUNNING" /\ r.project = job[j].project /\ r.stage = job[j].stage
  <2>1. job[j] \in Row
    BY DEF IInv, TypeOK
  <2> QED BY <1>2, <2>1 DEF Row
<1>4. SameActive
  <2>1. job' = [job EXCEPT ![j] = r]
    BY <1>1, <1>2
  <2> QED BY <1>1, <1>3, <2>1, OneStaysActive DEF Active
<1>5. PICK e : e = [IdleRun EXCEPT !.pc = "claimed", !.job = j, !.attempts = job[j].attempts + 1]
  OBVIOUS
<1>6. e.pc = "claimed"
  BY <1>5 DEF IdleRun
<1>7. \A v \in Workers : run'[v] = IF v = w THEN e ELSE run[v]
  BY <1>1, <1>5 DEF IInv, TypeOK
<1> QED BY <1>4, <1>6, <1>7 DEF Claim

LEMMA ActiveByFailRetry ==
  ASSUME IInv, Held, NEW w \in Workers, FailRetry(w)
  PROVE  SameActive
<1>1. Executing(w)
  BY DEF FailRetry, At, Executing
<1>2. PICK j \in Jobs : j = run[w].job /\ job[j] \in Row /\ job[j].status = "RUNNING"
  BY <1>1, ExecutedRow DEF Held
<1>3. PICK r : r = Requeued(job[j], FALSE)
  OBVIOUS
<1>4. job' = [job EXCEPT ![j] = r]
  BY <1>2, <1>3 DEF FailRetry
<1>5. r.status = "QUEUED" /\ r.project = job[j].project /\ r.stage = job[j].stage
  BY <1>2, <1>3, RequeuedFields, RequeuedStage
<1> QED BY <1>2, <1>4, <1>5, OneStaysActive DEF Active

\* Enqueue adds at most the one row, of a project with none.
LEMMA ActiveByEnqueue ==
  ASSUME IInv, NEW p \in Projects, NEW s \in 0..Last, Enqueue(p, s)
  PROVE  /\ RowsStay
         /\ SameActive \/ /\ s # Last /\ ActiveJobs(p) = {}
                          /\ "deadLetterRace" \notin Faults => ~DeadOn(p)
                          /\ \E n \in Jobs : /\ job'[n].project = p /\ job'[n].stage = s
                                             /\ Active(n)' /\ ~Active(n)
                                             /\ \A i \in Jobs \ {n} : job'[i] = job[i]
<1>1. CASE UNCHANGED job
  BY <1>1, StillTable DEF SameActive
<1>2. CASE /\ s # Last /\ ActiveJobs(p) = {} /\ Free # {}
           /\ "deadLetterRace" \notin Faults =>
                \A w \in Workers : run[w].pc = "dead" => ProjectOf(w) # p
           /\ job' = [job EXCEPT ![NewRow] = QueuedRow(p, s)]
  <2>1. PICK n \in Jobs : n = NewRow /\ job[n].status = "ABSENT"
    BY <1>2, NewRowIsAbsent
  <2>2. PICK q : q = QueuedRow(p, s)
    OBVIOUS
  <2>3. q.status = "QUEUED" /\ q.project = p /\ q.stage = s
    BY <2>2 DEF QueuedRow, AbsentRow
  <2>4. \A i \in Jobs : job'[i] = IF i = n THEN q ELSE job[i]
    <3>1. job' = [job EXCEPT ![n] = q]
      BY <1>2, <2>1, <2>2
    <3> QED BY <3>1, OneRowWritten
  <2>5. RowsStay
    BY <2>1, <2>4 DEF RowsStay
  <2>6. /\ job'[n].project = p /\ job'[n].stage = s /\ Active(n)' /\ ~Active(n)
        /\ \A i \in Jobs \ {n} : job'[i] = job[i]
    BY <2>1, <2>3, <2>4 DEF Active
  <2>7. "deadLetterRace" \notin Faults => ~DeadOn(p)
    BY <1>2 DEF DeadOn
  <2> QED BY <1>2, <2>5, <2>6, <2>7
<1> QED BY <1>1, <1>2 DEF Enqueue

-----------------------------------------------------------------------------
(* The actions, one by one *)

\* The execution of w is written.
LEMMA OneRunWritten ==
  ASSUME IInv, NEW w \in Workers, NEW e, run' = [run EXCEPT ![w] = e]
  PROVE  \A v \in Workers : run'[v] = IF v = w THEN e ELSE run[v]
  BY DEF IInv, TypeOK

LEMMA KeptByEnqueue ==
  ASSUME NoLateEnqueue, IInv, Kept, NEW p \in Projects, NEW s \in 0..Last, Enqueue(p, s),
         UNCHANGED <<run, stage, failed>>
  PROVE  Kept' /\ ProgressStep
<1>1. RowsStay
  BY ActiveByEnqueue
<1>2. CASE SameActive
  BY <1>2, KeptWhenQuiet
<1>3. CASE ~SameActive
  <2>1. PICK n \in Jobs : /\ job'[n].project = p /\ \A i \in Jobs \ {n} : job'[i] = job[i]
    BY <1>3, ActiveByEnqueue
  <2>2. ~DeadOn(p)
    BY <1>3, ActiveByEnqueue DEF NoLateEnqueue
  <2>3. DeadIsAlone'
    <3> SUFFICES ASSUME NEW q \in Projects, DeadOn(q)'
                 PROVE  ActiveJobs(q)' = {}
      BY DEF DeadIsAlone
    <3>1. DeadOn(q)
      BY <1>1, NobodyNewDead
    <3>2. ActiveJobs(q) = {} /\ q # p
      BY <2>2, <3>1 DEF Kept, DeadIsAlone
    <3> QED BY <2>1, <3>2 DEF ActiveJobs, Active
  <2>4. WorksOnSaved'
    BY <1>1, WorksOnKept DEF Kept
  <2>5. ProgressStep
    BY DEF ProgressStep, IInv, TypeOK
  <2> QED BY <2>3, <2>4, <2>5 DEF Kept
<1> QED BY <1>2, <1>3

LEMMA KeptByOwnerResume ==
  ASSUME IInv, Kept, NEW p \in Projects, OwnerResume(p)
  PROVE  Kept' /\ ProgressStep
<1>1. UNCHANGED <<job, run>> /\ resumes' = resumes + 1 /\ Plan(p) = Last
  BY DEF OwnerResume
<1>2. RowsStay /\ SameActive
  BY <1>1, StillTable DEF SameActive
<1>3. DeadIsAlone'
  <2> SUFFICES ASSUME NEW q \in Projects, DeadOn(q)'
               PROVE  ActiveJobs(q)' = {}
    BY DEF DeadIsAlone
  <2>1. DeadOn(q)
    BY <1>1, <1>2, NobodyNewDead
  <2> QED BY <1>2, <2>1, SameActiveJobs DEF Kept, DeadIsAlone
<1>4. \A q \in Projects \ {p} : stage'[q] = stage[q] /\ failed'[q] = failed[q]
  BY DEF OwnerResume, IInv, TypeOK
<1>5. ASSUME NEW v \in Workers, run'[v].pc = "working"
      PROVE  run'[v].doc = stage'[ProjectOf(v)'] /\ ~failed'[ProjectOf(v)']
  <2>1. run[v].pc = "working" /\ run'[v] = run[v]
    BY <1>1, <1>5
  <2>2. ProjectOf(v)' = ProjectOf(v) /\ ProjectOf(v) \in Projects
    BY <1>2, <2>1, SameExecution, RowOfExecution
  <2>3. run[v].doc = stage[ProjectOf(v)] /\ ~failed[ProjectOf(v)]
    BY <2>1 DEF Kept, WorksOnSaved
  <2>4. run[v].doc # Last
    BY <2>1, QueueAssumption DEF QueueAssumption, IInv, ExecutionHasRow, TypeOK, Run
  <2>5. ProjectOf(v) # p
    BY <1>1, <2>3, <2>4 DEF Plan
  <2> QED BY <1>4, <2>1, <2>2, <2>3, <2>5
<1>6. resumes' # resumes
  BY <1>1 DEF IInv, TypeOK
<1> QED BY <1>3, <1>5, <1>6 DEF Kept, WorksOnSaved, ProgressStep

LEMMA KeptWhenStill ==
  ASSUME IInv, Kept, UNCHANGED <<job, run, stage, failed>>
  PROVE  Kept' /\ ProgressStep
  BY KeptWhenQuiet, StillTable

LEMMA KeptWhenDies ==
  ASSUME IInv, Kept, NEW w \in Workers, Dies(w), UNCHANGED <<job, stage, failed>>
  PROVE  Kept' /\ ProgressStep
<1>1. \A v \in Workers : run'[v] = run[v] \/ run'[v].pc = "idle"
  BY OneRunWritten, IdleRunFields DEF Dies
<1> QED BY <1>1, KeptWhenQuiet, StillTable

LEMMA PlanOfDocument ==
  ASSUME NEW p, Plan(p) # Last
  PROVE  Plan(p) = stage[p] /\ ~failed[p]
  BY DEF Plan

LEMMA KeptByStart ==
  ASSUME IInv, Kept, NEW w \in Workers, StartSkips(w) \/ StartWorks(w)
  PROVE  Kept' /\ ProgressStep
<1>1. run[w] \in Run /\ run[w].pc = "claimed" /\ UNCHANGED <<job, stage, failed>>
  BY RowOfExecution DEF StartSkips, StartWorks, At
<1>2. \E e : /\ run' = [run EXCEPT ![w] = e] /\ e.pc # "dead"
             /\ e.pc = "working" => /\ e.job = run[w].job /\ e.doc = stage[ProjectOf(w)]
                                    /\ ~failed[ProjectOf(w)]
  <2>1. CASE StartSkips(w)
    <3>1. CASE Goes(w, "saved")
      <4>1. run' = [run EXCEPT ![w] = [run[w] EXCEPT !.pc = "saved"]]
        BY <3>1 DEF Goes
      <4>2. [run[w] EXCEPT !.pc = "saved"].pc = "saved"
        BY <1>1 DEF Run
      <4> QED BY <4>1, <4>2
    <3>2. CASE Throws(w, TRUE)
      BY <1>1, <3>2, ThrowsRun DEF Throws
    <3> QED BY <2>1, <3>1, <3>2 DEF StartSkips
  <2>2. CASE StartWorks(w)
    <3>1. PICK s : s = Plan(ProjectOf(w)) /\ s # Last
      BY <2>2 DEF StartWorks
    <3>2. CASE Throws(w, FALSE)
      BY <1>1, <3>2, ThrowsRun DEF Throws
    <3>3. CASE run' = [run EXCEPT ![w] = [run[w] EXCEPT !.pc = "working", !.doc = s]]
      <4>1. PICK e : e = [run[w] EXCEPT !.pc = "working", !.doc = s]
        OBVIOUS
      <4>2. e.pc = "working" /\ e.doc = s /\ e.job = run[w].job
        BY <1>1, <4>1 DEF Run
      <4>3. s = stage[ProjectOf(w)] /\ ~failed[ProjectOf(w)]
        BY <3>1, PlanOfDocument
      <4> QED BY <3>3, <4>1, <4>2, <4>3
    <3> QED BY <2>2, <3>1, <3>2, <3>3 DEF StartWorks
  <2> QED BY <2>1, <2>2
<1>3. PICK e : /\ run' = [run EXCEPT ![w] = e] /\ e.pc # "dead"
               /\ e.pc = "working" => /\ e.job = run[w].job /\ e.doc = stage[ProjectOf(w)]
                                      /\ ~failed[ProjectOf(w)]
  BY <1>2
<1>4. \A v \in Workers : run'[v] = IF v = w THEN e ELSE run[v]
  BY <1>3, OneRunWritten
<1> QED BY <1>1, <1>3, <1>4, KeptWhenQuiet, StillTable

LEMMA KeptByExecution ==
  ASSUME NoLateEnqueue, IInv, Held, Kept, NEW w \in Workers,
         WorkFails(w) \/ ReadProject(w) \/ Finish(w) \/ EventFails(w) \/ FailRetry(w)
  PROVE  Kept' /\ ProgressStep
<1>1. run[w].pc # "idle" /\ run[w] \in Run /\ UNCHANGED <<stage, failed>>
  BY RowOfExecution DEF WorkFails, ReadProject, Finish, EventFails, FailRetry, At
<1>2. SameActive
  <2>1. CASE FailRetry(w)
    BY <2>1, ActiveByFailRetry
  <2>2. CASE ~FailRetry(w)
    BY <2>2, StillTable DEF WorkFails, ReadProject, Finish, EventFails
  <2> QED BY <2>1, <2>2
<1>3. \E e : run' = [run EXCEPT ![w] = e] /\ e.pc \notin {"working", "dead"}
  <2>1. CASE WorkFails(w)
    <3>1. PICK t \in BOOLEAN : Throws(w, t)
      BY <2>1 DEF WorkFails
    <3> QED BY <1>1, <3>1, ThrowsRun DEF Throws
  <2>2. CASE ReadProject(w)
    <3>1. [run[w] EXCEPT !.pc = "read", !.doc = Plan(ProjectOf(w))].pc = "read"
      BY <1>1 DEF Run
    <3> QED BY <2>2, <3>1 DEF ReadProject
  <2>3. CASE Finish(w) \/ FailRetry(w)
    BY <2>3, IdleRunFields DEF Finish, FailRetry
  <2>4. CASE EventFails(w)
    BY <2>4 DEF NoLateEnqueue, Timely, EventFails, Fault
  <2> QED BY <2>1, <2>2, <2>3, <2>4
<1>4. PICK e : run' = [run EXCEPT ![w] = e] /\ e.pc \notin {"working", "dead"}
  BY <1>3
<1>5. \A v \in Workers : run'[v] = IF v = w THEN e ELSE run[v]
  BY <1>4, OneRunWritten
<1> QED BY <1>1, <1>2, <1>4, <1>5, KeptWhenQuiet

LEMMA KeptBySave ==
  ASSUME IInv, Held, Kept, NEW w \in Workers, Save(w)
  PROVE  Kept' /\ ProgressStep
<1>1. Executing(w) /\ run[w].pc = "working" /\ UNCHANGED job
  BY DEF Save, At, Executing
<1>2. PICK p \in Projects : p = ProjectOf(w)
  BY <1>1, ExecutedRow DEF Held
<1>3. run[w] \in Run /\ run[w].doc = stage[p] /\ ~failed[p]
  BY <1>1, <1>2, ExecutedRow DEF Held, Kept, WorksOnSaved
<1>4. /\ stage' = [stage EXCEPT ![p] = stage[p] + 1]
      /\ failed' = [failed EXCEPT ![p] = FALSE]
  BY <1>2, <1>3 DEF Save
<1>5. /\ stage'[p] = stage[p] + 1 /\ ~failed'[p]
      /\ \A q \in Projects \ {p} : stage'[q] = stage[q] /\ failed'[q] = failed[q]
  BY <1>4 DEF IInv, TypeOK
<1>6. PICK e : run' = [run EXCEPT ![w] = e] /\ e.pc \in {"claimed", "saved"}
  <2>1. PICK pc \in {"claimed", "saved"} : Goes(w, pc)
    BY DEF Save
  <2>2. [run[w] EXCEPT !.pc = pc].pc = pc
    BY <1>3 DEF Run
  <2> QED BY <2>1, <2>2 DEF Goes
<1>7. \A v \in Workers : run'[v] = IF v = w THEN e ELSE run[v]
  BY <1>6, OneRunWritten
<1>8. RowsStay /\ SameActive
  BY <1>1, StillTable DEF SameActive
<1>9. DeadIsAlone'
  <2> SUFFICES ASSUME NEW q \in Projects, DeadOn(q)'
               PROVE  ActiveJobs(q)' = {}
    BY DEF DeadIsAlone
  <2>1. DeadOn(q)
    BY <1>6, <1>7, <1>8, NobodyNewDead
  <2> QED BY <1>8, <2>1, SameActiveJobs DEF Kept, DeadIsAlone
<1>10. ASSUME NEW v \in Workers, run'[v].pc = "working"
       PROVE  run'[v].doc = stage'[ProjectOf(v)'] /\ ~failed'[ProjectOf(v)']
  <2>1. v # w /\ run'[v] = run[v] /\ run[v].pc = "working" /\ Executing(v)
    BY <1>6, <1>7, <1>10 DEF Executing
  <2>2. ProjectOf(v)' = ProjectOf(v) /\ ProjectOf(v) \in Projects
    BY <1>8, <2>1, SameExecution, RowOfExecution
  <2>3. ProjectOf(v) # p
    BY <1>1, <1>2, <2>1, HeldIsExclusive DEF ExclusiveExecution
  <2> QED BY <1>5, <2>1, <2>2, <2>3 DEF Kept, WorksOnSaved
<1>11. ProgressStep
  <2>1. \A q \in Projects : stage[q] \in Nat
    BY QueueAssumption DEF QueueAssumption, IInv, TypeOK
  <2>2. ASSUME NEW q \in Projects
        PROVE  stage'[q] >= stage[q] /\ (failed[q] => failed'[q])
    <3>1. CASE q = p
      BY <1>3, <1>5, <2>1, <3>1
    <3>2. CASE q # p
      BY <1>5, <2>1, <3>2
    <3> QED BY <3>1, <3>2
  <2> QED BY <2>2 DEF ProgressStep
<1> QED BY <1>9, <1>10, <1>11 DEF Kept, WorksOnSaved

LEMMA KeptByComplete ==
  ASSUME IInv, Held, Kept, NEW w \in Workers, Complete(w)
  PROVE  Kept' /\ ProgressStep
<1>1. Executing(w) /\ UNCHANGED <<stage, failed>> /\ Goes(w, "completed")
  BY Completes
<1>2. PICK j \in Jobs : j = run[w].job /\ job[j].status = "RUNNING" /\ job[j] \in Row
  BY <1>1, ExecutedRow DEF Held
<1>3. PICK p \in Projects : p = ProjectOf(w) /\ j \in ActiveJobs(p)
  BY <1>1, <1>2, ExecutedRow DEF Held
<1>4. PICK e : run' = [run EXCEPT ![w] = e] /\ e.pc = "completed"
  <2>1. [run[w] EXCEPT !.pc = "completed"].pc = "completed"
    BY <1>1, ExecutedRow DEF Held, Run
  <2> QED BY <1>1, <2>1 DEF Goes
<1>5. \A v \in Workers : run'[v] = IF v = w THEN e ELSE run[v]
  BY <1>4, OneRunWritten
<1>6. \A i \in Jobs \ {j} : job[i].status # "ABSENT" => job'[i] = job[i]
  BY <1>2, CompletedTable
<1>7. job'[j].project = job[j].project /\ job'[j].stage = job[j].stage
  BY <1>2, CompletedTable
<1>8. RowsStay
  BY <1>6, <1>7 DEF RowsStay
<1>9. \A i \in Jobs : Active(i)' => Active(i) \/ job'[i].project = p
  <2>1. \A i \in Jobs \ {j} : job'[i] = job[i] \/ job'[i].project = p
    BY <1>2, <1>3, CompletedTable
  <2>2. Active(j)
    BY <1>2 DEF Active
  <2> QED BY <2>1, <2>2 DEF Active
<1>10. DeadIsAlone'
  <2> SUFFICES ASSUME NEW q \in Projects, DeadOn(q)', NEW i \in ActiveJobs(q)'
               PROVE  FALSE
    BY DEF DeadIsAlone
  <2>1. DeadOn(q)
    BY <1>4, <1>5, <1>8, NobodyNewDead
  <2>2. ActiveJobs(q) = {} /\ q # p
    BY <1>3, <2>1 DEF Kept, DeadIsAlone
  <2>3. i \in Jobs /\ Active(i)' /\ job'[i].project = q
    BY DEF ActiveJobs
  <2>4. Active(i) /\ job'[i].project = job[i].project
    BY <1>8, <1>9, <2>2, <2>3 DEF RowsStay, Active
  <2> QED BY <2>2, <2>3, <2>4 DEF ActiveJobs
<1>11. WorksOnSaved'
  BY <1>1, <1>4, <1>5, <1>8, WorksOnKept DEF Kept
<1>12. ProgressStep
  BY <1>1 DEF ProgressStep, IInv, TypeOK
<1> QED BY <1>10, <1>11, <1>12 DEF Kept

\* What a dead letter leaves of the project's rows.
LEMMA ActiveByFailDead ==
  ASSUME IInv, Held, NEW w \in Workers, FailDead(w), NEW p \in Projects, p = ProjectOf(w)
  PROVE  /\ RowsStay /\ ActiveJobs(p)' = {}
         /\ \A i \in Jobs : Active(i)' => Active(i)
         /\ \A i \in Jobs : Active(i) /\ job[i].project # p => Active(i)'
         /\ Executing(w) /\ UNCHANGED <<stage, failed, call, proc, listed, faults>>
         /\ \A v \in Workers \ {w} : run'[v] = run[v]
         /\ run'[w].pc = "dead" /\ run'[w].job = run[w].job
<1>1. run[w].pc = "failed" /\ Executing(w)
  BY DEF FailDead, At, Executing
<1>2. PICK j \in Jobs : j = run[w].job /\ job[j] \in Row /\ job[j].project = p
  BY <1>1, RowOfExecution
<1>3. PICK r : r = Settled(job[j], "DEAD")
  OBVIOUS
<1>4. r.status = "DEAD" /\ r.project = job[j].project /\ r.stage = job[j].stage
  BY <1>2, <1>3 DEF Settled, Row
<1>5. \A i \in Jobs : job'[i] = IF i = j THEN r ELSE job[i]
  <2>1. job' = [job EXCEPT ![j] = r]
    BY <1>2, <1>3 DEF FailDead
  <2> QED BY <2>1, OneRowWritten
<1>6. ActiveJobs(p) = {j}
  BY <1>1, <1>2, OnlyOwnActive DEF Held
<1>7. ActiveJobs(p)' = {}
  BY <1>4, <1>5, <1>6 DEF ActiveJobs, Active
<1>8. RowsStay
  BY <1>4, <1>5 DEF RowsStay
<1>9. /\ \A i \in Jobs : Active(i)' => Active(i)
      /\ \A i \in Jobs : Active(i) /\ job[i].project # p => Active(i)'
  BY <1>2, <1>4, <1>5 DEF Active
<1>10. PICK e : e = [run[w] EXCEPT !.pc = "dead"]
  OBVIOUS
<1>11. e.pc = "dead" /\ e.job = run[w].job
  BY <1>1, <1>10, ExecutedRow DEF Held, Run
<1>12. \A v \in Workers : run'[v] = IF v = w THEN e ELSE run[v]
  <2>1. run' = [run EXCEPT ![w] = e]
    BY <1>10 DEF FailDead, Goes
  <2> QED BY <2>1, OneRunWritten
<1>13. UNCHANGED <<stage, failed, call, proc, listed, faults>>
  BY DEF FailDead
<1> QED BY <1>1, <1>7, <1>8, <1>9, <1>11, <1>12, <1>13

LEMMA KeptByFailDead ==
  ASSUME IInv, Held, Kept, NEW w \in Workers, FailDead(w)
  PROVE  Kept' /\ ProgressStep
<1>1. run[w].pc # "idle"
  BY DEF FailDead, At
<1>2. PICK p \in Projects : p = ProjectOf(w)
  BY <1>1, RowOfExecution
<1>3. /\ RowsStay /\ ActiveJobs(p)' = {} /\ \A i \in Jobs : Active(i)' => Active(i)
      /\ UNCHANGED <<stage, failed>>
      /\ \A v \in Workers \ {w} : run'[v] = run[v]
      /\ run'[w].pc = "dead" /\ run'[w].job = run[w].job
  BY <1>2, ActiveByFailDead
<1>4. DeadIsAlone'
  <2> SUFFICES ASSUME NEW q \in Projects, DeadOn(q)'
               PROVE  ActiveJobs(q)' = {}
    BY DEF DeadIsAlone
  <2>1. CASE q = p
    BY <1>3, <2>1
  <2>2. CASE q # p
    <3>1. PICK v \in Workers : run'[v].pc = "dead" /\ ProjectOf(v)' = q
      BY DEF DeadOn
    <3>2. v # w
      BY <1>1, <1>2, <1>3, <2>2, <3>1, SameExecution
    <3>3. run'[v] = run[v] /\ run[v].pc = "dead"
      BY <1>3, <3>1, <3>2
    <3>4. ProjectOf(v) = q
      BY <1>3, <3>1, <3>3, SameExecution
    <3>5. ActiveJobs(q) = {}
      BY <3>3, <3>4 DEF Kept, DeadIsAlone, DeadOn
    <3> QED BY <1>3, <3>5 DEF ActiveJobs, Active, RowsStay
  <2> QED BY <2>1, <2>2
<1>5. WorksOnSaved'
  <2>1. \A v \in Workers : run'[v] = run[v] \/ run'[v].pc = "dead"
    BY <1>3
  <2> QED BY <1>3, <2>1, WorksOnKept DEF Kept
<1>6. ProgressStep
  BY <1>3 DEF ProgressStep, IInv, TypeOK
<1> QED BY <1>4, <1>5, <1>6 DEF Kept

LEMMA KeptByFailProject ==
  ASSUME IInv, Held, Kept, NEW w \in Workers, FailProject(w)
  PROVE  Kept' /\ ProgressStep
<1>1. run[w].pc = "dead" /\ UNCHANGED <<job, stage>> /\ run' = [run EXCEPT ![w] = IdleRun]
  BY DEF FailProject, At
<1>2. PICK p \in Projects : p = ProjectOf(w)
  BY <1>1, RowOfExecution
<1>3. /\ failed[p] => failed'[p]
      /\ \A q \in Projects \ {p} : failed'[q] = failed[q]
  BY <1>2 DEF FailProject, IInv, TypeOK
<1>4. \A v \in Workers : run'[v] = IF v = w THEN IdleRun ELSE run[v]
  BY <1>1, OneRunWritten
<1>5. RowsStay /\ SameActive
  BY <1>1, StillTable DEF SameActive
<1>6. ActiveJobs(p) = {}
  BY <1>1, <1>2 DEF Kept, DeadIsAlone, DeadOn
<1>7. DeadIsAlone'
  <2> SUFFICES ASSUME NEW q \in Projects, DeadOn(q)'
               PROVE  ActiveJobs(q)' = {}
    BY DEF DeadIsAlone
  <2>1. \A v \in Workers : run'[v] = run[v] \/ run'[v].pc # "dead"
    BY <1>4, IdleRunFields
  <2>2. DeadOn(q)
    BY <1>5, <2>1, NobodyNewDead
  <2> QED BY <1>5, <2>2, SameActiveJobs DEF Kept, DeadIsAlone
<1>8. ASSUME NEW v \in Workers, run'[v].pc = "working"
      PROVE  run'[v].doc = stage'[ProjectOf(v)'] /\ ~failed'[ProjectOf(v)']
  <2>1. run'[v] = run[v] /\ run[v].pc = "working" /\ Executing(v)
    BY <1>4, <1>8, IdleRunFields DEF Executing
  <2>2. ProjectOf(v)' = ProjectOf(v) /\ ProjectOf(v) \in Projects
    BY <1>5, <2>1, SameExecution, RowOfExecution
  <2>3. ProjectOf(v) # p
    BY <1>6, <2>1, ExecutedRow DEF Held
  <2> QED BY <1>1, <1>3, <2>1, <2>2, <2>3 DEF Kept, WorksOnSaved
<1>9. ProgressStep
  BY <1>1, <1>3 DEF ProgressStep, IInv, TypeOK
<1> QED BY <1>7, <1>8, <1>9 DEF Kept, WorksOnSaved

LEMMA StepKept ==
  ASSUME NoLateEnqueue, IInv, Held, Kept, [Next]_vars
  PROVE  Kept' /\ ProgressStep
<1>1. CASE UNCHANGED vars
  BY <1>1, KeptWhenStill DEF vars
<1>2. ASSUME NEW p \in Projects, OwnerEnqueue(p) \/ OwnerResume(p) \/ ApiCrash(p)
      PROVE  Kept' /\ ProgressStep
  <2>1. CASE OwnerEnqueue(p)
    BY <2>1, PlanIsStage, KeptByEnqueue DEF OwnerEnqueue
  <2>2. CASE OwnerResume(p)
    BY <2>2, KeptByOwnerResume
  <2>3. CASE ApiCrash(p)
    BY <2>3, KeptWhenStill DEF ApiCrash
  <2> QED BY <1>2, <2>1, <2>2, <2>3
<1>3. ASSUME NEW w \in Workers, NEW p \in Projects, Reconcile(w, p)
      PROVE  Kept' /\ ProgressStep
  <2>1. listed[w][p] \in 0..Last
    BY DEF IInv, TypeOK
  <2> QED BY <1>3, <2>1, KeptByEnqueue DEF Reconcile
<1>4. ASSUME NEW w \in Workers, Boot(w) \/ StartPolling(w) \/ Stop(w) \/ Release(w)
      PROVE  Kept' /\ ProgressStep
  <2>1. Timely
    BY DEF NoLateEnqueue
  <2>2. UNCHANGED <<job, run, stage, failed>>
    BY <1>4, <2>1, ReleaseIsEmpty DEF Boot, StartPolling, Stop, Release
  <2> QED BY <2>2, KeptWhenStill
<1>5. ASSUME NEW w \in Workers, Crash(w) \/ Exit(w) \/ FailRejected(w)
      PROVE  Kept' /\ ProgressStep
  BY <1>5, KeptWhenDies DEF Crash, Exit, FailRejected
<1>6. ASSUME NEW w \in Workers, Heartbeat(w) \/ RecoverExpiredLeases(w)
      PROVE  Kept' /\ ProgressStep
  <2>1. SameActive
    BY <1>6, ActiveByHeartbeat, ActiveByRecoverExpiredLeases
  <2>2. UNCHANGED <<run, stage, failed>>
    BY <1>6 DEF Heartbeat, RecoverExpiredLeases
  <2> QED BY <2>1, <2>2, KeptWhenQuiet
<1>7. ASSUME NEW w \in Workers, Claim(w)
      PROVE  Kept' /\ ProgressStep
  BY <1>7, ActiveByClaim, KeptWhenQuiet DEF Claim
<1>8. ASSUME NEW w \in Workers, StartSkips(w) \/ StartWorks(w) \/ WorkFails(w) \/ ReadProject(w)
                                  \/ Finish(w) \/ EventFails(w) \/ FailRetry(w)
      PROVE  Kept' /\ ProgressStep
  BY <1>8, KeptByStart, KeptByExecution
<1>9. ASSUME NEW w \in Workers, Save(w) \/ Complete(w) \/ FailDead(w) \/ FailProject(w)
      PROVE  Kept' /\ ProgressStep
  BY <1>9, KeptBySave, KeptByComplete, KeptByFailDead, KeptByFailProject
<1>10. ASSUME NEW j \in Jobs, LeaseExpires(j) \/ BackoffElapses(j)
       PROVE  Kept' /\ ProgressStep
  <2>1. SameActive
    BY <1>10, ActiveByTime
  <2>2. UNCHANGED <<run, stage, failed>>
    BY <1>10 DEF LeaseExpires, BackoffElapses
  <2> QED BY <2>1, <2>2, KeptWhenQuiet
<1> QED BY <1>1, <1>2, <1>3, <1>4, <1>5, <1>6, <1>7, <1>8, <1>9, <1>10 DEF Next, Execute

LEMMA InitKept ==
  ASSUME Init
  PROVE  Kept
<1>1. \A w \in Workers : run[w].pc = "idle"
  BY IdleRunFields DEF Init
<1> QED BY <1>1 DEF Kept, DeadIsAlone, DeadOn, WorksOnSaved

\* ... the document a handler works on is the saved one, and a dead letter has
\* no successor before its project is failed.
THEOREM KeptInvariant ==
  ASSUME NoLateEnqueue
  PROVE  Spec => []Kept
<1>1. Init => Kept
  BY InitKept
<1>2. Timely
  BY DEF NoLateEnqueue
<1>3. IInv /\ Held /\ Kept /\ [Next]_vars => Kept'
  BY StepKept
<1> QED BY <1>1, <1>2, <1>3, Invariant, HeldInvariant, PTL DEF Spec

\* ... and no project moves back, or out of FAILED, but by an owner command,
\* although handlers overwrite the whole document (Orchestrator.executeJob).
THEOREM ProgressKept ==
  ASSUME NoLateEnqueue
  PROVE  Spec => ProgressIsKept
<1>1. Timely
  BY DEF NoLateEnqueue
<1>2. IInv /\ Held /\ Kept /\ [Next]_vars => [ProgressStep]_vars
  BY StepKept
<1>3. ProgressIsKept <=> [][ProgressStep]_vars
  BY DEF ProgressIsKept, ProgressStep
<1> QED BY <1>1, <1>2, <1>3, Invariant, HeldInvariant, KeptInvariant, PTL DEF Spec

-----------------------------------------------------------------------------
(* ... and no API crash, no owner in between: no plan is stranded *)

\* The API enqueues what it saved, the owner acts on projects nobody works on,
\* and a worker that has settled a row as DEAD neither dies nor loses the write
\* of FAILED: that takes a second fault after the one that made the job fail.
NoDoubleFault ==
  /\ NoLateEnqueue
  /\ Faults \cap {"apiCrash", "ownerRace"} = {}
  /\ \/ MaxFaults <= 1
     \/ "workError" \notin Faults
     \/ Faults \cap {"crash", "failLost"} = {}

\* A job may have failed.
Failing == "workError" \in Faults /\ faults >= 1

ReleasedIsIdle == \A w \in Workers : proc[w] = "released" => run[w].pc = "idle"

\* Nothing else makes a job fail, a handler that refuses the state included.
FailsByFault ==
  /\ \A w \in Workers : run[w].pc \in {"failed", "dead"} => Failing
  /\ \A p \in Projects : failed[p] => Failing

\* A handler starts from a stage its job has not passed.
WorksWithin == \A w \in Workers : run[w].pc = "working" => run[w].doc <= StageOf(w)

\* Without failures a project is at most one stage past its active row, ...
RowsNear ==
  ~Failing => \A j \in Jobs : Active(j) =>
    Plan(job[j].project) = Last \/ Plan(job[j].project) <= job[j].stage + 1

\* ... so that what is enqueued late, from a stale list, is at most that too.
RowlessIsFresh ==
  ~Failing => \A p \in Projects : ActiveJobs(p) = {} => Plan(p) \in {0, Last}

\* The plan a completion enqueues is the one of the saved document.
ReadIsPlan == \A w \in Workers : run[w].pc = "read" => run[w].doc = Plan(ProjectOf(w))

PlanHasRow ==
  \A p \in Projects : Plan(p) # Last => ActiveJobs(p) # {} \/ call[p] \/ DeadOn(p)

Planned == /\ ReleasedIsIdle /\ FailsByFault /\ WorksWithin /\ RowsNear
           /\ RowlessIsFresh /\ ReadIsPlan /\ PlanHasRow

\* Once a job may have failed, it may always.
LEMMA FailingStays ==
  ASSUME IInv, faults' \in Nat, faults' >= faults, Failing
  PROVE  Failing'
  BY DEF IInv, TypeOK, Failing

\* A fault is one that happens.
LEMMA FaultHappens ==
  ASSUME IInv, NEW kind, Fault(kind)
  PROVE  faults' \in Nat /\ faults' >= faults /\ faults' >= 1 /\ kind \in Faults
  BY DEF IInv, TypeOK, Fault

\* After a failure neither a crash nor a lost write of FAILED is left.
LEMMA NoSecondFault ==
  ASSUME NoDoubleFault, IInv, Failing, NEW kind \in {"crash", "failLost"}, Fault(kind)
  PROVE  FALSE
<1>1. faults < MaxFaults /\ faults >= 1 /\ faults \in Nat /\ MaxFaults \in Nat
  BY QueueAssumption DEF QueueAssumption, Failing, Fault, IInv, TypeOK
<1> QED BY <1>1 DEF NoDoubleFault, Failing, Fault

\* What was enqueued has a row.
LEMMA EnqueuedHasRow ==
  ASSUME IInv, NEW p \in Projects, NEW s \in 0..Last, Enqueue(p, s), s # Last
  PROVE  ActiveJobs(p)' # {}
<1>1. CASE UNCHANGED job /\ ActiveJobs(p) # {}
  BY <1>1 DEF ActiveJobs, Active
<1>2. CASE ActiveJobs(p) = {}
  <2>1. Free # {} /\ job' = [job EXCEPT ![NewRow] = QueuedRow(p, s)]
    BY <1>2 DEF Enqueue
  <2>2. PICK n \in Jobs : n = NewRow
    BY <2>1, NewRowIsAbsent
  <2>3. PICK q : q = QueuedRow(p, s)
    OBVIOUS
  <2>4. q.status = "QUEUED" /\ q.project = p
    BY <2>3 DEF QueuedRow, AbsentRow
  <2>5. \A i \in Jobs : job'[i] = IF i = n THEN q ELSE job[i]
    <3>1. job' = [job EXCEPT ![n] = q]
      BY <2>1, <2>2, <2>3
    <3> QED BY <3>1, OneRowWritten
  <2> QED BY <2>4, <2>5 DEF ActiveJobs, Active
<1> QED BY <1>1, <1>2 DEF Enqueue

\* Where the executions are after a step that makes none dead.
RunsGoOn ==
  \A v \in Workers :
    \/ run'[v] = run[v]
    \/ /\ run[v].pc # "dead" /\ run'[v].pc # "dead"
       /\ run'[v].pc = "failed" => Failing'
       /\ run'[v].pc \in {"working", "read"} => run[v].pc # "idle" /\ run'[v].job = run[v].job
       /\ run'[v].pc = "working" => run'[v].doc <= StageOf(v)
       /\ run'[v].pc = "read" => run'[v].doc = Plan(ProjectOf(v))

LEMMA ExecutionsPlanned ==
  ASSUME IInv, Planned, RowsStay, RunsGoOn, faults' \in Nat, faults' >= faults,
         UNCHANGED <<stage, failed>>
  PROVE  /\ FailsByFault' /\ WorksWithin' /\ ReadIsPlan'
         /\ \A p \in Projects : DeadOn(p) => DeadOn(p)'
<1>1. FailsByFault'
  BY FailingStays DEF Planned, FailsByFault, RunsGoOn
<1>2. ASSUME NEW v \in Workers, run'[v].pc \in {"working", "read", "dead"}
      PROVE  /\ run[v].pc # "idle"
             /\ run'[v] = run[v] => ProjectOf(v)' = ProjectOf(v) /\ StageOf(v)' = StageOf(v)
             /\ run'[v].pc # "dead" => ProjectOf(v)' = ProjectOf(v) /\ StageOf(v)' = StageOf(v)
  <2>1. run[v].pc # "idle" /\ run'[v].job = run[v].job
    BY <1>2 DEF RunsGoOn
  <2> QED BY <2>1, SameExecution
<1>3. WorksWithin'
  BY <1>2 DEF Planned, WorksWithin, RunsGoOn
<1>4. \A p \in Projects : Plan(p)' = Plan(p)
  BY DEF Plan
<1>5. ReadIsPlan'
  <2> SUFFICES ASSUME NEW v \in Workers, run'[v].pc = "read"
               PROVE  run'[v].doc = Plan(ProjectOf(v))'
    BY DEF ReadIsPlan
  <2>1. run[v].pc # "idle" /\ ProjectOf(v)' = ProjectOf(v)
    BY <1>2
  <2>2. ProjectOf(v) \in Projects
    BY <2>1, RowOfExecution
  <2>3. run'[v].doc = Plan(ProjectOf(v))
    BY DEF Planned, ReadIsPlan, RunsGoOn
  <2> QED BY <2>1, <2>3 DEF Plan
<1>6. ASSUME NEW p \in Projects, DeadOn(p)
      PROVE  DeadOn(p)'
  <2>1. PICK v \in Workers : run[v].pc = "dead" /\ ProjectOf(v) = p
    BY <1>6 DEF DeadOn
  <2>2. run'[v] = run[v]
    BY <2>1 DEF RunsGoOn
  <2>3. ProjectOf(v)' = p
    BY <2>1, <2>2, SameExecution
  <2> QED BY <2>1, <2>2, <2>3 DEF DeadOn
<1> QED BY <1>1, <1>3, <1>5, <1>6

\* The same rows are active, of the same documents.
LEMMA PlannedWhenQuiet ==
  ASSUME IInv, Planned, SameActive, RunsGoOn, faults' \in Nat, faults' >= faults,
         UNCHANGED <<stage, failed>>,
         \A p \in Projects : Plan(p) # Last /\ call[p] => call'[p] \/ ActiveJobs(p) # {},
         \A v \in Workers : proc'[v] = "released" => run'[v].pc = "idle"
  PROVE  Planned'
<1>1. /\ FailsByFault' /\ WorksWithin' /\ ReadIsPlan'
      /\ \A p \in Projects : DeadOn(p) => DeadOn(p)'
  BY ExecutionsPlanned DEF SameActive
<1>2. \A p \in Projects : Plan(p)' = Plan(p) /\ ActiveJobs(p)' = ActiveJobs(p)
  BY SameActiveJobs DEF Plan
<1>3. Failing => Failing'
  BY FailingStays
<1>4. RowsNear'
  <2> SUFFICES ASSUME ~Failing', NEW j \in Jobs, Active(j)'
               PROVE  Plan(job[j].project)' = Last \/ Plan(job[j].project)' <= job'[j].stage + 1
    BY DEF RowsNear
  <2>1. Active(j) /\ job'[j].project = job[j].project /\ job'[j].stage = job[j].stage
    BY DEF SameActive, RowsStay, Active
  <2>2. Plan(job[j].project)' = Plan(job[j].project)
    BY <2>1 DEF Plan
  <2> QED BY <1>3, <2>1, <2>2 DEF Planned, RowsNear
<1>5. RowlessIsFresh'
  BY <1>2, <1>3 DEF Planned, RowlessIsFresh
<1>6. PlanHasRow'
  BY <1>1, <1>2 DEF Planned, PlanHasRow
<1>7. ReleasedIsIdle'
  BY DEF ReleasedIsIdle
<1> QED BY <1>1, <1>4, <1>5, <1>6, <1>7 DEF Planned

-----------------------------------------------------------------------------
(* The actions, one by one *)

LEMMA PlannedByEnqueue ==
  ASSUME IInv, Planned, NEW p \in Projects, NEW s \in 0..Last, Enqueue(p, s),
         UNCHANGED <<run, proc, stage, failed, faults>>,
         \A q \in Projects : call'[q] = call[q] \/ (q = p /\ s = Plan(p))
  PROVE  Planned'
<1>1. RowsStay /\ faults' \in Nat /\ faults' >= faults
  BY ActiveByEnqueue DEF IInv, TypeOK
<1>2. RunsGoOn /\ \A v \in Workers : proc'[v] = "released" => run'[v].pc = "idle"
  BY DEF RunsGoOn, Planned, ReleasedIsIdle
<1>3. CASE SameActive
  <2>1. ASSUME NEW q \in Projects, Plan(q) # Last, call[q]
        PROVE  call'[q] \/ ActiveJobs(q) # {}
    <3>1. CASE call'[q] = call[q]
      BY <2>1, <3>1
    <3>2. CASE q = p /\ s = Plan(p)
      <4>1. ActiveJobs(q)' # {}
        BY <2>1, <3>2, EnqueuedHasRow
      <4> QED BY <1>3, <4>1, SameActiveJobs
    <3> QED BY <3>1, <3>2
  <2> QED BY <1>1, <1>2, <1>3, <2>1, PlannedWhenQuiet
<1>4. CASE ~SameActive
  <2>1. /\ s # Last /\ ActiveJobs(p) = {}
        /\ \E n \in Jobs : /\ job'[n].project = p /\ job'[n].stage = s
                           /\ Active(n)' /\ ~Active(n)
                           /\ \A i \in Jobs \ {n} : job'[i] = job[i]
    BY <1>4, ActiveByEnqueue
  <2>2. PICK n \in Jobs : /\ job'[n].project = p /\ job'[n].stage = s
                          /\ Active(n)' /\ ~Active(n)
                          /\ \A i \in Jobs \ {n} : job'[i] = job[i]
    BY <2>1
  <2>3. /\ FailsByFault' /\ WorksWithin' /\ ReadIsPlan' /\ ReleasedIsIdle'
        /\ \A q \in Projects : DeadOn(q) => DeadOn(q)'
    BY <1>1, <1>2, ExecutionsPlanned DEF ReleasedIsIdle
  <2>4. \A q : Plan(q)' = Plan(q)
    BY DEF Plan
  <2>5. Failing' <=> Failing
    BY DEF Failing
  <2>6. RowsNear'
    <3> SUFFICES ASSUME ~Failing, NEW j \in Jobs, Active(j)'
                 PROVE  \/ Plan(job'[j].project) = Last
                        \/ Plan(job'[j].project) <= job'[j].stage + 1
      BY <2>5 DEF RowsNear, Plan
    <3>1. CASE j = n
      <4>1. Plan(p) \in {0, Last}
        BY <2>1 DEF Planned, RowlessIsFresh
      <4>2. s + 1 >= 0 /\ job'[j].stage = s /\ job'[j].project = p
        BY <2>2, <3>1
      <4> QED BY <4>1, <4>2
    <3>2. CASE j # n
      <4>1. job'[j] = job[j] /\ Active(j)
        BY <2>2, <3>2 DEF Active
      <4> QED BY <4>1 DEF Planned, RowsNear
    <3> QED BY <3>1, <3>2
  <2>7. \A q \in Projects : ActiveJobs(q) # {} => ActiveJobs(q)' # {}
    BY <2>2 DEF ActiveJobs, Active
  <2>8. RowlessIsFresh'
    BY <2>4, <2>5, <2>7 DEF Planned, RowlessIsFresh
  <2>9. PlanHasRow'
    <3> SUFFICES ASSUME NEW q \in Projects, Plan(q) # Last
                 PROVE  ActiveJobs(q)' # {} \/ call'[q] \/ DeadOn(q)'
      BY <2>4 DEF PlanHasRow
    <3>1. CASE q = p
      BY <2>2, <3>1 DEF ActiveJobs
    <3>2. CASE q # p
      BY <2>3, <2>7, <3>2 DEF Planned, PlanHasRow
    <3> QED BY <3>1, <3>2
  <2> QED BY <2>3, <2>6, <2>8, <2>9 DEF Planned
<1> QED BY <1>3, <1>4

LEMMA PlannedByOwnerResume ==
  ASSUME NoDoubleFault, IInv, Planned, NEW p \in Projects, OwnerResume(p)
  PROVE  Planned'
<1>1. /\ UNCHANGED <<job, run, proc, faults>>
      /\ ActiveJobs(p) = {} /\ ~Working(p)
  BY DEF OwnerResume, NoDoubleFault
<1>2. /\ failed' = [failed EXCEPT ![p] = FALSE]
      /\ call' = [call EXCEPT ![p] = TRUE]
      /\ ~failed[p] => stage' = [stage EXCEPT ![p] = 0]
      /\ \E t : stage' = [stage EXCEPT ![p] = t]
  BY DEF OwnerResume
<1>3. /\ \A q \in Projects \ {p} : /\ stage'[q] = stage[q] /\ failed'[q] = failed[q]
                                   /\ call'[q] = call[q]
      /\ ~failed'[p] /\ call'[p]
      /\ ~failed[p] => stage'[p] = 0
  BY <1>2 DEF IInv, TypeOK
<1>4. \A q \in Projects \ {p} : Plan(q)' = Plan(q)
  BY <1>3 DEF Plan
<1>5. \A q : ActiveJobs(q)' = ActiveJobs(q)
  BY <1>1 DEF ActiveJobs, Active
<1>6. \A v \in Workers : run[v].pc # "idle" => ProjectOf(v) \in Projects \ {p}
  BY <1>1, RowOfExecution DEF Working
<1>7. Failing' <=> Failing
  BY <1>1 DEF Failing
<1>8. ReleasedIsIdle' /\ WorksWithin'
  BY <1>1 DEF Planned, ReleasedIsIdle, WorksWithin, StageOf
<1>9. FailsByFault'
  BY <1>1, <1>3, <1>7 DEF Planned, FailsByFault
<1>10. RowsNear'
  <2> SUFFICES ASSUME ~Failing, NEW j \in Jobs, Active(j)
               PROVE  Plan(job[j].project)' = Last \/ Plan(job[j].project)' <= job[j].stage + 1
    BY <1>1, <1>7 DEF RowsNear, Active
  <2>1. job[j].project \in Projects \ {p}
    BY <1>1 DEF ActiveJobs, Active, IInv, InsertedHasProject
  <2>2. Plan(job[j].project)' = Plan(job[j].project)
    BY <1>1, <1>4, <2>1
  <2> QED BY <2>2 DEF Planned, RowsNear
<1>11. RowlessIsFresh'
  <2> SUFFICES ASSUME ~Failing, NEW q \in Projects, ActiveJobs(q) = {}
               PROVE  Plan(q)' \in {0, Last}
    BY <1>5, <1>7 DEF RowlessIsFresh
  <2>1. CASE q = p
    <3>1. ~failed[p]
      BY DEF Planned, FailsByFault
    <3> QED BY <1>3, <2>1, <3>1 DEF Plan
  <2>2. CASE q # p
    BY <1>4, <2>2 DEF Planned, RowlessIsFresh
  <2> QED BY <2>1, <2>2
<1>12. ReadIsPlan'
  <2> SUFFICES ASSUME NEW v \in Workers, run[v].pc = "read"
               PROVE  run[v].doc = Plan(ProjectOf(v))'
    BY <1>1 DEF ReadIsPlan
  <2>1. ProjectOf(v)' = ProjectOf(v) /\ ProjectOf(v) \in Projects \ {p}
    BY <1>1, <1>6 DEF ProjectOf
  <2>2. Plan(ProjectOf(v))' = Plan(ProjectOf(v))
    BY <1>4, <2>1 DEF Plan
  <2> QED BY <2>2 DEF Planned, ReadIsPlan
<1>13. PlanHasRow'
  <2> SUFFICES ASSUME NEW q \in Projects, Plan(q)' # Last
               PROVE  ActiveJobs(q)' # {} \/ call'[q] \/ DeadOn(q)'
    BY DEF PlanHasRow
  <2>1. CASE q = p
    BY <1>3, <2>1
  <2>2. CASE q # p
    <3>1. DeadOn(q) => DeadOn(q)'
      BY <1>1 DEF DeadOn, ProjectOf
    <3> QED BY <1>3, <1>4, <1>5, <2>2, <3>1 DEF Planned, PlanHasRow
  <2> QED BY <2>1, <2>2
<1> QED BY <1>8, <1>9, <1>10, <1>11, <1>12, <1>13 DEF Planned

\* The own row of the execution is the only one whose project moves on.
LEMMA PlannedBySave ==
  ASSUME IInv, Held, Kept, Planned, NEW w \in Workers, Save(w)
  PROVE  Planned'
<1>1. /\ Executing(w) /\ run[w].pc = "working" /\ Running(w)
      /\ UNCHANGED <<job, call, proc, faults>>
  BY DEF Save, At, Executing
<1>2. PICK p \in Projects : p = ProjectOf(w)
  BY <1>1, ExecutedRow DEF Held
<1>3. PICK j \in Jobs : j = run[w].job /\ ActiveJobs(p) = {j}
  BY <1>1, <1>2, ExecutedRow, OnlyOwnActive DEF Held
<1>4. /\ run[w] \in Run /\ run[w].doc \in Nat /\ job[j].stage \in Nat
      /\ run[w].doc <= job[j].stage /\ job[j].project = p
  <2>1. run[w] \in Run /\ run[w].doc \in Nat
    BY <1>1, RowOfExecution, QueueAssumption DEF QueueAssumption, Run
  <2>2. job[j].stage = StageOf(w) /\ job[j].stage \in Nat /\ job[j].project = p
    BY <1>1, <1>2, <1>3, RowOfExecution, QueueAssumption DEF QueueAssumption
  <2> QED BY <1>1, <2>1, <2>2 DEF Planned, WorksWithin
<1>5. /\ stage' = [stage EXCEPT ![p] = run[w].doc + 1]
      /\ failed' = [failed EXCEPT ![p] = FALSE]
  BY <1>2 DEF Save
<1>6. /\ stage'[p] = run[w].doc + 1 /\ ~failed'[p]
      /\ \A q \in Projects \ {p} : stage'[q] = stage[q] /\ failed'[q] = failed[q]
  BY <1>5 DEF IInv, TypeOK
<1>7. /\ Plan(p)' = run[w].doc + 1
      /\ \A q \in Projects \ {p} : Plan(q)' = Plan(q)
  BY <1>6 DEF Plan
<1>8. PICK e : run' = [run EXCEPT ![w] = e] /\ e.pc \in {"claimed", "saved"} /\ e.job = run[w].job
  <2>1. PICK pc \in {"claimed", "saved"} : Goes(w, pc)
    BY DEF Save
  <2>2. [run[w] EXCEPT !.pc = pc].pc = pc /\ [run[w] EXCEPT !.pc = pc].job = run[w].job
    BY <1>4 DEF Run
  <2> QED BY <2>1, <2>2 DEF Goes
<1>9. \A v \in Workers : run'[v] = IF v = w THEN e ELSE run[v]
  BY <1>8, OneRunWritten
<1>10. /\ \A v : ActiveJobs(v)' = ActiveJobs(v)
       /\ Failing' <=> Failing
       /\ \A v \in Workers : ProjectOf(v)' = ProjectOf(v) /\ StageOf(v)' = StageOf(v)
  BY <1>1, <1>8, <1>9 DEF ActiveJobs, Active, Failing, ProjectOf, StageOf
<1>11. ReleasedIsIdle'
  BY <1>1, <1>9 DEF Planned, ReleasedIsIdle
<1>12. FailsByFault' /\ WorksWithin'
  BY <1>6, <1>8, <1>9, <1>10 DEF Planned, FailsByFault, WorksWithin
<1>13. RowsNear'
  <2> SUFFICES ASSUME ~Failing, NEW i \in Jobs, Active(i)
               PROVE  Plan(job[i].project)' = Last \/ Plan(job[i].project)' <= job[i].stage + 1
    BY <1>1, <1>10 DEF RowsNear, Active
  <2>1. CASE i = j
    BY <1>1, <1>4, <1>7, <2>1
  <2>2. CASE i # j
    <3>1. job[i].project \in Projects \ {p}
      BY <1>3, <2>2 DEF ActiveJobs, Active, IInv, InsertedHasProject
    <3>2. Plan(job[i].project)' = Plan(job[i].project)
      BY <1>1, <1>7, <3>1
    <3> QED BY <3>2 DEF Planned, RowsNear
  <2> QED BY <2>1, <2>2
<1>14. RowlessIsFresh'
  BY <1>3, <1>7, <1>10 DEF Planned, RowlessIsFresh
<1>15. ReadIsPlan'
  <2> SUFFICES ASSUME NEW v \in Workers, run'[v].pc = "read"
               PROVE  run'[v].doc = Plan(ProjectOf(v))'
    BY DEF ReadIsPlan
  <2>1. v # w /\ run'[v] = run[v] /\ run[v].pc = "read" /\ Executing(v)
    BY <1>8, <1>9 DEF Executing
  <2>2. ProjectOf(v) \in Projects \ {p}
    BY <1>1, <1>2, <2>1, ExecutedRow, HeldIsExclusive DEF ExclusiveExecution, Held
  <2>3. Plan(ProjectOf(v))' = Plan(ProjectOf(v))
    BY <1>7, <1>10, <2>2 DEF Plan
  <2> QED BY <2>1, <2>3 DEF Planned, ReadIsPlan
<1>16. PlanHasRow'
  <2> SUFFICES ASSUME NEW q \in Projects, Plan(q)' # Last
               PROVE  ActiveJobs(q)' # {} \/ call'[q] \/ DeadOn(q)'
    BY DEF PlanHasRow
  <2>1. CASE q = p
    BY <1>3, <1>10, <2>1
  <2>2. CASE q # p
    <3>1. DeadOn(q) => DeadOn(q)'
      BY <1>1, <1>9, <1>10 DEF DeadOn
    <3> QED BY <1>1, <1>7, <1>10, <2>2, <3>1 DEF Planned, PlanHasRow
  <2> QED BY <2>1, <2>2
<1> QED BY <1>11, <1>12, <1>13, <1>14, <1>15, <1>16 DEF Planned

LEMMA PlannedByComplete ==
  ASSUME IInv, Held, Planned, NEW w \in Workers, Complete(w)
  PROVE  Planned'
<1>1. /\ Executing(w) /\ run[w].pc = "read" /\ Goes(w, "completed")
      /\ UNCHANGED <<stage, failed, call, proc, faults>>
  BY Completes
<1>2. PICK j \in Jobs : j = run[w].job /\ job[j].status = "RUNNING" /\ job[j] \in Row
  BY <1>1, ExecutedRow DEF Held
<1>3. PICK p \in Projects : p = ProjectOf(w) /\ p = job[j].project /\ run[w].doc = Plan(p)
  BY <1>1, <1>2, ExecutedRow DEF Held, Planned, ReadIsPlan, ProjectOf
<1>4. ActiveJobs(p) = {j}
  BY <1>1, <1>2, <1>3, OnlyOwnActive DEF Held
<1>5. PICK e : run' = [run EXCEPT ![w] = e] /\ e.pc = "completed"
  <2>1. [run[w] EXCEPT !.pc = "completed"].pc = "completed"
    BY <1>1, ExecutedRow DEF Held, Run
  <2> QED BY <1>1, <2>1 DEF Goes
<1>6. \A v \in Workers : run'[v] = IF v = w THEN e ELSE run[v]
  BY <1>5, OneRunWritten
<1>7. RunsGoOn /\ ReleasedIsIdle'
  <2>1. proc[w] # "released"
    BY <1>1 DEF Planned, ReleasedIsIdle
  <2> QED BY <1>1, <1>5, <1>6, <2>1 DEF RunsGoOn, Planned, ReleasedIsIdle
<1>8. /\ job'[j].status = "COMPLETED" /\ job'[j].project = p /\ job'[j].stage = job[j].stage
      /\ \A i \in Jobs \ {j} : job[i].status # "ABSENT" => job'[i] = job[i]
      /\ \A i \in Jobs \ {j} :
           job'[i] = job[i] \/ (job'[i].project = p /\ job'[i].stage = Plan(p))
      /\ Plan(p) # Last => \E n \in Jobs : job'[n].status = "QUEUED" /\ job'[n].project = p
  <2>1. job'[j].status = "COMPLETED" /\ job'[j].project = p /\ job'[j].stage = job[j].stage
    BY <1>2, <1>3, CompletedTable
  <2>2. \/ Plan(p) = Last /\ \A i \in Jobs \ {j} : job'[i] = job[i]
        \/ \E n \in Jobs \ {j} :
             /\ job[n].status = "ABSENT" /\ job'[n].status = "QUEUED"
             /\ job'[n].project = p /\ job'[n].stage = Plan(p)
             /\ \A i \in Jobs \ {n, j} : job'[i] = job[i]
    <3>1. \/ run[w].doc = Last /\ \A i \in Jobs \ {j} : job'[i] = job[i]
          \/ \E n \in Jobs \ {j} :
               /\ job[n].status = "ABSENT" /\ job'[n].status = "QUEUED"
               /\ job'[n].project = ProjectOf(w) /\ job'[n].stage = run[w].doc
               /\ \A i \in Jobs \ {n, j} : job'[i] = job[i]
      BY <1>2, CompletedTable
    <3> QED BY <1>3, <3>1
  <2> QED BY <2>1, <2>2
<1>9. RowsStay
  BY <1>3, <1>8 DEF RowsStay
<1>10. /\ FailsByFault' /\ WorksWithin' /\ ReadIsPlan'
       /\ \A q \in Projects : DeadOn(q) => DeadOn(q)'
  BY <1>1, <1>7, <1>9, ExecutionsPlanned DEF IInv, TypeOK
<1>11. /\ \A q : Plan(q)' = Plan(q)
       /\ Failing' <=> Failing
  BY <1>1 DEF Plan, Failing
<1>12. RowsNear'
  <2> SUFFICES ASSUME ~Failing, NEW i \in Jobs, Active(i)'
               PROVE  \/ Plan(job'[i].project) = Last
                      \/ Plan(job'[i].project) <= job'[i].stage + 1
    BY <1>1, <1>11 DEF RowsNear, Plan
  <2>1. i # j
    BY <1>8 DEF Active
  <2>2. CASE job'[i] = job[i]
    <3>1. Active(i)
      BY <2>2 DEF Active
    <3> QED BY <2>2, <3>1 DEF Planned, RowsNear
  <2>3. CASE job'[i].project = p /\ job'[i].stage = Plan(p)
    <3>1. Plan(p) \in Nat
      BY PlanIsStage, QueueAssumption DEF QueueAssumption
    <3> QED BY <2>3, <3>1
  <2> QED BY <1>8, <2>1, <2>2, <2>3
<1>13. \A q \in Projects \ {p} : ActiveJobs(q) # {} => ActiveJobs(q)' # {}
  <2> SUFFICES ASSUME NEW q \in Projects \ {p}, NEW i \in ActiveJobs(q)
               PROVE  i \in ActiveJobs(q)'
    OBVIOUS
  <2>1. i \in Jobs \ {j} /\ Active(i) /\ job[i].project = q
    BY <1>3 DEF ActiveJobs
  <2>2. job'[i] = job[i]
    BY <1>8, <2>1 DEF Active
  <2> QED BY <2>1, <2>2 DEF ActiveJobs, Active
<1>14. Plan(p) # Last => ActiveJobs(p)' # {}
  BY <1>8 DEF ActiveJobs, Active
<1>15. RowlessIsFresh'
  BY <1>11, <1>13, <1>14 DEF Planned, RowlessIsFresh
<1>16. PlanHasRow'
  BY <1>1, <1>10, <1>11, <1>13, <1>14 DEF Planned, PlanHasRow
<1> QED BY <1>7, <1>10, <1>12, <1>15, <1>16 DEF Planned

LEMMA PlannedByFailDead ==
  ASSUME IInv, Held, Planned, NEW w \in Workers, FailDead(w)
  PROVE  Planned'
<1>1. run[w].pc = "failed" /\ Executing(w)
  BY DEF FailDead, At, Executing
<1>2. Failing
  BY <1>1 DEF Planned, FailsByFault
<1>3. PICK p \in Projects : p = ProjectOf(w)
  BY <1>1, ExecutedRow DEF Held
<1>4. /\ RowsStay /\ \A i \in Jobs : Active(i) /\ job[i].project # p => Active(i)'
      /\ UNCHANGED <<stage, failed, call, proc, listed, faults>>
      /\ \A v \in Workers \ {w} : run'[v] = run[v]
      /\ run'[w].pc = "dead" /\ run'[w].job = run[w].job
  BY <1>3, ActiveByFailDead
<1>5. Failing' /\ \A q : Plan(q)' = Plan(q)
  BY <1>2, <1>4 DEF Failing, Plan
<1>6. \A v \in Workers : run[v].pc # "idle" =>
        ProjectOf(v)' = ProjectOf(v) /\ StageOf(v)' = StageOf(v)
  BY <1>4, SameExecution
<1>7. ReleasedIsIdle'
  BY <1>1, <1>4 DEF Planned, ReleasedIsIdle
<1>8. FailsByFault' /\ RowsNear' /\ RowlessIsFresh'
  BY <1>5 DEF FailsByFault, RowsNear, RowlessIsFresh
<1>9. WorksWithin'
  BY <1>4, <1>6 DEF Planned, WorksWithin
<1>10. ReadIsPlan'
  <2> SUFFICES ASSUME NEW v \in Workers, run'[v].pc = "read"
               PROVE  run'[v].doc = Plan(ProjectOf(v))'
    BY DEF ReadIsPlan
  <2>1. run'[v] = run[v] /\ run[v].pc = "read" /\ ProjectOf(v)' = ProjectOf(v)
    BY <1>4, <1>6
  <2> QED BY <1>4, <2>1 DEF Planned, ReadIsPlan, Plan
<1>11. PlanHasRow'
  <2> SUFFICES ASSUME NEW q \in Projects, Plan(q) # Last
               PROVE  ActiveJobs(q)' # {} \/ call'[q] \/ DeadOn(q)'
    BY <1>5 DEF PlanHasRow
  <2>1. CASE q = p
    BY <1>1, <1>3, <1>4, <1>6, <2>1 DEF DeadOn
  <2>2. CASE q # p
    <3>1. ActiveJobs(q) # {} => ActiveJobs(q)' # {}
      BY <1>4, <2>2 DEF ActiveJobs, Active, RowsStay
    <3>2. DeadOn(q) => DeadOn(q)'
      BY <1>4, <1>6 DEF DeadOn
    <3> QED BY <1>4, <3>1, <3>2 DEF Planned, PlanHasRow
  <2> QED BY <2>1, <2>2
<1> QED BY <1>7, <1>8, <1>9, <1>10, <1>11 DEF Planned

LEMMA PlannedByFailProject ==
  ASSUME NoDoubleFault, IInv, Held, Kept, Planned, NEW w \in Workers, FailProject(w)
  PROVE  Planned'
<1>1. /\ run[w].pc = "dead" /\ UNCHANGED <<job, stage, call, proc>>
      /\ run' = [run EXCEPT ![w] = IdleRun]
  BY DEF FailProject, At
<1>2. Failing
  BY <1>1 DEF Planned, FailsByFault
<1>3. PICK p \in Projects : p = ProjectOf(w)
  BY <1>1, RowOfExecution
<1>4. /\ failed' = [failed EXCEPT ![p] = failed[p] \/ stage[p] # Last]
      /\ UNCHANGED faults
  BY <1>2, <1>3, NoSecondFault DEF FailProject
<1>5. /\ failed'[p] = (failed[p] \/ stage[p] # Last)
      /\ \A q \in Projects \ {p} : failed'[q] = failed[q]
  BY <1>4 DEF IInv, TypeOK
<1>6. Plan(p)' = Last /\ \A q \in Projects \ {p} : Plan(q)' = Plan(q)
  BY <1>1, <1>5 DEF Plan
<1>7. \A v \in Workers : run'[v] = IF v = w THEN IdleRun ELSE run[v]
  BY <1>1, OneRunWritten
<1>8. Failing'
  BY <1>2, <1>4 DEF Failing
<1>9. /\ \A q : ActiveJobs(q)' = ActiveJobs(q)
      /\ \A v \in Workers \ {w} : /\ run'[v] = run[v]
                                  /\ ProjectOf(v)' = ProjectOf(v) /\ StageOf(v)' = StageOf(v)
  BY <1>1, <1>7 DEF ActiveJobs, Active, ProjectOf, StageOf
<1>10. run'[w].pc = "idle"
  BY <1>7, IdleRunFields
<1>11. ReleasedIsIdle' /\ WorksWithin'
  BY <1>1, <1>9, <1>10 DEF Planned, ReleasedIsIdle, WorksWithin
<1>12. FailsByFault' /\ RowsNear' /\ RowlessIsFresh'
  BY <1>8 DEF FailsByFault, RowsNear, RowlessIsFresh
<1>13. ActiveJobs(p) = {}
  BY <1>1, <1>3 DEF Kept, DeadIsAlone, DeadOn
<1>14. ReadIsPlan'
  <2> SUFFICES ASSUME NEW v \in Workers, run'[v].pc = "read"
               PROVE  run'[v].doc = Plan(ProjectOf(v))'
    BY DEF ReadIsPlan
  <2>1. v # w /\ run[v].pc = "read" /\ Executing(v) /\ run'[v] = run[v]
    BY <1>9, <1>10 DEF Executing
  <2>2. ProjectOf(v) \in Projects \ {p}
    BY <1>13, <2>1, ExecutedRow DEF Held
  <2>3. Plan(ProjectOf(v))' = Plan(ProjectOf(v))
    <3>1. ProjectOf(v)' = ProjectOf(v)
      BY <1>9, <2>1
    <3> QED BY <1>6, <2>2, <3>1 DEF Plan
  <2> QED BY <2>1, <2>3 DEF Planned, ReadIsPlan
<1>15. PlanHasRow'
  <2> SUFFICES ASSUME NEW q \in Projects \ {p}, Plan(q) # Last
               PROVE  ActiveJobs(q)' # {} \/ call'[q] \/ DeadOn(q)'
    BY <1>6 DEF PlanHasRow
  <2>1. DeadOn(q) => DeadOn(q)'
    BY <1>3, <1>9 DEF DeadOn
  <2> QED BY <1>1, <1>9, <2>1 DEF Planned, PlanHasRow
<1> QED BY <1>11, <1>12, <1>14, <1>15 DEF Planned

\* A step of one execution that leaves the table and the documents.
LEMMA PlannedWhenOneMoves ==
  ASSUME IInv, Planned, NEW w \in Workers, NEW e, run' = [run EXCEPT ![w] = e],
         SameActive, UNCHANGED <<stage, failed, call, proc>>,
         faults' \in Nat, faults' >= faults,
         run[w].pc # "dead", e.pc # "dead", Running(w),
         run[w].pc # "idle",
         e.pc = "failed" => Failing',
         e.pc \in {"working", "read"} => e.job = run[w].job,
         e.pc = "working" => e.doc <= StageOf(w),
         e.pc = "read" => e.doc = Plan(ProjectOf(w))
  PROVE  Planned'
<1>1. \A v \in Workers : run'[v] = IF v = w THEN e ELSE run[v]
  BY OneRunWritten
<1>2. RunsGoOn
  BY <1>1 DEF RunsGoOn
<1>3. \A v \in Workers : proc'[v] = "released" => run'[v].pc = "idle"
  BY <1>1 DEF Planned, ReleasedIsIdle
<1> QED BY <1>2, <1>3, PlannedWhenQuiet

\* The row an execution starts with is locked with a live lease.
LEMMA StartsOwning ==
  ASSUME IInv, Held, NEW w \in Workers, Executing(w)
  PROVE  Owns(w, run[w].job)
<1>1. PICK j \in Jobs : /\ j = run[w].job /\ job[j] \in Row
                        /\ job[j].status = "RUNNING" /\ job[j].lockedBy = w /\ proc[w] # "down"
  BY ExecutedRow DEF Held
<1>2. job[j].lease # "none" /\ job[j].lease # "expired"
  BY <1>1 DEF Held, ExpiredIsDead, IInv, LockedIffRunning
<1>3. job[j].lease \in {"none", "live", "expired"}
  BY <1>1 DEF Row, Leases
<1> QED BY <1>1, <1>2, <1>3 DEF Owns

LEMMA PlannedByStart ==
  ASSUME IInv, Held, Planned, NEW w \in Workers, StartSkips(w) \/ StartWorks(w)
  PROVE  Planned'
<1>1. /\ run[w].pc = "claimed" /\ Executing(w) /\ Running(w) /\ run[w] \in Run
      /\ UNCHANGED <<job, stage, failed, call, proc, faults>>
  BY RowOfExecution DEF StartSkips, StartWorks, At, Executing
<1>2. SameActive /\ faults' \in Nat /\ faults' >= faults
  BY <1>1, StillTable DEF IInv, TypeOK
<1>3. \E e : /\ run' = [run EXCEPT ![w] = e] /\ e.pc \in {"saved", "failed", "working"}
             /\ e.pc = "failed" => Failing'
             /\ e.pc = "working" => e.job = run[w].job /\ e.doc <= StageOf(w)
  <2>1. CASE StartSkips(w) /\ Goes(w, "saved")
    <3>1. run' = [run EXCEPT ![w] = [run[w] EXCEPT !.pc = "saved"]]
      BY <2>1 DEF Goes
    <3>2. [run[w] EXCEPT !.pc = "saved"].pc = "saved"
      BY <1>1 DEF Run
    <3> QED BY <3>1, <3>2
  <2>2. CASE /\ StartSkips(w) /\ Throws(w, TRUE)
             /\ Plan(ProjectOf(w)) > StageOf(w) + 1 /\ Plan(ProjectOf(w)) # Last
    <3>1. PICK j \in Jobs : /\ j = run[w].job /\ Active(j)
                            /\ job[j].project = ProjectOf(w) /\ job[j].stage = StageOf(w)
      BY <1>1, ExecutedRow DEF Held, Active, ProjectOf, StageOf
    <3>2. Plan(ProjectOf(w)) \in Nat /\ StageOf(w) \in Nat
      BY <1>1, RowOfExecution, PlanIsStage, QueueAssumption DEF QueueAssumption
    <3>3. Failing
      BY <2>2, <3>1, <3>2 DEF Planned, RowsNear
    <3>4. Failing'
      BY <1>1, <3>3 DEF Failing
    <3> QED BY <1>1, <2>2, <3>4, ThrowsRun DEF Throws
  <2>3. CASE StartWorks(w)
    <3>1. PICK s : /\ s = Plan(ProjectOf(w)) /\ s <= StageOf(w)
                   /\ run' = [run EXCEPT ![w] = [run[w] EXCEPT !.pc = "working", !.doc = s]]
      BY <1>1, <2>3, StartsOwning DEF StartWorks
    <3>2. PICK e : e = [run[w] EXCEPT !.pc = "working", !.doc = s]
      OBVIOUS
    <3>3. e.pc = "working" /\ e.doc = s /\ e.job = run[w].job
      BY <1>1, <3>2 DEF Run
    <3> QED BY <3>1, <3>2, <3>3
  <2> QED BY <2>1, <2>2, <2>3 DEF StartSkips
<1>4. PICK e : /\ run' = [run EXCEPT ![w] = e] /\ e.pc \in {"saved", "failed", "working"}
               /\ e.pc = "failed" => Failing'
               /\ e.pc = "working" => e.job = run[w].job /\ e.doc <= StageOf(w)
  BY <1>3
<1> QED BY <1>1, <1>2, <1>4, PlannedWhenOneMoves

LEMMA PlannedByExecution ==
  ASSUME NoDoubleFault, IInv, Held, Planned, NEW w \in Workers,
         WorkFails(w) \/ ReadProject(w) \/ Finish(w) \/ FailRetry(w)
  PROVE  Planned'
<1>1. /\ run[w].pc \notin {"idle", "dead"} /\ Running(w) /\ run[w] \in Run
      /\ UNCHANGED <<stage, failed, call, proc>>
  BY RowOfExecution DEF WorkFails, ReadProject, Finish, FailRetry, At
<1>2. SameActive
  <2>1. CASE FailRetry(w)
    BY <2>1, ActiveByFailRetry
  <2>2. CASE ~FailRetry(w)
    BY <2>2, StillTable DEF WorkFails, ReadProject, Finish
  <2> QED BY <2>1, <2>2
<1>3. /\ faults' \in Nat /\ faults' >= faults
      /\ WorkFails(w) => Failing'
  <2>1. CASE WorkFails(w)
    <3>1. Fault("workError")
      BY <2>1 DEF WorkFails
    <3>2. faults' \in Nat /\ faults' >= faults /\ faults' >= 1 /\ "workError" \in Faults
      BY <3>1, FaultHappens
    <3> QED BY <3>2 DEF Failing
  <2>2. CASE ~WorkFails(w)
    <3>1. UNCHANGED faults
      BY <2>2 DEF ReadProject, Finish, FailRetry
    <3> QED BY <2>2, <3>1 DEF IInv, TypeOK
  <2> QED BY <2>1, <2>2
<1>4. \E e : /\ run' = [run EXCEPT ![w] = e] /\ e.pc \in {"failed", "read", "idle"}
             /\ e.pc = "failed" => Failing'
             /\ e.pc = "read" => e.job = run[w].job /\ e.doc = Plan(ProjectOf(w))
  <2>1. CASE WorkFails(w)
    <3>1. PICK t \in BOOLEAN : Throws(w, t)
      BY <2>1 DEF WorkFails
    <3> QED BY <1>1, <1>3, <2>1, <3>1, ThrowsRun DEF Throws
  <2>2. CASE ReadProject(w)
    <3>1. PICK e : e = [run[w] EXCEPT !.pc = "read", !.doc = Plan(ProjectOf(w))]
      OBVIOUS
    <3>2. e.pc = "read" /\ e.doc = Plan(ProjectOf(w)) /\ e.job = run[w].job
      BY <1>1, <3>1 DEF Run
    <3> QED BY <2>2, <3>1, <3>2 DEF ReadProject
  <2>3. CASE Finish(w) \/ FailRetry(w)
    BY <2>3, IdleRunFields DEF Finish, FailRetry
  <2> QED BY <2>1, <2>2, <2>3
<1>5. PICK e : /\ run' = [run EXCEPT ![w] = e] /\ e.pc \in {"failed", "read", "idle"}
               /\ e.pc = "failed" => Failing'
               /\ e.pc = "read" => e.job = run[w].job /\ e.doc = Plan(ProjectOf(w))
  BY <1>4
<1> QED BY <1>1, <1>2, <1>3, <1>5, PlannedWhenOneMoves

LEMMA PlannedWhenStill ==
  ASSUME IInv, Planned, SameActive, UNCHANGED <<run, stage, failed, call>>,
         faults' \in Nat, faults' >= faults,
         \A v \in Workers : proc'[v] = "released" => run[v].pc = "idle"
  PROVE  Planned'
<1>1. RunsGoOn
  BY DEF RunsGoOn
<1> QED BY <1>1, PlannedWhenQuiet

LEMMA PlannedByDies ==
  ASSUME NoDoubleFault, IInv, Held, Planned, NEW w \in Workers,
         Crash(w) \/ Exit(w) \/ FailRejected(w)
  PROVE  Planned'
<1>1. Dies(w) /\ UNCHANGED <<job, stage, failed, call>>
  BY DEF Crash, Exit, FailRejected
<1>2. /\ \A v \in Workers : run'[v] = IF v = w THEN IdleRun ELSE run[v]
      /\ \A v \in Workers : proc'[v] = IF v = w THEN "down" ELSE proc[v]
  BY <1>1 DEF Dies, IInv, TypeOK
<1>3. ~FailRejected(w)
  <2>1. ASSUME FailRejected(w)
        PROVE  FALSE
    <3>1. Executing(w)
      BY <2>1 DEF FailRejected, At, Executing
    <3> QED BY <2>1, <3>1, OnlyOwnActive DEF Held, FailRejected
  <2> QED BY <2>1
<1>4. /\ faults' \in Nat /\ faults' >= faults
      /\ run[w].pc # "dead"
  <2>1. CASE Crash(w)
    BY <2>1, FaultHappens, NoSecondFault DEF Crash, Planned, FailsByFault
  <2>2. CASE Exit(w)
    BY <2>2 DEF Exit, Planned, ReleasedIsIdle, IInv, TypeOK
  <2> QED BY <1>3, <2>1, <2>2
<1>5. RunsGoOn
  BY <1>2, <1>4, IdleRunFields DEF RunsGoOn
<1>6. \A v \in Workers : proc'[v] = "released" => run'[v].pc = "idle"
  BY <1>2 DEF Planned, ReleasedIsIdle
<1> QED BY <1>1, <1>4, <1>5, <1>6, StillTable, PlannedWhenQuiet

LEMMA PlannedByProcess ==
  ASSUME Timely, IInv, Planned, NEW w \in Workers,
         Boot(w) \/ StartPolling(w) \/ Stop(w) \/ Release(w)
  PROVE  Planned'
<1>1. PICK to : proc' = [proc EXCEPT ![w] = to] /\ (to = "released" => run[w].pc = "idle")
  <2>1. CASE Release(w)
    <3>1. run[w].job = None /\ proc' = [proc EXCEPT ![w] = "released"]
      BY <2>1, ReleaseIsEmpty
    <3> QED BY <3>1 DEF IInv, ExecutionHasRow
  <2>2. CASE Boot(w) \/ StartPolling(w) \/ Stop(w)
    BY <2>2 DEF Boot, StartPolling, Stop
  <2> QED BY <2>1, <2>2
<1>2. \A v \in Workers : proc'[v] = "released" => run[v].pc = "idle"
  BY <1>1 DEF IInv, TypeOK, Planned, ReleasedIsIdle
<1>3. UNCHANGED <<job, run, stage, failed, call>>
  BY ReleaseIsEmpty DEF Boot, StartPolling, Stop, Release
<1>4. faults' \in Nat /\ faults' >= faults
  <2>1. CASE Stop(w)
    <3>1. Fault("stop")
      BY <2>1 DEF Stop
    <3> QED BY <3>1, FaultHappens
  <2>2. CASE Release(w)
    <3>1. UNCHANGED faults
      BY <2>2 DEF Timely, Release, Fault
    <3> QED BY <3>1 DEF IInv, TypeOK
  <2>3. CASE Boot(w) \/ StartPolling(w)
    BY <2>3 DEF Boot, StartPolling, IInv, TypeOK
  <2> QED BY <2>1, <2>2, <2>3
<1> QED BY <1>2, <1>3, <1>4, StillTable, PlannedWhenStill

LEMMA PlannedByClaim ==
  ASSUME IInv, Planned, NEW w \in Workers, Claim(w)
  PROVE  Planned'
<1>1. UNCHANGED <<stage, failed, call, proc, faults>> /\ proc[w] = "up"
  BY DEF Claim
<1>2. RunsGoOn /\ SameActive
  BY ActiveByClaim DEF RunsGoOn
<1>3. \A v \in Workers : run'[v] = run[v] \/ v = w
  <2>1. \E e : run' = [run EXCEPT ![w] = e]
    BY DEF Claim
  <2> QED BY <2>1, OneRunWritten
<1>4. \A v \in Workers : proc'[v] = "released" => run'[v].pc = "idle"
  BY <1>1, <1>3 DEF Planned, ReleasedIsIdle
<1> QED BY <1>1, <1>2, <1>4, PlannedWhenQuiet DEF IInv, TypeOK

LEMMA PlannedByTime ==
  ASSUME NoDoubleFault, IInv, Planned, NEW j \in Jobs, LeaseExpires(j) \/ BackoffElapses(j)
  PROVE  Planned'
<1>1. SameActive
  BY ActiveByTime
<1>2. UNCHANGED <<run, proc, stage, failed, call, faults>>
  BY DEF NoDoubleFault, NoLateEnqueue, Timely, LeaseExpires, BackoffElapses, Fault
<1> QED BY <1>1, <1>2, PlannedWhenStill DEF Planned, ReleasedIsIdle, IInv, TypeOK

LEMMA StepPlanned ==
  ASSUME NoDoubleFault, IInv, Held, Kept, Planned, [Next]_vars
  PROVE  Planned'
<1> USE DEF NoDoubleFault, NoLateEnqueue
<1>1. CASE UNCHANGED vars
  <2>1. UNCHANGED <<job, run, proc, stage, failed, call, faults>>
    BY <1>1 DEF vars
  <2> QED BY <2>1, StillTable, PlannedWhenStill DEF Planned, ReleasedIsIdle, IInv, TypeOK
<1>2. ASSUME NEW p \in Projects, OwnerEnqueue(p) \/ OwnerResume(p) \/ ApiCrash(p)
      PROVE  Planned'
  <2>1. CASE OwnerEnqueue(p)
    <3>1. \A q \in Projects : call'[q] = call[q] \/ q = p
      BY <2>1 DEF OwnerEnqueue, IInv, TypeOK
    <3> QED BY <2>1, <3>1, PlanIsStage, PlannedByEnqueue DEF OwnerEnqueue
  <2>2. CASE OwnerResume(p)
    BY <2>2, PlannedByOwnerResume
  <2>3. CASE ApiCrash(p)
    BY <2>3 DEF ApiCrash, Fault
  <2> QED BY <1>2, <2>1, <2>2, <2>3
<1>3. ASSUME NEW w \in Workers, NEW p \in Projects, Reconcile(w, p)
      PROVE  Planned'
  <2>1. listed[w][p] \in 0..Last
    BY DEF IInv, TypeOK
  <2>2. \A q \in Projects : call'[q] = call[q] \/ (q = p /\ listed[w][p] = Plan(p))
    BY <1>3 DEF Reconcile
  <2> QED BY <1>3, <2>1, <2>2, PlannedByEnqueue DEF Reconcile
<1>4. ASSUME NEW w \in Workers, Boot(w) \/ StartPolling(w) \/ Stop(w) \/ Release(w)
      PROVE  Planned'
  BY <1>4, PlannedByProcess
<1>5. ASSUME NEW w \in Workers, Crash(w) \/ Exit(w) \/ FailRejected(w)
      PROVE  Planned'
  BY <1>5, PlannedByDies
<1>6. ASSUME NEW w \in Workers, Heartbeat(w) \/ RecoverExpiredLeases(w)
      PROVE  Planned'
  <2>1. SameActive
    BY <1>6, ActiveByHeartbeat, ActiveByRecoverExpiredLeases
  <2>2. UNCHANGED <<run, proc, stage, failed, call, faults>>
    BY <1>6 DEF Heartbeat, RecoverExpiredLeases
  <2> QED BY <2>1, <2>2, PlannedWhenStill DEF Planned, ReleasedIsIdle, IInv, TypeOK
<1>7. ASSUME NEW w \in Workers, Claim(w) \/ StartSkips(w) \/ StartWorks(w) \/ WorkFails(w)
                                  \/ ReadProject(w) \/ Finish(w) \/ FailRetry(w)
      PROVE  Planned'
  BY <1>7, PlannedByClaim, PlannedByStart, PlannedByExecution
<1>8. ASSUME NEW w \in Workers, EventFails(w)
      PROVE  Planned'
  BY <1>8 DEF Timely, EventFails, Fault
<1>9. ASSUME NEW w \in Workers, Save(w) \/ Complete(w) \/ FailDead(w) \/ FailProject(w)
      PROVE  Planned'
  BY <1>9, PlannedBySave, PlannedByComplete, PlannedByFailDead, PlannedByFailProject
<1>10. ASSUME NEW j \in Jobs, LeaseExpires(j) \/ BackoffElapses(j)
       PROVE  Planned'
  BY <1>10, PlannedByTime
<1> QED BY <1>1, <1>2, <1>3, <1>4, <1>5, <1>6, <1>7, <1>8, <1>9, <1>10 DEF Next, Execute

LEMMA InitPlanned ==
  ASSUME Init
  PROVE  Planned
<1>1. /\ \A w \in Workers : run[w].pc = "idle" /\ proc[w] = "off"
      /\ \A p \in Projects : ~failed[p] /\ stage[p] = 0 /\ call[p]
      /\ \A j \in Jobs : ~Active(j)
  BY IdleRunFields DEF Init, Active, AbsentRow
<1>2. ReleasedIsIdle /\ FailsByFault /\ WorksWithin /\ ReadIsPlan
  BY <1>1 DEF ReleasedIsIdle, FailsByFault, WorksWithin, ReadIsPlan
<1>3. RowsNear /\ RowlessIsFresh /\ PlanHasRow
  BY <1>1 DEF RowsNear, RowlessIsFresh, PlanHasRow, Plan
<1> QED BY <1>2, <1>3 DEF Planned

\* ... and a plan always has a row, an API call on its way or a project about
\* to be failed.
THEOREM PlannedInvariant ==
  ASSUME NoDoubleFault
  PROVE  Spec => []Planned
<1>1. Init => Planned
  BY InitPlanned
<1>2. NoLateEnqueue /\ Timely
  BY DEF NoDoubleFault, NoLateEnqueue
<1>3. IInv /\ Held /\ Kept /\ Planned /\ [Next]_vars => Planned'
  BY StepPlanned
<1> QED BY <1>1, <1>2, <1>3, Invariant, HeldInvariant, KeptInvariant, PTL DEF Spec

\* ... so that no work is lost: who plans a job has an active row, or somebody
\* at work who will enqueue it or fail the project (completeAndHandoff, fail,
\* recoverOnBoot, submit).
THEOREM NothingStranded ==
  ASSUME NoDoubleFault
  PROVE  Spec => []NoStrandedPlan
<1>1. Planned => NoStrandedPlan
  BY DEF Planned, PlanHasRow, NoStrandedPlan, Responsible, Working, DeadOn
<1> QED BY <1>1, PlannedInvariant, PTL
=============================================================================
