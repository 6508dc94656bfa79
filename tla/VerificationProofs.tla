------------------------- MODULE VerificationProofs -------------------------
(***************************************************************************)
(* Proofs about Verification for any plans, sandboxes, kinds of            *)
(* application and faults: what a saved run that passed stands for, and    *)
(* which processes may be left when a job is over.                         *)
(***************************************************************************)
EXTENDS Verification, TLAPS

-----------------------------------------------------------------------------
(* The inductive invariant *)

\* A process is there when the job waits for it, and a stubborn one only where
\* there are such.
ProcessIsOfJob ==
  /\ at.pc \in {"idle", "command"} => proc = NoProc
  /\ at.pc = "waiting" => proc.what = "app" /\ Launches
  /\ at.pc = "scenario" => (proc.what = "app" /\ Launches) \/ (proc = NoProc /\ ~Launches)
  /\ proc.stubborn => "stubborn" \in VerifyFaults

\* A command that runs is the next of the plan, and what is done keeps its result
\* until the plan is through.
CommandIsNext ==
  at.pc = "running" => ToGo # {} /\ proc.what = NextStep

\* Scenarios are executed in their job alone; a launched application passes or
\* fails them.
ScenariosAreShown ==
  /\ at.pc # "scenario" => at.shown = <<>>
  /\ Launches => at.shown \in Seq({"PASS", "FAIL"})

VerifyInv ==
  /\ VerifyTypeOK /\ ProcessIsOfJob /\ CommandIsNext /\ ScenariosAreShown
  /\ PassIsEarned /\ LaunchedPassIsEarned /\ NothingLeftRunning
-----------------------------------------------------------------------------
(* Shapes *)

Worlds == [box: Sandboxes, plan: Plans, kind: AppKinds, launchable: BOOLEAN, tools: BOOLEAN]
Phases == {"PLATFORM_VERIFICATION", "RUNTIME_VERIFICATION", "VISUAL_VERIFICATION", "COUNCIL_REVIEW"}
Jobs == [pc: {"idle", "command", "running", "waiting", "scenario"}, result: Results,
         done: SUBSET StepKinds, shown: Shown]
Procs == [what: StepKinds \cup {"app", "none"}, state: {"none", "up", "gone"},
          stubborn: BOOLEAN, timed: BOOLEAN, kin: BOOLEAN]
Orphans == [what: {"command", "app", "cli"}, why: {"crash", "start", "told", "headless"}]
PlatformRuns == [status: {"PASS", "PARTIAL", "FAIL"}, blocking: BOOLEAN, result: Results]
RuntimeRuns == [status: {"PASS", "PARTIAL", "FAIL", "NOT_RUN", "NOT_APPLICABLE"},
                blocking: BOOLEAN, shown: Shown]
VisualRuns == [status: {"COMPLETE", "CHANGES_REQUIRED", "NOT_APPLICABLE"}]
Saved == [platform: {NoRun} \cup PlatformRuns, runtime: {NoRun} \cup RuntimeRuns,
          visual: {NoRun} \cup VisualRuns]

LEMMA PlanShape ==
  ASSUME world \in Worlds
  PROVE  /\ Plan.steps \subseteq StepKinds /\ Plan.required \subseteq Plan.steps
         /\ Plan.workspace \in BOOLEAN /\ Plan.conflict \in BOOLEAN
  BY VerificationAssumption DEF Worlds, Plan

LEMMA VerifyShapes ==
  VerifyTypeOK <=>
    /\ world \in Worlds /\ phase \in Phases
    /\ at \in Jobs /\ at.done \subseteq Plan.steps /\ Len(at.shown) <= Scenarios
    /\ proc \in Procs /\ (at.pc = "running" <=> proc.what \in StepKinds)
    /\ left \subseteq Orphans /\ saved \in Saved
  <1>1. world \in Worlds => (at \in [pc: {"idle", "command", "running", "waiting", "scenario"},
            result: Results, done: SUBSET Plan.steps, shown: Shown] <=> at \in Jobs /\ at.done \subseteq Plan.steps)
    BY PlanShape DEF Jobs
  <1>. QED
    BY <1>1 DEF VerifyTypeOK, Worlds, Phases, Procs, Orphans, Saved, PlatformRuns, RuntimeRuns, VisualRuns

LEMMA VerifyNextShapes ==
  ASSUME world' \in Worlds, phase' \in Phases, at' \in Jobs, (at.done \subseteq Plan.steps)',
         (Len(at.shown) <= Scenarios)', proc' \in Procs, (at.pc = "running" <=> proc.what \in StepKinds)',
         left' \subseteq Orphans, saved' \in Saved
  PROVE  VerifyTypeOK'
  BY DEF VerifyTypeOK, Worlds, Phases, Procs, Orphans, Saved, PlatformRuns, RuntimeRuns, VisualRuns, Jobs
-----------------------------------------------------------------------------
(* The order of the plan *)

LEMMA Positions ==
  /\ StepKinds = {"install", "build", "test", "audit"}
  /\ Position("install") = 1 /\ Position("build") = 2 /\ Position("test") = 3 /\ Position("audit") = 4
  <1>1. /\ DOMAIN Order = {1, 2, 3, 4}
        /\ Order[1] = "install" /\ Order[2] = "build" /\ Order[3] = "test" /\ Order[4] = "audit"
    BY DEF Order
  <1>. HIDE DEF Order
  <1>2. StepKinds = {"install", "build", "test", "audit"}
    BY <1>1 DEF StepKinds
  <1>3. ASSUME NEW n \in {1, 2, 3, 4}
        PROVE  Position(Order[n]) = n
    <2>1. \A m \in DOMAIN Order : Order[m] = Order[n] => m = n
      BY <1>1
    <2>2. \E m \in DOMAIN Order : Order[m] = Order[n]
      BY <1>1
    <2>. QED
      BY <2>1, <2>2, <1>1 DEF Position
  <1>. QED
    BY <1>1, <1>2, <1>3

\* What is next is something to be run.
LEMMA NextIsToGo ==
  ASSUME VerifyTypeOK, ToGo # {}
  PROVE  /\ NextStep \in ToGo /\ ToGo \subseteq Plan.steps /\ NextStep \in StepKinds
         /\ NextStep \notin {"app", "none"}
  <1>1. ToGo \subseteq Plan.steps /\ Plan.steps \subseteq {"install", "build", "test", "audit"}
    BY VerifyShapes, PlanShape, Positions DEF ToGo
  <1>2. \E k \in ToGo : \A l \in ToGo : Position(k) <= Position(l)
    <2>1. ToGo \subseteq {"install", "build", "test", "audit"}
      BY <1>1
    <2>2. CASE "install" \in ToGo
      BY <2>1, <2>2, Positions
    <2>3. CASE "install" \notin ToGo /\ "build" \in ToGo
      BY <2>1, <2>3, Positions
    <2>4. CASE "install" \notin ToGo /\ "build" \notin ToGo /\ "test" \in ToGo
      BY <2>1, <2>4, Positions
    <2>5. CASE ToGo = {"audit"}
      BY <2>5, Positions
    <2>. QED
      BY <2>1, <2>2, <2>3, <2>4, <2>5
  <1>3. NextStep \in ToGo
    BY <1>2 DEF NextStep
  <1>. QED
    BY <1>1, <1>3, Positions
-----------------------------------------------------------------------------
(* Kinds of steps *)

\* What the saved runs say, when they stay.
LEMMA SavedStays ==
  ASSUME VerifyInv, UNCHANGED <<world, saved>>
  PROVE  PassIsEarned' /\ LaunchedPassIsEarned'
  BY DEF VerifyInv, PassIsEarned, LaunchedPassIsEarned, Plan, Launches, Scenarios

\* A process may be left for this reason.
Excused(o) ==
  /\ o.why = "crash" => "crash" \in VerifyFaults
  /\ o.why = "start" => o.what # "command"
  /\ o.why = "headless" => world.box = "local"
  /\ o.why = "told" => IF world.box = "local" THEN "stubborn" \in VerifyFaults /\ o.what # "command"
                       ELSE "docker" \in VerifyFaults

MayBeLeft(os) == \A o \in os : Excused(o)

\* One more process is left.
LEMMA LeavesMore ==
  ASSUME left \subseteq Orphans, MayBeLeft(left), NEW what \in StepKinds \cup {"app", "cli"},
         NEW why \in {"crash", "start", "told", "headless"},
         Excused([what |-> IF what \in StepKinds THEN "command" ELSE what, why |-> why]), Leaves(what, why)
  PROVE  left' \subseteq Orphans /\ MayBeLeft(left')
  <1>1. PICK o \in Orphans : o = [what |-> IF what \in StepKinds THEN "command" ELSE what, why |-> why]
    BY DEF Orphans
  <1>2. left' = left \cup {o} /\ Excused(o)
    BY <1>1 DEF Leaves
  <1>. QED
    BY <1>1, <1>2 DEF MayBeLeft

\* The job is over: its run is saved, or it is to be repeated.
LEMMA JobEnds ==
  ASSUME VerifyInv, at' = NoJob, proc' = NoProc, world' = world, phase' \in Phases,
         left' \subseteq Orphans, MayBeLeft(left'), saved' \in Saved, PassIsEarned', LaunchedPassIsEarned'
  PROVE  VerifyInv'
  <1>1. world \in Worlds
    BY VerifyShapes DEF VerifyInv
  <1>2. /\ at' \in Jobs /\ at'.pc = "idle" /\ at'.done = {} /\ at'.shown = <<>>
    <2>1. [k \in StepKinds |-> NotRun] \in Results
      BY DEF Results, NotRun
    <2>. QED
      BY <2>1 DEF NoJob, Jobs, Shown
  <1>3. /\ proc' \in Procs /\ proc'.what = "none" /\ proc'.stubborn = FALSE /\ "none" \notin StepKinds
    BY Positions DEF NoProc, Procs
  <1>4. Scenarios' \in Nat
    BY DEF Scenarios
  <1>5. VerifyTypeOK'
    BY <1>1, <1>2, <1>3, <1>4, VerifyNextShapes
  <1>6. ProcessIsOfJob' /\ CommandIsNext' /\ ScenariosAreShown'
    BY <1>2, <1>3 DEF ProcessIsOfJob, CommandIsNext, ScenariosAreShown
  <1>7. NothingLeftRunning'
    BY DEF NothingLeftRunning, MayBeLeft, Excused
  <1>. QED
    BY <1>5, <1>6, <1>7 DEF VerifyInv

\* A run is saved by the last step of its job.
LEMMA PlatformSaved ==
  ASSUME VerifyInv, NEW run \in PlatformRuns, Saves("platform", run), UNCHANGED <<world, phase, left>>,
         proc' = NoProc,
         run.status = "PASS" /\ Plan.workspace => ~Plan.conflict /\ \A k \in Plan.steps : Passed(run.result[k]),
         run.status = "PARTIAL" => ~Plan.conflict /\ \A k \in Plan.required : Passed(run.result[k])
  PROVE  VerifyInv'
  <1>1. saved \in Saved /\ left \subseteq Orphans /\ phase \in Phases
    BY VerifyShapes DEF VerifyInv
  <1>2. saved' \in Saved /\ saved'.platform = run /\ saved'.runtime = saved.runtime
    BY <1>1 DEF Saves, Saved
  <1>3. PassIsEarned'
    BY <1>2 DEF PassIsEarned, Plan
  <1>4. LaunchedPassIsEarned'
    BY <1>2 DEF VerifyInv, LaunchedPassIsEarned, Launches, Scenarios
  <1>5. MayBeLeft(left')
    BY DEF VerifyInv, NothingLeftRunning, MayBeLeft, Excused
  <1>. QED
    BY <1>1, <1>2, <1>3, <1>4, <1>5, JobEnds DEF Saves

LEMMA RuntimeSaved ==
  ASSUME VerifyInv, NEW run \in RuntimeRuns, Saves("runtime", run), UNCHANGED <<world, phase>>,
         proc' = NoProc, left' \subseteq Orphans, MayBeLeft(left'),
         run.status = "PASS" /\ Launches =>
           Len(run.shown) = Scenarios /\ \A n \in 1..Scenarios : run.shown[n] = "PASS"
  PROVE  VerifyInv'
  <1>1. saved \in Saved /\ phase \in Phases
    BY VerifyShapes DEF VerifyInv
  <1>2. saved' \in Saved /\ saved'.runtime = run /\ saved'.platform = saved.platform
    BY <1>1 DEF Saves, Saved
  <1>3. PassIsEarned'
    BY <1>2 DEF VerifyInv, PassIsEarned, Plan
  <1>4. LaunchedPassIsEarned'
    BY <1>2 DEF LaunchedPassIsEarned, Launches, Scenarios
  <1>. QED
    BY <1>1, <1>2, <1>3, <1>4, JobEnds DEF Saves

\* A step that changes neither the job nor its process.
LEMMA JobStays ==
  ASSUME VerifyInv, UNCHANGED <<world, at, proc>>, phase' \in Phases, left' \subseteq left,
         saved' \in Saved, PassIsEarned', LaunchedPassIsEarned'
  PROVE  VerifyInv'
  <1>1. VerifyTypeOK'
    BY VerifyShapes, VerifyNextShapes DEF VerifyInv, Plan, Scenarios
  <1>2. ProcessIsOfJob' /\ CommandIsNext' /\ ScenariosAreShown'
    BY DEF VerifyInv, ProcessIsOfJob, CommandIsNext, ScenariosAreShown, ToGo, NextStep, Plan, Launches
  <1>3. NothingLeftRunning'
    BY DEF VerifyInv, NothingLeftRunning
  <1>. QED
    BY <1>1, <1>2, <1>3 DEF VerifyInv

\* What shutdownManagedProcess leaves, of a process that it knows.
LEMMA ShutdownLeaves ==
  ASSUME VerifyInv, at.pc \in {"waiting", "scenario"}, Shutdown
  PROVE  proc' = NoProc /\ left' \subseteq Orphans /\ MayBeLeft(left')
  <1>1. left \subseteq Orphans /\ MayBeLeft(left) /\ world.box \in {"local", "container"} /\ "app" \notin StepKinds
    BY VerifyShapes, Positions, VerificationAssumption DEF VerifyInv, NothingLeftRunning, MayBeLeft, Excused, Worlds
  <1>2. CASE \E why \in {"headless", "told"} : Survives(why) /\ Leaves(proc.what, why)
    <2>1. PICK why \in {"headless", "told"} : Survives(why) /\ Leaves(proc.what, why)
      BY <1>2
    <2>2. proc.what = "app" /\ (proc.stubborn => "stubborn" \in VerifyFaults)
      BY <2>1 DEF VerifyInv, ProcessIsOfJob, NoProc, Survives, Running
    <2>3. Excused([what |-> "app", why |-> why])
      BY <1>1, <2>1, <2>2 DEF Survives, Defies, Excused
    <2>. QED
      BY <1>1, <2>1, <2>2, <2>3, LeavesMore DEF Shutdown
  <1>. QED
    BY <1>1, <1>2 DEF Shutdown

\* What a start that is reported as failed leaves.
LEMMA StartThrowsLeaves ==
  ASSUME VerifyInv, NEW what \in {"app", "cli"}, StartThrows(what)
  PROVE  proc' = proc /\ left' \subseteq Orphans /\ MayBeLeft(left')
  <1>1. left \subseteq Orphans /\ MayBeLeft(left) /\ what \notin StepKinds
    BY VerifyShapes, Positions DEF VerifyInv, NothingLeftRunning, MayBeLeft, Excused
  <1>2. CASE Leaves(what, "start")
    <2>1. Excused([what |-> what, why |-> "start"])
      BY DEF Excused
    <2>. QED
      BY <1>1, <1>2, <2>1, LeavesMore DEF StartThrows
  <1>. QED
    BY <1>1, <1>2 DEF StartThrows, MayBeLeft, Excused

LEMMA SpawnedShape ==
  ASSUME NEW what \in StepKinds \cup {"app"}, Spawned(what)
  PROVE  /\ proc' \in Procs /\ proc'.what = what /\ proc'.state = "up"
         /\ proc'.stubborn => "stubborn" \in VerifyFaults
  <1>1. PICK s \in BOOLEAN :
          /\ s => "stubborn" \in VerifyFaults
          /\ proc' = [what |-> what, state |-> "up", stubborn |-> s, timed |-> FALSE, kin |-> FALSE]
    BY DEF Spawned
  <1>. QED
    BY <1>1 DEF Procs
-----------------------------------------------------------------------------
(* The steps of the platform verification *)

\* A job that goes on with its commands.
LEMMA CommandsGoOn ==
  ASSUME VerifyInv, at.pc \in {"idle", "command", "running"}, UNCHANGED <<world, phase, saved>>,
         at' \in Jobs, at'.pc = "command", at'.done \subseteq Plan.steps, at'.shown = at.shown,
         proc' = NoProc, left' \subseteq Orphans, MayBeLeft(left')
  PROVE  VerifyInv'
  <1>1. world \in Worlds /\ phase \in Phases /\ saved \in Saved
    BY VerifyShapes DEF VerifyInv
  <1>2. proc' \in Procs /\ proc'.what = "none" /\ proc'.stubborn = FALSE /\ "none" \notin StepKinds
    BY Positions DEF NoProc, Procs
  <1>3. at.shown = <<>>
    BY DEF VerifyInv, ScenariosAreShown
  <1>4. VerifyTypeOK'
    BY <1>1, <1>2, <1>3, VerifyNextShapes, VerifyShapes DEF VerifyInv, Plan, Scenarios
  <1>5. ProcessIsOfJob' /\ CommandIsNext' /\ ScenariosAreShown'
    BY <1>2, <1>3 DEF ProcessIsOfJob, CommandIsNext, ScenariosAreShown
  <1>6. NothingLeftRunning'
    BY DEF NothingLeftRunning, MayBeLeft, Excused
  <1>. QED
    BY <1>4, <1>5, <1>6, SavedStays DEF VerifyInv

LEMMA BeginPlatformKeeps ==
  ASSUME VerifyInv, BeginPlatform
  PROVE  VerifyInv'
  <1>1. /\ at \in Jobs /\ at.pc = "idle" /\ proc = NoProc /\ at.done \subseteq Plan.steps
        /\ left' \subseteq Orphans /\ MayBeLeft(left')
    BY VerifyShapes DEF VerifyInv, BeginPlatform, ProcessIsOfJob, NothingLeftRunning, MayBeLeft, Excused
  <1>2. CASE at' = [at EXCEPT !.pc = "command"] /\ UNCHANGED saved
    <2>1. at' \in Jobs /\ at'.pc = "command" /\ at'.done = at.done /\ at'.shown = at.shown
      BY <1>1, <1>2 DEF Jobs
    <2>. QED
      BY <1>1, <1>2, <2>1, CommandsGoOn DEF BeginPlatform
  <1>3. CASE ~Plan.workspace /\ Saves("platform", [status |-> "PASS", blocking |-> FALSE, result |-> at.result])
    <2>1. [status |-> "PASS", blocking |-> FALSE, result |-> at.result] \in PlatformRuns
      BY <1>1 DEF Jobs, PlatformRuns
    <2>. QED
      BY <1>1, <1>3, <2>1, PlatformSaved DEF BeginPlatform
  <1>. QED
    BY <1>2, <1>3 DEF BeginPlatform

\* The result of the next command is kept.
LEMMA ClosesKeeps ==
  ASSUME VerifyInv, at.pc \in {"command", "running"}, ToGo # {}, UNCHANGED <<world, phase, saved>>,
         NEW r \in [exit: {"none", "zero", "other"}, timedOut: BOOLEAN], Closes(r),
         left' \subseteq Orphans, MayBeLeft(left')
  PROVE  VerifyInv'
  <1>1. at \in Jobs /\ at.done \subseteq Plan.steps
    BY VerifyShapes DEF VerifyInv
  <1>2. NextStep \in Plan.steps /\ NextStep \in StepKinds
    BY NextIsToGo DEF VerifyInv
  <1>3. PICK n \in StepKinds : n = NextStep
    BY <1>2
  <1>4. at' = [at EXCEPT !.pc = "command", !.result[n] = r, !.done = @ \cup {n}]
    BY <1>3 DEF Closes
  <1>5. /\ at' \in Jobs /\ at'.pc = "command" /\ at'.done = at.done \cup {n} /\ at'.shown = at.shown
    BY <1>1, <1>4 DEF Jobs, Results
  <1>6. at'.done \subseteq Plan.steps
    BY <1>1, <1>2, <1>3, <1>5
  <1>. QED
    BY <1>5, <1>6, CommandsGoOn DEF Closes

LEMMA StartCommandKeeps ==
  ASSUME VerifyInv, StartCommand
  PROVE  VerifyInv'
  <1>1. /\ at.pc = "command" /\ ToGo # {} /\ UNCHANGED <<world, phase, saved, left>>
        /\ left' \subseteq Orphans /\ MayBeLeft(left')
    BY VerifyShapes DEF VerifyInv, StartCommand, NothingLeftRunning, MayBeLeft, Excused
  <1>2. CASE Closes(NotRun)
    <2>1. NotRun \in [exit: {"none", "zero", "other"}, timedOut: BOOLEAN]
      BY DEF NotRun
    <2>. QED
      BY <1>1, <1>2, <2>1, ClosesKeeps
  <1>3. CASE Spawned(NextStep) /\ at' = [at EXCEPT !.pc = "running"]
    <2>1. /\ at \in Jobs /\ world \in Worlds /\ phase \in Phases /\ left \subseteq Orphans /\ saved \in Saved
          /\ at.done \subseteq Plan.steps /\ at.shown = <<>>
      BY <1>1, VerifyShapes DEF VerifyInv, ScenariosAreShown
    <2>2. /\ at' \in Jobs /\ at'.pc = "running" /\ at'.done = at.done /\ at'.shown = <<>>
          /\ at'.result = at.result
      BY <1>3, <2>1 DEF Jobs
    <2>3. NextStep \in StepKinds
      BY <1>1, NextIsToGo DEF VerifyInv
    <2>4. /\ proc' \in Procs /\ proc'.what = NextStep /\ (proc'.stubborn => "stubborn" \in VerifyFaults)
      BY <1>3, <2>3, SpawnedShape
    <2>5. VerifyTypeOK'
      BY <1>1, <2>1, <2>2, <2>3, <2>4, VerifyNextShapes, VerifyShapes DEF VerifyInv, Plan, Scenarios
    <2>6. ToGo' = ToGo /\ NextStep' = NextStep
      <3>1. ToGo' = ToGo
        BY <1>1, <2>2 DEF ToGo, Plan
      <3>. QED
        BY <3>1 DEF NextStep
    <2>7. ProcessIsOfJob' /\ CommandIsNext' /\ ScenariosAreShown'
      BY <1>1, <2>2, <2>4, <2>6 DEF ProcessIsOfJob, CommandIsNext, ScenariosAreShown
    <2>8. NothingLeftRunning'
      BY <1>1, <2>2 DEF VerifyInv, NothingLeftRunning
    <2>. QED
      BY <1>1, <2>5, <2>7, <2>8, SavedStays DEF VerifyInv
  <1>. QED
    BY <1>1, <1>2, <1>3 DEF StartCommand

LEMMA CommandExitsKeeps ==
  ASSUME VerifyInv, CommandExits
  PROVE  VerifyInv'
  <1>1. /\ at.pc = "running" /\ ToGo # {} /\ UNCHANGED <<world, phase, saved>>
        /\ proc.timed \in BOOLEAN /\ proc.what \in StepKinds
        /\ left \subseteq Orphans /\ MayBeLeft(left)
    BY VerifyShapes DEF VerifyInv, CommandExits, CommandIsNext, Procs, NothingLeftRunning, MayBeLeft, Excused
  <1>2. PICK r \in [exit: {"none", "zero", "other"}, timedOut: BOOLEAN] : Closes(r)
    BY <1>1 DEF CommandExits
  <1>3. left' \subseteq Orphans /\ MayBeLeft(left')
    <2>1. CASE world.box = "local" /\ Leaves(proc.what, "headless")
      <3>1. Excused([what |-> "command", why |-> "headless"])
        BY <2>1 DEF Excused
      <3>. QED
        BY <1>1, <2>1, <3>1, LeavesMore
    <2>2. CASE world.box = "container" /\ Defies /\ Leaves(proc.what, "told")
      <3>1. Excused([what |-> "command", why |-> "told"])
        BY <2>2 DEF Excused, Defies
      <3>. QED
        BY <1>1, <2>2, <3>1, LeavesMore
    <2>. QED
      BY <1>1, <2>1, <2>2 DEF CommandExits, MayBeLeft, Excused
  <1>. QED
    BY <1>1, <1>2, <1>3, ClosesKeeps

LEMMA CommandTimeoutKeeps ==
  ASSUME VerifyInv, CommandTimeout
  PROVE  VerifyInv'
  <1>1. at.pc = "running" /\ UNCHANGED <<world, phase, saved, at, left>>
    BY DEF CommandTimeout
  <1>2. proc' \in Procs /\ proc'.what = proc.what /\ proc'.stubborn = proc.stubborn
    BY VerifyShapes DEF VerifyInv, CommandTimeout, Procs
  <1>3. VerifyTypeOK'
    BY <1>1, <1>2, VerifyNextShapes, VerifyShapes DEF VerifyInv, Plan, Scenarios
  <1>4. ProcessIsOfJob' /\ CommandIsNext' /\ ScenariosAreShown'
    BY <1>1, <1>2 DEF VerifyInv, ProcessIsOfJob, CommandIsNext, ScenariosAreShown, ToGo, NextStep, Plan, Launches
  <1>5. NothingLeftRunning'
    BY <1>1 DEF VerifyInv, NothingLeftRunning
  <1>. QED
    BY <1>1, <1>3, <1>4, <1>5, SavedStays DEF VerifyInv

\* When nothing is left to be run and no required step has failed, every step of
\* the plan has been run.
LEMMA EndPlatformKeeps ==
  ASSUME VerifyInv, EndPlatform
  PROVE  VerifyInv'
  <1>. DEFINE status == PlatformStatus(at.result)
              run == [status |-> status, blocking |-> Blocking(at.result), result |-> at.result]
  <1>1. at \in Jobs /\ at.pc = "command" /\ ToGo = {} /\ proc = NoProc /\ at.done \subseteq Plan.steps
    BY VerifyShapes DEF VerifyInv, EndPlatform, ProcessIsOfJob
  <1>2. run \in PlatformRuns
    BY <1>1, PlanShape, VerifyShapes DEF VerifyInv, Jobs, PlatformRuns, PlatformStatus, Blocking
  <1>3. ~Blocking(at.result) => at.done = Plan.steps
    <2>1. ~Blocking(at.result) => ~("install" \in at.done \cap Plan.required /\ Failed(at.result["install"]))
      BY DEF Blocking
    <2>. QED
      BY <1>1, <2>1 DEF ToGo
  <1>4. status = "PASS" => ~Plan.conflict /\ \A k \in Plan.steps : Passed(at.result[k])
    <2>1. status = "PASS" => ~Blocking(at.result) /\ \A k \in at.done : ~Failed(at.result[k])
      BY DEF PlatformStatus
    <2>2. ~Blocking(at.result) => ~Plan.conflict
      BY DEF Blocking
    <2>. QED
      BY <1>3, <2>1, <2>2 DEF Failed, Passed
  <1>5. status = "PARTIAL" => ~Plan.conflict /\ \A k \in Plan.required : Passed(at.result[k])
    <2>1. status = "PARTIAL" => ~Blocking(at.result)
      BY DEF PlatformStatus
    <2>2. Plan.required \subseteq Plan.steps
      BY PlanShape, VerifyShapes DEF VerifyInv
    <2>3. ~Blocking(at.result) => ~Plan.conflict /\ \A k \in at.done \cap Plan.required : ~Failed(at.result[k])
      BY DEF Blocking
    <2>. QED
      BY <1>3, <2>1, <2>2, <2>3 DEF Failed, Passed
  <1>6. Saves("platform", run) /\ UNCHANGED <<world, phase, left>> /\ proc' = NoProc
    BY <1>1 DEF EndPlatform
  <1>7. run.status = status /\ run.result = at.result
    OBVIOUS
  <1>. HIDE DEF run, status
  <1>. QED
    BY <1>2, <1>4, <1>5, <1>6, <1>7, PlatformSaved
-----------------------------------------------------------------------------
(* The steps of the runtime verification *)

\* The job of a runtime verification goes on, with an application or without.
LEMMA RuntimeGoesOn ==
  ASSUME VerifyInv, at.pc \in {"idle", "waiting", "scenario"}, UNCHANGED <<world, phase, saved>>,
         at' \in Jobs, at'.done = at.done, at'.pc \in {"waiting", "scenario"},
         proc' \in Procs, proc'.what \notin StepKinds,
         proc'.stubborn => "stubborn" \in VerifyFaults,
         (proc'.what = "app" /\ Launches) \/ (proc' = NoProc /\ ~Launches /\ at'.pc = "scenario"),
         left' \subseteq Orphans, MayBeLeft(left'),
         at'.pc = "waiting" => at'.shown = <<>>,
         (Len(at.shown) <= Scenarios)', Launches => at'.shown \in Seq({"PASS", "FAIL"})
  PROVE  VerifyInv'
  <1>1. VerifyTypeOK'
    BY VerifyNextShapes, VerifyShapes DEF VerifyInv, Plan
  <1>2. ProcessIsOfJob' /\ CommandIsNext'
    BY DEF VerifyInv, ProcessIsOfJob, CommandIsNext, Launches
  <1>3. ScenariosAreShown'
    BY DEF ScenariosAreShown, Launches
  <1>4. NothingLeftRunning'
    BY DEF NothingLeftRunning, MayBeLeft, Excused
  <1>. QED
    BY <1>1, <1>2, <1>3, <1>4, SavedStays DEF VerifyInv

LEMMA RunShape ==
  ASSUME NEW status \in {"PASS", "PARTIAL", "FAIL"}, NEW blocking \in BOOLEAN, NEW shown \in Shown
  PROVE  /\ RuntimeRun(status, blocking, shown) \in RuntimeRuns
         /\ RuntimeRun(status, blocking, shown).status = status
         /\ RuntimeRun(status, blocking, shown).shown = shown
  BY DEF RuntimeRun, RuntimeRuns

LEMMA BeginRuntimeKeeps ==
  ASSUME VerifyInv, BeginRuntime
  PROVE  VerifyInv'
  <1>1. /\ at \in Jobs /\ at.pc = "idle" /\ proc = NoProc /\ at.done \subseteq Plan.steps /\ at.shown = <<>>
        /\ left \subseteq Orphans /\ MayBeLeft(left) /\ UNCHANGED <<world, phase>>
        /\ NoProc \in Procs /\ NoProc.what = "none" /\ NoProc.stubborn = FALSE
        /\ "none" \notin StepKinds /\ "app" \notin StepKinds
    BY VerifyShapes, Positions DEF VerifyInv, BeginRuntime, ProcessIsOfJob, ScenariosAreShown, NothingLeftRunning, MayBeLeft,
       Excused, NoProc, Procs
  <1>2. Scenarios \in Nat
    BY DEF Scenarios
  <1>3. CASE ToldBefore # NoRun /\ Saves("runtime", ToldBefore) /\ UNCHANGED <<proc, left>>
    <2>1. ToldBefore \in RuntimeRuns /\ ToldBefore.status # "PASS"
      BY <1>3 DEF ToldBefore, RuntimeRun, FailedToStart, RuntimeRuns, Shown
    <2>. QED
      BY <1>1, <1>3, <2>1, RuntimeSaved
  <1>4. CASE LaunchFails
    <2>1. FailedToStart \in RuntimeRuns /\ FailedToStart.status # "PASS"
      BY DEF RuntimeRun, FailedToStart, RuntimeRuns, Shown
    <2>2. proc' = proc /\ left' \subseteq Orphans /\ MayBeLeft(left')
      BY <1>4, StartThrowsLeaves DEF LaunchFails
    <2>. QED
      BY <1>1, <1>4, <2>1, <2>2, RuntimeSaved DEF LaunchFails
  <1>5. CASE Launches /\ Spawned("app") /\ at' = [at EXCEPT !.pc = "waiting"] /\ UNCHANGED <<saved, left>>
    <2>1. at' \in Jobs /\ at'.pc = "waiting" /\ at'.done = at.done /\ at'.shown = <<>>
      BY <1>1, <1>5 DEF Jobs
    <2>2. /\ proc' \in Procs /\ proc'.what = "app" /\ (proc'.stubborn => "stubborn" \in VerifyFaults)
      BY <1>5, SpawnedShape
    <2>3. MayBeLeft(left')
      BY <1>1, <1>5 DEF MayBeLeft, Excused
    <2>. QED
      <3>1. (Len(at.shown) <= Scenarios)' /\ at'.shown \in Seq({"PASS", "FAIL"})
        BY <2>1 DEF Scenarios
      <3>2. /\ UNCHANGED <<world, phase, saved>> /\ proc'.what \notin StepKinds /\ left' \subseteq Orphans
        BY <1>1, <1>5, <2>2
      <3>. QED
        BY <1>1, <1>5, <2>1, <2>2, <2>3, <3>1, <3>2, RuntimeGoesOn
  <1>6. CASE ~Launches /\ at' = [at EXCEPT !.pc = "scenario"] /\ UNCHANGED <<saved, proc, left>>
    <2>1. at' \in Jobs /\ at'.pc = "scenario" /\ at'.done = at.done /\ at'.shown = <<>>
      BY <1>1, <1>6 DEF Jobs
    <2>2. MayBeLeft(left')
      BY <1>1, <1>6 DEF MayBeLeft, Excused
    <2>. QED
      BY <1>1, <1>2, <1>6, <2>1, <2>2, RuntimeGoesOn DEF Scenarios
  <1>. QED
    BY <1>3, <1>4, <1>5, <1>6 DEF BeginRuntime

\* An application that ends or is signalled is still that of the job.
LEMMA AppGoes ==
  ASSUME VerifyInv, AppExits \/ StartupTimer
  PROVE  VerifyInv'
  <1>1. /\ proc \in Procs /\ proc.what = "app" /\ UNCHANGED <<world, phase, saved, at, left>>
        /\ "app" \notin StepKinds
    BY VerifyShapes, Positions DEF VerifyInv, AppExits, StartupTimer
  <1>2. proc' \in Procs /\ proc'.what = "app" /\ proc'.stubborn = proc.stubborn
    <2>1. CASE AppExits
      BY <1>1, <2>1 DEF AppExits, Procs
    <2>2. CASE StartupTimer
      <3>1. PICK state \in {"none", "up", "gone"}, kin \in BOOLEAN :
              proc' = [proc EXCEPT !.timed = TRUE, !.state = state, !.kin = kin]
        <4>1. CASE proc' = [proc EXCEPT !.timed = TRUE]
          <5>1. proc' = [proc EXCEPT !.timed = TRUE, !.state = proc.state, !.kin = proc.kin]
            BY <1>1, <4>1 DEF Procs
          <5>. QED
            BY <1>1, <5>1 DEF Procs
        <4>2. CASE proc' = [proc EXCEPT !.timed = TRUE, !.state = "gone", !.kin = @ /\ world.box = "local"]
          BY <4>2
        <4>3. CASE proc' = [proc EXCEPT !.timed = TRUE, !.state = "gone", !.kin = TRUE]
          BY <4>3
        <4>. QED
          BY <2>2, <4>1, <4>2, <4>3 DEF StartupTimer
      <3>. QED
        BY <1>1, <3>1 DEF Procs
    <2>. QED
      BY <2>1, <2>2
  <1>3. at.pc \in {"waiting", "scenario"} /\ Launches
    BY <1>1, VerifyShapes DEF VerifyInv, ProcessIsOfJob, NoProc, Jobs
  <1>4. /\ at \in Jobs /\ left \subseteq Orphans /\ MayBeLeft(left') /\ Len(at.shown) <= Scenarios
        /\ (at.pc = "waiting" => at.shown = <<>>) /\ at.shown \in Seq({"PASS", "FAIL"})
        /\ (proc.stubborn => "stubborn" \in VerifyFaults)
    BY <1>1, <1>3, VerifyShapes DEF VerifyInv, ScenariosAreShown, NothingLeftRunning, MayBeLeft, Excused, ProcessIsOfJob
  <1>. QED
    BY <1>1, <1>2, <1>3, <1>4, RuntimeGoesOn DEF Scenarios

LEMMA ReadyKeeps ==
  ASSUME VerifyInv, Ready
  PROVE  VerifyInv'
  <1>1. /\ at \in Jobs /\ at.pc = "waiting" /\ proc \in Procs /\ proc.what = "app" /\ Launches /\ at.shown = <<>>
        /\ UNCHANGED <<world, phase, saved, proc, left>> /\ left \subseteq Orphans /\ MayBeLeft(left')
        /\ (proc.stubborn => "stubborn" \in VerifyFaults) /\ "app" \notin StepKinds
    BY VerifyShapes, Positions DEF VerifyInv, Ready, ProcessIsOfJob, ScenariosAreShown, NothingLeftRunning, MayBeLeft, Excused
  <1>2. at' \in Jobs /\ at'.pc = "scenario" /\ at'.done = at.done /\ at'.shown = <<>>
    BY <1>1 DEF Ready, Jobs
  <1>3. Scenarios' \in Nat
    BY DEF Scenarios
  <1>. QED
    BY <1>1, <1>2, <1>3, RuntimeGoesOn

LEMMA NotReadyKeeps ==
  ASSUME VerifyInv, NotReady
  PROVE  VerifyInv'
  <1>1. FailedToStart \in RuntimeRuns /\ FailedToStart.status # "PASS"
    BY DEF RuntimeRun, FailedToStart, RuntimeRuns, Shown
  <1>2. proc' = NoProc /\ left' \subseteq Orphans /\ MayBeLeft(left')
    BY ShutdownLeaves DEF NotReady
  <1>. QED
    BY <1>1, <1>2, RuntimeSaved DEF NotReady

\* A scenario comes to an end that is possible for what was launched.
LEMMA ScenarioKeeps ==
  ASSUME VerifyInv, Scenario
  PROVE  VerifyInv'
  <1>1. PICK o \in Outcomes :
          /\ at' = [at EXCEPT !.shown = Append(@, o)]
          /\ \/ UNCHANGED left
             \/ CliLeaves(o)
    BY DEF Scenario
  <1>2. /\ at \in Jobs /\ at.pc = "scenario" /\ proc \in Procs
        /\ UNCHANGED <<world, phase, saved, proc>> /\ left \subseteq Orphans /\ MayBeLeft(left)
        /\ (proc.stubborn => "stubborn" \in VerifyFaults)
        /\ (proc.what = "app" /\ Launches) \/ (proc = NoProc /\ ~Launches)
        /\ "app" \notin StepKinds /\ "none" \notin StepKinds
        /\ at.shown \in Shown /\ Len(at.shown) < Scenarios
        /\ (Launches => at.shown \in Seq({"PASS", "FAIL"}))
    BY VerifyShapes, Positions DEF VerifyInv, Scenario, ProcessIsOfJob, ScenariosAreShown, NothingLeftRunning, MayBeLeft, Excused, Jobs
  <1>3. o \in {"PASS", "FAIL", "hung", "NOT_RUN"} /\ (Launches => o \in {"PASS", "FAIL"})
    BY DEF Outcomes, LaunchedOutcomes, CliOutcomes
  <1>4. /\ at' \in Jobs /\ at'.pc = "scenario" /\ at'.done = at.done /\ at'.shown = Append(at.shown, o)
    <2>1. Append(at.shown, o) \in Shown
      BY <1>2, <1>3 DEF Shown
    <2>. HIDE DEF Shown
    <2>. QED
      BY <1>1, <1>2, <2>1 DEF Jobs
  <1>5. /\ Launches => at'.shown \in Seq({"PASS", "FAIL"})
        /\ Len(at'.shown) = Len(at.shown) + 1 /\ Len(at.shown) \in Nat
    BY <1>2, <1>3, <1>4 DEF Shown
  <1>6. (Len(at.shown) <= Scenarios)'
    BY <1>2, <1>5 DEF Scenarios
  <1>7. left' \subseteq Orphans /\ MayBeLeft(left')
    <2>1. CASE CliLeaves(o)
      <3>1. PICK why \in {"headless", "told"} : Leaves("cli", why) /\ Excused([what |-> "cli", why |-> why])
        BY <2>1 DEF CliLeaves, Excused
      <3>2. "cli" \notin StepKinds
        BY Positions
      <3>. QED
        BY <1>2, <3>1, <3>2, LeavesMore
    <2>. QED
      BY <1>1, <1>2, <2>1 DEF MayBeLeft, Excused
  <1>8. proc.what \notin StepKinds
    BY <1>2 DEF NoProc
  <1>. QED
    BY <1>2, <1>4, <1>5, <1>6, <1>7, <1>8, RuntimeGoesOn

\* A launched application that is told to have passed has passed them all.
LEMMA EndRuntimeKeeps ==
  ASSUME VerifyInv, EndRuntime
  PROVE  VerifyInv'
  <1>1. PICK a11y \in BOOLEAN :
          LET blocked == a11y \/ \E n \in DOMAIN at.shown : RecordedStatus(at.shown[n]) = "FAIL" IN
          Saves("runtime", RuntimeRun(RuntimeStatus(at.shown, blocked), blocked, at.shown))
    BY DEF EndRuntime
  <1>2. PICK blocked \in BOOLEAN :
          /\ blocked <=> (a11y \/ \E n \in DOMAIN at.shown : RecordedStatus(at.shown[n]) = "FAIL")
          /\ Saves("runtime", RuntimeRun(RuntimeStatus(at.shown, blocked), blocked, at.shown))
    <2>. DEFINE b == a11y \/ \E n \in DOMAIN at.shown : RecordedStatus(at.shown[n]) = "FAIL"
    <2>1. b \in BOOLEAN /\ Saves("runtime", RuntimeRun(RuntimeStatus(at.shown, b), b, at.shown))
      BY <1>1
    <2>. QED
      BY <2>1
  <1>3. /\ at \in Jobs /\ at.pc = "scenario" /\ Len(at.shown) = Scenarios /\ at.shown \in Shown
        /\ (Launches => at.shown \in Seq({"PASS", "FAIL"})) /\ UNCHANGED <<world, phase>>
    BY VerifyShapes DEF VerifyInv, EndRuntime, AllShown, ScenariosAreShown, Jobs
  <1>4. proc' = NoProc /\ left' \subseteq Orphans /\ MayBeLeft(left')
    BY <1>3, ShutdownLeaves DEF EndRuntime
  <1>5. PICK run \in RuntimeRuns :
          /\ run = RuntimeRun(RuntimeStatus(at.shown, blocked), blocked, at.shown)
          /\ run.shown = at.shown /\ (run.status = "PASS" => ~blocked)
    <2>1. /\ RuntimeStatus(at.shown, blocked) \in {"PASS", "PARTIAL", "FAIL"}
          /\ RuntimeStatus(at.shown, blocked) = "PASS" => ~blocked
      BY DEF RuntimeStatus
    <2>. QED
      BY <1>3, <2>1, RunShape
  <1>6. ASSUME run.status = "PASS", Launches
        PROVE  Len(run.shown) = Scenarios /\ \A n \in 1..Scenarios : run.shown[n] = "PASS"
    <2>1. \A n \in DOMAIN at.shown : RecordedStatus(at.shown[n]) # "FAIL"
      BY <1>2, <1>5, <1>6
    <2>2. DOMAIN at.shown = 1..Scenarios /\ \A n \in 1..Scenarios : at.shown[n] \in {"PASS", "FAIL"}
      BY <1>3, <1>6
    <2>. QED
      BY <1>3, <1>5, <2>1, <2>2 DEF RecordedStatus
  <1>. QED
    BY <1>2, <1>3, <1>4, <1>5, <1>6, RuntimeSaved

LEMMA ScenarioThrowsKeeps ==
  ASSUME VerifyInv, ScenarioThrows
  PROVE  VerifyInv'
  <1>1. /\ at.pc = "scenario" /\ at.shown \in Shown /\ UNCHANGED <<world, phase>>
    BY VerifyShapes DEF VerifyInv, ScenarioThrows, Jobs
  <1>2. PICK run \in RuntimeRuns : run = RuntimeRun("FAIL", TRUE, at.shown) /\ run.status = "FAIL"
    <2>1. /\ RuntimeRun("FAIL", TRUE, at.shown) \in RuntimeRuns
          /\ RuntimeRun("FAIL", TRUE, at.shown).status = "FAIL"
      BY <1>1 DEF RuntimeRun, RuntimeRuns
    <2>. QED
      BY <2>1
  <1>3. proc' = NoProc /\ left' \subseteq Orphans /\ MayBeLeft(left')
    <2>1. CASE Shutdown
      BY <1>1, <2>1, ShutdownLeaves
    <2>2. CASE world.kind = "CLI" /\ StartThrows("cli")
      <3>1. proc = NoProc
        BY <1>1, <2>2 DEF VerifyInv, ProcessIsOfJob, Launches
      <3>. QED
        BY <2>2, <3>1, StartThrowsLeaves
    <2>. QED
      BY <2>1, <2>2 DEF ScenarioThrows
  <1>. QED
    BY <1>1, <1>2, <1>3, RuntimeSaved DEF ScenarioThrows
-----------------------------------------------------------------------------
(* The other steps *)

LEMMA LookKeeps ==
  ASSUME VerifyInv, Look
  PROVE  VerifyInv'
  <1>1. /\ at.pc = "idle" /\ UNCHANGED <<world, phase, proc, left>> /\ proc = NoProc
        /\ saved \in Saved /\ phase \in Phases /\ left \subseteq Orphans /\ MayBeLeft(left')
    BY VerifyShapes DEF VerifyInv, Look, ProcessIsOfJob, NothingLeftRunning, MayBeLeft, Excused
  <1>2. PICK said \in {"COMPLETE", "CHANGES_REQUIRED", "NOT_APPLICABLE"} : Saves("visual", [status |-> said])
    BY DEF Look
  <1>3. saved' \in Saved /\ saved'.platform = saved.platform /\ saved'.runtime = saved.runtime /\ at' = NoJob
    BY <1>1, <1>2 DEF Saves, Saved, VisualRuns
  <1>4. PassIsEarned' /\ LaunchedPassIsEarned'
    BY <1>1, <1>3 DEF VerifyInv, PassIsEarned, LaunchedPassIsEarned, Plan, Launches, Scenarios
  <1>. QED
    BY <1>1, <1>3, <1>4, JobEnds

LEMMA AfterKeeps ==
  ASSUME VerifyInv, AfterPlatform \/ AfterRuntime \/ AfterVisual
  PROVE  VerifyInv'
  <1>1. UNCHANGED <<world, saved, at, proc, left>> /\ phase' \in Phases /\ saved \in Saved
    BY VerifyShapes DEF VerifyInv, AfterPlatform, AfterRuntime, AfterVisual, Phases
  <1>. QED
    BY <1>1, SavedStays, JobStays

LEMMA OrphanEndsKeeps ==
  ASSUME VerifyInv, OrphanEnds
  PROVE  VerifyInv'
  <1>1. UNCHANGED <<world, phase, saved, at, proc>> /\ left' \subseteq left /\ saved \in Saved /\ phase \in Phases
    BY VerifyShapes DEF VerifyInv, OrphanEnds
  <1>. QED
    BY <1>1, SavedStays, JobStays

LEMMA JobFailsKeeps ==
  ASSUME VerifyInv, JobFails
  PROVE  VerifyInv'
  <1>1. /\ at' = NoJob /\ proc' = NoProc /\ UNCHANGED <<world, phase, saved, left>>
        /\ saved \in Saved /\ phase \in Phases /\ left \subseteq Orphans /\ MayBeLeft(left')
    BY VerifyShapes DEF VerifyInv, JobFails, ProcessIsOfJob, NothingLeftRunning, MayBeLeft, Excused
  <1>. QED
    BY <1>1, SavedStays, JobEnds

LEMMA WorkerDiesKeeps ==
  ASSUME VerifyInv, WorkerDies
  PROVE  VerifyInv'
  <1>1. /\ at' = NoJob /\ proc' = NoProc /\ UNCHANGED <<world, phase, saved>>
        /\ saved \in Saved /\ phase \in Phases /\ left \subseteq Orphans /\ MayBeLeft(left) /\ proc \in Procs
    BY VerifyShapes DEF VerifyInv, WorkerDies, NothingLeftRunning, MayBeLeft, Excused
  <1>2. CASE Running /\ Leaves(proc.what, "crash")
    <2>1. proc.what # "none"
      BY <1>2, VerifyShapes, Positions DEF VerifyInv, WorkerDies, ProcessIsOfJob, NoProc, Jobs, Running
    <2>2. Excused([what |-> IF proc.what \in StepKinds THEN "command" ELSE proc.what, why |-> "crash"])
      BY DEF WorkerDies, Excused
    <2>3. left' \subseteq Orphans /\ MayBeLeft(left')
      BY <1>1, <1>2, <2>1, <2>2, LeavesMore DEF Procs
    <2>. QED
      BY <1>1, <2>3, SavedStays, JobEnds
  <1>3. CASE UNCHANGED left
    BY <1>1, <1>3, SavedStays, JobEnds DEF MayBeLeft, Excused
  <1>. QED
    BY <1>2, <1>3 DEF WorkerDies

LEMMA VerifyStutterKeeps ==
  ASSUME VerifyInv, UNCHANGED verifyVars
  PROVE  VerifyInv'
  <1>1. UNCHANGED <<world, phase, saved, at, proc, left>> /\ saved \in Saved /\ phase \in Phases
    BY VerifyShapes DEF VerifyInv, verifyVars
  <1>. QED
    BY <1>1, SavedStays, JobStays

LEMMA VerifyNextKeeps ==
  ASSUME VerifyInv, [VerifyNext]_verifyVars
  PROVE  VerifyInv'
  <1>1. CASE VerifySteps
    BY <1>1, BeginPlatformKeeps, StartCommandKeeps, EndPlatformKeeps, AfterKeeps, BeginRuntimeKeeps, NotReadyKeeps,
       ScenarioKeeps, EndRuntimeKeeps, LookKeeps DEF VerifySteps
  <1>. QED
    BY <1>1, CommandExitsKeeps, CommandTimeoutKeeps, AppGoes, ReadyKeeps, ScenarioThrowsKeeps, JobFailsKeeps,
       WorkerDiesKeeps, OrphanEndsKeeps, VerifyStutterKeeps DEF VerifyNext

LEMMA VerifyInitHolds == VerifyInit => VerifyInv
  <1>. SUFFICES ASSUME VerifyInit
                PROVE  VerifyInv
    OBVIOUS
  <1>1. /\ world \in Worlds /\ phase = "PLATFORM_VERIFICATION" /\ at = NoJob /\ proc = NoProc /\ left = {}
        /\ saved = [platform |-> NoRun, runtime |-> NoRun, visual |-> NoRun]
    BY DEF VerifyInit, Worlds
  <1>2. saved \in Saved
    BY <1>1 DEF Saved
  <1>3. /\ at \in Jobs /\ at.pc = "idle" /\ at.done = {} /\ at.shown = <<>>
    <2>1. [k \in StepKinds |-> NotRun] \in Results
      BY DEF Results, NotRun
    <2>. QED
      BY <1>1, <2>1 DEF NoJob, Jobs, Shown
  <1>4. /\ proc \in Procs /\ proc.what = "none" /\ proc.stubborn = FALSE /\ "none" \notin StepKinds
    BY <1>1, Positions DEF NoProc, Procs
  <1>5. Scenarios \in Nat
    BY DEF Scenarios
  <1>6. VerifyTypeOK
    BY <1>1, <1>2, <1>3, <1>4, <1>5, VerifyShapes DEF Phases
  <1>7. ProcessIsOfJob /\ CommandIsNext /\ ScenariosAreShown
    BY <1>1, <1>3, <1>4 DEF ProcessIsOfJob, CommandIsNext, ScenariosAreShown
  <1>8. PassIsEarned /\ LaunchedPassIsEarned /\ NothingLeftRunning
    BY <1>1 DEF PassIsEarned, LaunchedPassIsEarned, NothingLeftRunning, NoRun
  <1>. QED
    BY <1>6, <1>7, <1>8 DEF VerifyInv
-----------------------------------------------------------------------------
(* Theorems *)

\* Every reachable state satisfies the inductive invariant.
THEOREM VerifyInvariant == VerifySpec => []VerifyInv
  <1>1. VerifyInit => VerifyInv
    BY VerifyInitHolds
  <1>2. VerifyInv /\ [VerifyNext]_verifyVars => VerifyInv'
    BY VerifyNextKeeps
  <1>. QED
    BY <1>1, <1>2, PTL DEF VerifySpec

\* The job, its process, the orphans and the saved runs have their shapes.
THEOREM VerifyTypeCorrect == VerifySpec => []VerifyTypeOK
  <1>1. VerifyInv => VerifyTypeOK
    BY DEF VerifyInv
  <1>. QED
    BY <1>1, VerifyInvariant, PTL

\* For every plan: a platform run is saved as PASS only when each step of the plan
\* has exited with 0 and in time, and as PARTIAL only when each required one has.
\* What ends the loop early, a required install that failed, blocks.
THEOREM EarnedPass == VerifySpec => []PassIsEarned
  <1>1. VerifyInv => PassIsEarned
    BY DEF VerifyInv
  <1>. QED
    BY <1>1, VerifyInvariant, PTL

\* For every plan and kind of application: a runtime run of an application that
\* is launched is saved as PASS only after all its scenarios, each of which
\* passed; the exit, the startup timer and the deadline of the application make
\* it fail wherever they come between.
THEOREM EarnedLaunchedPass == VerifySpec => []LaunchedPassIsEarned
  <1>1. VerifyInv => LaunchedPassIsEarned
    BY DEF VerifyInv
  <1>. QED
    BY <1>1, VerifyInvariant, PTL

\* A job that is over waits for no process: every end of a runtime verification, a
\* throw of the harness too, goes through shutdownManagedProcess.  What still runs
\* is excused by a crash, a start that was reported as failed, a leader that had
\* exited before its processes, an ignored SIGTERM (never of a command, which is
\* waited for) or a docker that did not obey.
THEOREM NothingLeft == VerifySpec => []NothingLeftRunning
  <1>1. VerifyInv => NothingLeftRunning
    BY DEF VerifyInv
  <1>. QED
    BY <1>1, VerifyInvariant, PTL
=============================================================================
