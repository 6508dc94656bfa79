---------------------------- MODULE Verification ----------------------------
(***************************************************************************)
(* What the platform verifies of one checkpoint: the jobs                  *)
(* PLATFORM_VERIFICATION (verify/pipeline.js), RUNTIME_VERIFICATION        *)
(* (runtime/pipeline.js and its adapters) and VISUAL_VERIFICATION          *)
(* (visual/pipeline.js), with the commands and the applications they run   *)
(* in a sandbox, on the host or in a container.                            *)
(*                                                                         *)
(* A process ends when it likes; a timer only sends it SIGTERM, which it   *)
(* may ignore.  Of a process of the host the platform knows the first one  *)
(* only: what that has started may outlive it.  Of a container it knows    *)
(* what docker says.  The worker may die at any step and leave its process *)
(* to itself.  A finished run is saved before its job moves the project on,   *)
(* so a repeated job replays it; an unfinished one starts again.           *)
(***************************************************************************)
EXTENDS Naturals, Sequences

CONSTANTS
  Sandboxes,     \* a subset of {"local", "container"}
  AppKinds,      \* what is built, a subset of AllAppKinds
  Plans,         \* verification plans: [workspace, steps, required, conflict]
  VerifyFaults   \* a subset of AllVerifyFaults

\* MOBILE: Android and iOS.
AllAppKinds == {"WEB_UI", "BACKEND", "CLI", "DESKTOP", "MOBILE", "UNKNOWN"}

AllVerifyFaults ==
  { "crash",      \* the worker process dies
    "error",      \* the sandbox, the browser harness or the Council throws
    "stubborn",   \* a process ignores SIGTERM
    "docker" }    \* docker does not do what it is asked

\* ORDER of verify/plan.js, the kinds after the build as two.
Order == <<"install", "build", "test", "audit">>
StepKinds == {Order[k] : k \in DOMAIN Order}

ASSUME VerificationAssumption ==
  /\ Sandboxes \subseteq {"local", "container"} /\ AppKinds \subseteq AllAppKinds
  /\ \A p \in Plans : /\ p.workspace \in BOOLEAN /\ p.conflict \in BOOLEAN
                      /\ p.required \subseteq p.steps /\ p.steps \subseteq StepKinds
  /\ VerifyFaults \subseteq AllVerifyFaults

VARIABLES
  world,  \* the sandbox, the plan, the kind of the application
  phase,  \* project.state
  saved,  \* the runs that are saved, of this checkpoint
  at,     \* the job at work and its run so far
  proc,   \* the process it waits for
  left    \* processes that outlived their run

verifyVars == <<world, phase, saved, at, proc, left>>

NoProc == [what |-> "none", state |-> "none", stubborn |-> FALSE, timed |-> FALSE, kin |-> FALSE]
NotRun == [exit |-> "none", timedOut |-> FALSE]
NoJob == [pc |-> "idle", result |-> [k \in StepKinds |-> NotRun], done |-> {}, shown |-> <<>>]
NoRun == [status |-> "NONE"]

VerifyInit ==
  /\ world \in [box: Sandboxes, plan: Plans, kind: AppKinds, launchable: BOOLEAN, tools: BOOLEAN]
  /\ phase = "PLATFORM_VERIFICATION"
  /\ saved = [platform |-> NoRun, runtime |-> NoRun, visual |-> NoRun]
  /\ at = NoJob /\ proc = NoProc /\ left = {}

Plan == world.plan
Saves(kind, run) ==
  /\ saved' = [saved EXCEPT ![kind] = run]
  /\ at' = NoJob
-----------------------------------------------------------------------------
(* Processes *)

Spawned(what) ==
  \E s \in (IF "stubborn" \in VerifyFaults THEN BOOLEAN ELSE {FALSE}) :
    proc' = [what |-> what, state |-> "up", stubborn |-> s, timed |-> FALSE, kin |-> FALSE]

Leaves(what, why) ==
  left' = left \cup {[what |-> IF what \in StepKinds THEN "command" ELSE what, why |-> why]}

\* Something of it runs: itself, what it has started and left behind (kin), or a
\* container that docker could not be asked about.
Running == proc.state = "up" \/ proc.kin

\* To be told to stop is not enough.
Defies == IF world.box = "local" THEN proc.stubborn ELSE "docker" \in VerifyFaults

\* A process of the host that has left the group of the first one is not
\* signalled, nor is a group whose leader has exited.
Survives(why) ==
  \/ why = "headless" /\ world.box = "local" /\ Running
  \/ why = "told" /\ Defies /\ (proc.state = "up" \/ (world.box = "container" /\ proc.kin))

\* shutdownManagedProcess: docker is asked to kill a container, and nobody looks
\* at the answer; a process of the host gets SIGTERM with its group.
Shutdown ==
  /\ proc' = NoProc
  /\ \/ UNCHANGED left
     \/ \E why \in {"headless", "told"} : Survives(why) /\ Leaves(proc.what, why)

\* A process that outlived its run ends by itself; a container may be removed
\* by cleanupOrphanSandboxes of a later boot.
OrphanEnds ==
  /\ \E o \in left : left' = left \ {o}
  /\ UNCHANGED <<world, phase, saved, at, proc>>
-----------------------------------------------------------------------------
(* Platform verification *)

\* Mutant: a command that was killed and then exits with 0 has passed.
FailedByExit(r) == r.exit # "zero"

Failed(r) == r.timedOut \/ r.exit # "zero"

\* The steps that are still to be run: none when a required install failed.
ToGo ==
  IF "install" \in at.done \cap Plan.required /\ Failed(at.result["install"]) THEN {}
  ELSE Plan.steps \ at.done

Position(k) == CHOOSE n \in DOMAIN Order : Order[n] = k
NextStep == CHOOSE k \in ToGo : \A l \in ToGo : Position(k) <= Position(l)

\* blockingFailures, and the status they make with the other steps.
Blocking(result) == Plan.conflict \/ \E k \in at.done \cap Plan.required : Failed(result[k])
PlatformStatus(result) ==
  IF Blocking(result) THEN "FAIL"
  ELSE IF \E k \in at.done : Failed(result[k]) THEN "PARTIAL" ELSE "PASS"

\* findReusableVerification, and the completed run that is replayed.
Unverified == saved.platform = NoRun

\* A workspace that is missing makes a run that passes with nothing in it.
BeginPlatform ==
  /\ phase = "PLATFORM_VERIFICATION" /\ at.pc = "idle" /\ Unverified
  /\ \/ /\ Plan.workspace
        /\ at' = [at EXCEPT !.pc = "command"] /\ UNCHANGED saved
     \/ /\ ~Plan.workspace
        /\ Saves("platform", [status |-> "PASS", blocking |-> FALSE, result |-> at.result])
  /\ UNCHANGED <<world, phase, proc, left>>

Closes(r) ==
  /\ at' = [at EXCEPT !.pc = "command", !.result[NextStep] = r, !.done = @ \cup {NextStep}]
  /\ proc' = NoProc

\* executeSandboxedCommand: the executable may be missing.
StartCommand ==
  /\ at.pc = "command" /\ ToGo # {}
  /\ \/ Spawned(NextStep) /\ at' = [at EXCEPT !.pc = "running"]
     \/ Closes(NotRun)
  /\ UNCHANGED <<world, phase, saved, left>>

\* The promise of execute is resolved when the process has closed, and only
\* then; a container is removed after it.  On the host what the command has
\* started may go on.
CommandExits ==
  /\ at.pc = "running"
  /\ \E exit \in {"zero", "other"} : Closes([exit |-> exit, timedOut |-> proc.timed])
  /\ \/ UNCHANGED left
     \/ world.box = "local" /\ Leaves(proc.what, "headless")
     \/ world.box = "container" /\ Defies /\ Leaves(proc.what, "told")
  /\ UNCHANGED <<world, phase, saved>>

\* The timer of a command: SIGTERM to the child or to the docker client, which
\* passes it on.
CommandTimeout ==
  /\ at.pc = "running" /\ ~proc.timed
  /\ proc' = [proc EXCEPT !.timed = TRUE]
  /\ UNCHANGED <<world, phase, saved, at, left>>

EndPlatform ==
  /\ at.pc = "command" /\ ToGo = {}
  /\ Saves("platform", [status |-> PlatformStatus(at.result), blocking |-> Blocking(at.result), result |-> at.result])
  /\ UNCHANGED <<world, phase, proc, left>>

SkipsRuntime == saved.platform.blocking

AfterPlatform ==
  /\ phase = "PLATFORM_VERIFICATION" /\ at.pc = "idle" /\ saved.platform # NoRun
  /\ phase' = IF SkipsRuntime THEN "COUNCIL_REVIEW" ELSE "RUNTIME_VERIFICATION"
  /\ UNCHANGED <<world, saved, at, proc, left>>
-----------------------------------------------------------------------------
(* Runtime verification *)

\* planScenarios: how many there are for a kind of application, all of them
\* critical; of a desktop application none.  Bound: one viewport.
Scenarios == IF world.kind = "WEB_UI" THEN 2 ELSE IF world.kind = "DESKTOP" THEN 0 ELSE 1

Launches == world.kind \in {"WEB_UI", "BACKEND"}
RuntimeRun(status, blocking, shown) == [status |-> status, blocking |-> blocking, shown |-> shown]
FailedToStart == RuntimeRun("FAIL", TRUE, <<>>)

\* What needs no launch to be told: prepare of the web adapter, a launch that is
\* skipped or unavailable.
ToldBefore ==
  IF \/ ~Plan.workspace \/ world.kind = "UNKNOWN"
     \/ world.kind = "BACKEND" /\ ~world.launchable THEN RuntimeRun("NOT_APPLICABLE", FALSE, <<>>)
  ELSE IF world.kind = "WEB_UI" /\ ~world.launchable THEN FailedToStart
  ELSE IF world.kind = "MOBILE" /\ ~world.tools THEN RuntimeRun("NOT_RUN", FALSE, <<>>)
  ELSE NoRun

\* launchSandboxedProcess throws; the process or the container may be up all the
\* same, and nobody has its handle.
StartThrows(what) == (UNCHANGED left \/ Leaves(what, "start")) /\ UNCHANGED proc

LaunchFails == Saves("runtime", FailedToStart) /\ StartThrows("app")

\* An application is launched, with a timer that nothing but its shutdown
\* clears.
BeginRuntime ==
  /\ phase = "RUNTIME_VERIFICATION" /\ at.pc = "idle" /\ saved.runtime = NoRun
  /\ \/ ToldBefore # NoRun /\ Saves("runtime", ToldBefore) /\ UNCHANGED <<proc, left>>
     \/ /\ ToldBefore = NoRun /\ Launches
        /\ \/ /\ Spawned("app") /\ at' = [at EXCEPT !.pc = "waiting"]
              /\ UNCHANGED <<saved, left>>
           \/ LaunchFails
     \/ /\ ToldBefore = NoRun /\ ~Launches
        /\ at' = [at EXCEPT !.pc = "scenario"] /\ UNCHANGED <<saved, proc, left>>
  /\ UNCHANGED <<world, phase>>

\* On the host its own processes may outlive it; a container is believed to have
\* exited when docker cannot be asked.
AppExits ==
  /\ proc.what = "app" /\ proc.state = "up"
  /\ \E kin \in (IF world.box = "local" \/ Defies THEN BOOLEAN ELSE {FALSE}) :
       proc' = [proc EXCEPT !.state = "gone", !.kin = kin]
  /\ UNCHANGED <<world, phase, saved, at, left>>

\* The timer of launchManagedProcess goes off, whether the application is ready
\* or not: the same shutdown.
StartupTimer ==
  /\ proc.what = "app" /\ ~proc.timed
  /\ \/ Defies /\ proc' = [proc EXCEPT !.timed = TRUE]
     \/ \E kin \in BOOLEAN :
          /\ kin => Survives("headless")
          /\ proc' = [proc EXCEPT !.timed = TRUE, !.state = "gone", !.kin = kin]
  /\ UNCHANGED <<world, phase, saved, at, left>>

Ready ==
  /\ at.pc = "waiting" /\ Running
  /\ at' = [at EXCEPT !.pc = "scenario"]
  /\ UNCHANGED <<world, phase, saved, proc, left>>

\* Mutant: only a run that gets to its end shuts the application down.
NotReadyLeaves ==
  /\ at.pc = "waiting"
  /\ Saves("runtime", FailedToStart)
  /\ UNCHANGED <<world, phase, proc, left>>

\* The process has exited, or the deadline of waitUntilReady has passed.
NotReady ==
  /\ at.pc = "waiting"
  /\ Saves("runtime", FailedToStart) /\ Shutdown
  /\ UNCHANGED <<world, phase>>

\* What a scenario comes to.
LaunchedOutcomes == IF Running THEN {"PASS", "FAIL"} ELSE {"FAIL"}

\* A CLI that is still running after its 15 seconds is stopped.
CliOutcomes == {"PASS", "FAIL", "hung"}

\* Of other kinds nothing is executed.
Outcomes ==
  IF Launches THEN LaunchedOutcomes
  ELSE IF world.kind = "CLI" THEN CliOutcomes ELSE {"NOT_RUN"}

\* Of a CLI nothing is waited for once it was stopped or has exited.
CliLeaves(o) ==
  \/ world.box = "local" /\ o # "hung" /\ Leaves("cli", "headless")
  \/ world.box = "local" /\ o = "hung" /\ "stubborn" \in VerifyFaults /\ Leaves("cli", "told")
  \/ world.box = "container" /\ "docker" \in VerifyFaults /\ Leaves("cli", "told")

Scenario ==
  /\ at.pc = "scenario" /\ Len(at.shown) < Scenarios
  /\ \E o \in Outcomes :
       /\ at' = [at EXCEPT !.shown = Append(@, o)]
       /\ \/ UNCHANGED left
          \/ world.kind = "CLI" /\ CliLeaves(o)
  /\ UNCHANGED <<world, phase, saved, proc>>

\* executed.status: the exit code of a CLI that was stopped is null.
RecordedStatus(o) == IF o = "hung" THEN "PASS" ELSE o

RuntimeStatus(shown, blocked) ==
  IF blocked THEN "FAIL"
  ELSE IF \E n \in DOMAIN shown : RecordedStatus(shown[n]) = "FAIL" THEN "PARTIAL" ELSE "PASS"

\* Mutant: the run ends with the application.
ShownOrGone == Len(at.shown) = Scenarios \/ proc.state = "gone"

AllShown == Len(at.shown) = Scenarios

\* All scenarios are executed: one that failed blocks, and so may accessibility.
EndRuntime ==
  /\ at.pc = "scenario" /\ AllShown
  /\ \E a11y \in (IF world.kind = "WEB_UI" THEN BOOLEAN ELSE {FALSE}) :
       LET blocked == a11y \/ \E n \in DOMAIN at.shown : RecordedStatus(at.shown[n]) = "FAIL" IN
       Saves("runtime", RuntimeRun(RuntimeStatus(at.shown, blocked), blocked, at.shown))
  /\ Shutdown
  /\ UNCHANGED <<world, phase>>

\* The browser harness or the start of a CLI throws.
ScenarioThrows ==
  /\ "error" \in VerifyFaults /\ at.pc = "scenario" /\ Len(at.shown) < Scenarios
  /\ Saves("runtime", RuntimeRun("FAIL", TRUE, at.shown))
  /\ \/ world.kind = "WEB_UI" /\ Shutdown
     \/ world.kind = "CLI" /\ StartThrows("cli")
  /\ UNCHANGED <<world, phase>>

\* Policy: only what has a user interface is looked at.
Visible == Plan.workspace /\ world.kind \in {"WEB_UI", "DESKTOP", "MOBILE"}

AfterRuntime ==
  /\ phase = "RUNTIME_VERIFICATION" /\ at.pc = "idle" /\ saved.runtime # NoRun
  /\ phase' = IF saved.runtime.blocking \/ ~Visible THEN "COUNCIL_REVIEW" ELSE "VISUAL_VERIFICATION"
  /\ UNCHANGED <<world, saved, at, proc, left>>
-----------------------------------------------------------------------------
(* Visual verification *)

Screenshots == world.kind = "WEB_UI" /\ saved.runtime.shown # <<>>

Look ==
  /\ phase = "VISUAL_VERIFICATION" /\ at.pc = "idle" /\ saved.visual = NoRun
  /\ \/ ~Screenshots /\ Saves("visual", [status |-> "NOT_APPLICABLE"])
     \/ /\ Screenshots
        /\ \E said \in {"COMPLETE", "CHANGES_REQUIRED"} :
             Saves("visual", [status |-> said])
  /\ UNCHANGED <<world, phase, proc, left>>

AfterVisual ==
  /\ phase = "VISUAL_VERIFICATION" /\ at.pc = "idle" /\ saved.visual # NoRun
  /\ phase' = "COUNCIL_REVIEW"
  /\ UNCHANGED <<world, saved, at, proc, left>>
-----------------------------------------------------------------------------
\* The job fails before its process is there, and is retried.
JobFails ==
  /\ "error" \in VerifyFaults /\ at.pc = "command"
  /\ at' = NoJob
  /\ UNCHANGED <<world, phase, saved, proc, left>>

\* The worker dies; what it runs may go on.
WorkerDies ==
  /\ "crash" \in VerifyFaults /\ at.pc # "idle"
  /\ IF Running THEN Leaves(proc.what, "crash") ELSE UNCHANGED left
  /\ at' = NoJob /\ proc' = NoProc
  /\ UNCHANGED <<world, phase, saved>>

VerifySteps ==
  \/ BeginPlatform \/ StartCommand \/ EndPlatform \/ AfterPlatform
  \/ BeginRuntime \/ NotReady \/ Scenario \/ EndRuntime \/ AfterRuntime
  \/ Look \/ AfterVisual

VerifyNext ==
  \/ VerifySteps \/ CommandExits \/ CommandTimeout \/ AppExits \/ StartupTimer \/ Ready
  \/ ScenarioThrows \/ JobFails \/ WorkerDies \/ OrphanEnds

\* A process that got SIGTERM and does not ignore it ends.
Obeys == proc.timed /\ ~proc.stubborn /\ CommandExits

VerifyFairness == WF_verifyVars(VerifySteps \/ CommandTimeout \/ Obeys)

VerifySpec == VerifyInit /\ [][VerifyNext]_verifyVars /\ VerifyFairness
-----------------------------------------------------------------------------
(* Properties *)

Results == [StepKinds -> [exit: {"none", "zero", "other"}, timedOut: BOOLEAN]]
Shown == Seq({"PASS", "FAIL", "hung", "NOT_RUN"})

\* The job, its process and the saved runs have their shapes.
VerifyTypeOK ==
  /\ world \in [box: Sandboxes, plan: Plans, kind: AppKinds, launchable: BOOLEAN, tools: BOOLEAN]
  /\ phase \in {"PLATFORM_VERIFICATION", "RUNTIME_VERIFICATION", "VISUAL_VERIFICATION", "COUNCIL_REVIEW"}
  /\ at \in [pc: {"idle", "command", "running", "waiting", "scenario"}, result: Results,
             done: SUBSET Plan.steps, shown: Shown]
  /\ Len(at.shown) <= Scenarios
  /\ proc \in [what: StepKinds \cup {"app", "none"}, state: {"none", "up", "gone"},
               stubborn: BOOLEAN, timed: BOOLEAN, kin: BOOLEAN]
  /\ at.pc = "running" <=> proc.what \in StepKinds
  /\ left \subseteq [what: {"command", "app", "cli"}, why: {"crash", "start", "told", "headless"}]
  /\ saved \in
       [platform: {NoRun} \cup [status: {"PASS", "PARTIAL", "FAIL"}, blocking: BOOLEAN, result: Results],
        runtime: {NoRun} \cup [status: {"PASS", "PARTIAL", "FAIL", "NOT_RUN", "NOT_APPLICABLE"},
                               blocking: BOOLEAN, shown: Shown],
        visual: {NoRun} \cup [status: {"COMPLETE", "CHANGES_REQUIRED", "NOT_APPLICABLE"}]]

Passed(r) == r.exit = "zero" /\ ~r.timedOut

\* A platform run that passed has run every step of its plan to a clean end; one
\* that is partial, at least every required step.  No timeout, missing tool or
\* failed install is lost on the way, whatever attempt the run is of.
PassIsEarned ==
  LET run == saved.platform IN
  /\ run.status = "PASS" /\ Plan.workspace => ~Plan.conflict /\ \A k \in Plan.steps : Passed(run.result[k])
  /\ run.status = "PARTIAL" => ~Plan.conflict /\ \A k \in Plan.required : Passed(run.result[k])

\* An application that was launched passes only if it has been through all its
\* scenarios and has done what they ask; an exit, the startup timer, a deadline
\* at whatever moment is not overlooked.
LaunchedPassIsEarned ==
  saved.runtime.status = "PASS" /\ Launches =>
    Len(saved.runtime.shown) = Scenarios /\ \A n \in 1..Scenarios : saved.runtime.shown[n] = "PASS"

\* A runtime that passed was executed ("Not marked verified unless launched").
RuntimePassIsEarned == saved.runtime.status = "PASS" => saved.runtime.shown # <<>>

\* A job that is over holds no process, and what still runs has one of these
\* reasons: its worker died; its start was reported as failed; on the host, it was
\* started by another process, which had exited or whose group it had left
\* (headless), or it ignores SIGTERM, which no command does whose end is waited
\* for; in a container, docker did not do what it was asked
\* (shutdownManagedProcess, killTree).
NothingLeftRunning ==
  /\ at.pc = "idle" => proc = NoProc
  /\ \A o \in left :
       /\ o.why = "crash" => "crash" \in VerifyFaults
       /\ o.why = "start" => o.what # "command"
       /\ o.why = "headless" => world.box = "local"
       /\ o.why = "told" => IF world.box = "local" THEN "stubborn" \in VerifyFaults /\ o.what # "command"
                            ELSE "docker" \in VerifyFaults

Verifying == at.pc # "idle"

\* A command that ignores the SIGTERM of its timer, or whose output is held by a
\* process of its own that was not signalled, is waited for without end.
Stuck == at.pc = "running" /\ proc.stubborn
=============================================================================
