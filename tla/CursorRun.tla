----------------------------- MODULE CursorRun -----------------------------
(***************************************************************************)
(* One worker's CURSOR_EXECUTING jobs: the orchestrator's executeCursor,   *)
(* the two Cursor clients, the postflight and the checkpoint commit.       *)
(*                                                                         *)
(* A call of cursor.run is raced against a timer.  When the timer wins,    *)
(* the attempt fails but nothing stops the call's own frame: it, its       *)
(* ownership interval and its agent may live on beside the retry, and the  *)
(* client has one slot (this.active) for all of them.  An agent is another *)
(* process: it edits the worktree between any two steps of the worker.     *)
(*                                                                         *)
(* ACP starts a local agent in the worktree, CLOUD a remote run.  The      *)
(* client tells its agent to stop (SIGTERM) and does not wait until it is  *)
(* gone, with the processes it has started: an agent that is ending still  *)
(* works in the worktree, beside the postflight.  The permission policy    *)
(* lets an agent use `git add`, `git commit` and `git checkout` of a file. *)
(*                                                                         *)
(* An abandoned call that is still opening its session stays there.  The   *)
(* tables of a project keep no agent, run or session id but                *)
(* cursor_runs.session_id, and a checkpoint only with the result; so       *)
(* nothing is resumed or recovered by one (Reload).  Left out: agents that *)
(* switch, merge or rebase the branch, and names that git quotes.          *)
(***************************************************************************)
EXTENDS Naturals, Sequences, FiniteSets

CONSTANTS
  Backends,       \* a subset of {"ACP", "CLOUD"}
  MaxIterations,  \* bound: iterations of implementation and verification
  MaxCalls,       \* bound: calls of cursor.run
  MaxChanges,     \* bound: uncommitted changes at a time
  MaxOwnCommits,  \* bound: commits of the agents
  CursorFaults    \* what goes wrong, a subset of AllCursorFaults

AllCursorFaults ==
  { "crash",   \* the worker process dies
    "error",   \* the agent or the service answers with an error
    "stop",    \* a run ends with a failing stop reason
    "lease" }  \* the queue says the worker does not own the job

ASSUME CursorAssumption ==
  /\ Backends \subseteq {"ACP", "CLOUD"} /\ Backends # {}
  /\ MaxIterations \in Nat \ {0} /\ MaxCalls \in Nat \ {0} /\ MaxChanges \in Nat /\ MaxOwnCommits \in Nat
  /\ CursorFaults \subseteq AllCursorFaults

Calls == 1..MaxCalls
Iterations == 1..MaxIterations
Nobody == 0                        \* null, where a call or a commit is named

VARIABLES
  backend,    \* resolveCursorBackend: one per project
  stage,      \* project.state
  iteration,  \* project.iteration
  row,        \* the cursor_runs row of each iteration
  attempt,    \* the job at work: executeCursor
  owned,      \* what queue.owns says of that job
  call,       \* the calls of cursor.run, with their frames
  active,     \* the client's slot: the call it would cancel
  agent,      \* the agent or the remote run of each call
  tree        \* the worktree and its branch

cursorVars == <<backend, stage, iteration, row, attempt, owned, call, active, agent, tree>>

\* What an agent changes: code, a file with the name of a secret, a key in a
\* file of another name.  An agent that was told to stop is late.
Edits == [of: Calls, kind: {"code", "secret", "key"}, late: BOOLEAN]
IsSecret(e) == e.kind # "code"
HasSecretName(e) == e.kind = "secret"

\* A commit, and who decided what is in it.
Commits == [edits: SUBSET Edits, by: {"agent", "platform", "both"}]

NoRow == [status |-> "NONE", session |-> FALSE, result |-> Nobody, checkpoint |-> 0]
NoAttempt == [pc |-> "idle", call |-> Nobody, run |-> Nobody, checkpoint |-> 0]
NoCall ==
  [ exec |-> "none", run |-> "none", job |-> Nobody, target |-> Nobody,
    session |-> FALSE, cancelled |-> FALSE, cancelling |-> FALSE, watch |-> FALSE ]

CursorTypeOK ==
  /\ backend \in Backends
  /\ stage \in {"CURSOR_EXECUTING", "PLATFORM_VERIFICATION", "DELIVERY_PREPARATION"}
  /\ iteration \in Iterations
  /\ row \in [Iterations -> [status: {"NONE", "STARTED", "FAILED", "RECOVERY_REQUIRED", "COMPLETED"},
                             session: BOOLEAN, result: Calls \cup {Nobody}, checkpoint: Nat]]
  /\ attempt \in [pc: {"idle", "preflight", "waiting", "collecting", "listing", "adding",
                       "scanning", "committing", "committed", "recording", "recorded"},
                  call: Calls \cup {Nobody}, run: Calls \cup {Nobody}, checkpoint: Nat]
  /\ attempt.pc = "idle" => attempt = NoAttempt
  /\ owned \in BOOLEAN
  /\ call \in [Calls -> [exec: {"none", "opening", "prompted", "done"},
                         run: {"none", "open", "ok", "stopped", "abandoned", "over"},
                         job: Iterations \cup {Nobody}, target: Calls \cup {Nobody},
                         session: BOOLEAN, cancelled: BOOLEAN, cancelling: BOOLEAN, watch: BOOLEAN]]
  /\ active \in Calls \cup {Nobody}
  /\ agent \in [Calls -> {"none", "up", "working", "ending", "finished", "dead"}]
  /\ tree \in [pending: SUBSET Edits, staged: SUBSET Edits, touched: BOOLEAN, commits: Seq(Commits)]

CursorInit ==
  /\ backend \in Backends
  /\ stage = "CURSOR_EXECUTING" /\ iteration = 1
  /\ row = [i \in Iterations |-> NoRow]
  /\ attempt = NoAttempt /\ owned = TRUE
  /\ call = [c \in Calls |-> NoCall] /\ active = Nobody
  /\ agent = [c \in Calls |-> "none"]
  /\ tree = [pending |-> {}, staged |-> {}, touched |-> FALSE, commits |-> <<>>]
-----------------------------------------------------------------------------
(* The worktree *)

Dirty == tree.pending \cup tree.staged # {}
HeadSha == Len(tree.commits)
Committed(n) == UNION {tree.commits[k].edits : k \in 1..n}
Everything == tree.pending \cup tree.staged \cup Committed(HeadSha)

StageAll == tree' = [tree EXCEPT !.pending = {}, !.staged = @ \cup tree.pending, !.touched = FALSE]

\* Mutant: the block throws the changes away.
UnstageHard == tree' = [tree EXCEPT !.pending = {}, !.staged = {}]

\* git reset HEAD: the index only.
Unstage == tree' = [tree EXCEPT !.pending = @ \cup tree.staged, !.staged = {}, !.touched = FALSE]

CommitStaged(by) ==
  tree' = [tree EXCEPT !.staged = {}, !.touched = FALSE,
                      !.commits = Append(@, [edits |-> tree.staged, by |-> by])]
-----------------------------------------------------------------------------
(* The agents in the worktree *)

\* An agent at work, or told to stop and not gone, uses the worktree at any
\* time; a remote run works on a clone of its own.
AtWork(c) == backend = "ACP" /\ agent[c] \in {"working", "ending"}

OnlyTree == UNCHANGED <<backend, stage, iteration, row, attempt, owned, call, active, agent>>

\* Between the platform's `git add` and its commit.
BeforeCommit == attempt.pc \in {"scanning", "committing"}

\* Bounds: one change of each call at a time, and one secret.
AgentEdits(c) ==
  /\ AtWork(c) /\ Cardinality(tree.pending \cup tree.staged) < MaxChanges
  /\ \E e \in Edits :
       /\ e.of = c /\ e.late = (agent[c] = "ending")
       /\ \A f \in Everything : f.of # c
       /\ IsSecret(e) => \A f \in Everything : ~IsSecret(f)
       /\ tree' = [tree EXCEPT !.pending = @ \cup {e}, !.touched = @ \/ attempt.pc = "scanning"]
  /\ OnlyTree

\* An uncommitted change is undone, by whichever agent (`git checkout` of a
\* file, or another edit).
AgentDrops(c) ==
  /\ AtWork(c)
  /\ \E e \in tree.pending \cup tree.staged :
       tree' = [tree EXCEPT !.pending = @ \ {e}, !.staged = @ \ {e}, !.touched = @ \/ BeforeCommit]
  /\ OnlyTree

AgentAdds(c) ==
  /\ AtWork(c)
  /\ \E e \in tree.pending :
       tree' = [tree EXCEPT !.pending = @ \ {e}, !.staged = @ \cup {e}, !.touched = @ \/ BeforeCommit]
  /\ OnlyTree

\* The agent's own commit on the branch of the project, of whatever is staged.
AgentCommits(c) ==
  /\ AtWork(c) /\ tree.staged # {}
  /\ Cardinality({k \in 1..HeadSha : tree.commits[k].by = "agent"}) < MaxOwnCommits
  /\ tree' = [tree EXCEPT !.staged = {}, !.touched = @ \/ BeforeCommit,
                          !.commits = Append(@, [edits |-> tree.staged, by |-> "agent"])]
  /\ OnlyTree

\* git refuses when an agent has the index.
GitBusy == \E c \in Calls : AtWork(c)
-----------------------------------------------------------------------------
(* The attempt *)

\* ctx.owns of a job: it is claimed, running, and its lease is ours.
Owns(j) == j = iteration /\ attempt.pc # "idle" /\ owned

\* A row as DurableStore.get returns it: without agent and run id.
Reload(i) == [session |-> row[i].session, run |-> Nobody]

HasResult == row[iteration].result # Nobody

\* Mutant: the attempt is not forgotten.
FailAttemptOnly ==
  /\ row' = [row EXCEPT ![iteration].status = "FAILED"]
  /\ attempt' = [attempt EXCEPT !.pc = "idle"]

\* The catch of executeCursor: the row is FAILED and the job is retried.
FailAttempt ==
  /\ row' = [row EXCEPT ![iteration].status = "FAILED"]
  /\ attempt' = NoAttempt

\* A job is claimed.  Uncommitted changes of an interrupted call are reported
\* and left alone.  The row becomes STARTED and is saved.
Claim ==
  /\ stage = "CURSOR_EXECUTING" /\ attempt.pc = "idle" /\ ~HasResult
  /\ \E c \in Calls :
       /\ call[c].exec = "none" /\ \A d \in Calls : call[d].exec = "none" => c <= d
       /\ attempt' = [NoAttempt EXCEPT !.pc = "preflight", !.call = c, !.run = Reload(iteration).run]
  /\ row' = [row EXCEPT ![iteration].status = "STARTED"]
  /\ owned' = TRUE
  /\ UNCHANGED <<backend, stage, iteration, call, active, agent, tree>>

\* A result of this iteration is not run again (finishOrReplayCursor), nor is
\* one that was recorded in this attempt: verification is entered.
Enter ==
  /\ stage = "CURSOR_EXECUTING" /\ HasResult
  /\ attempt.pc \in {"idle", "recorded"}
  /\ stage' = "PLATFORM_VERIFICATION" /\ attempt' = NoAttempt
  /\ UNCHANGED <<backend, iteration, row, owned, call, active, agent, tree>>

\* cursorPreflight lets the owner of the job pass, and cursor.run is called.
\* Both clients take the slot; an ACP agent starts, with its interval.  Only a
\* known run would be polled again (resumePoll).
Start ==
  /\ attempt.pc = "preflight" /\ owned
  /\ LET c == attempt.call
         resumes == backend = "CLOUD" /\ attempt.run # Nobody IN
       /\ call' = [call EXCEPT ![c] = [NoCall EXCEPT
            !.exec = IF resumes THEN "prompted" ELSE "opening",
            !.run = "open", !.job = iteration, !.watch = (backend = "ACP"),
            !.target = IF resumes THEN attempt.run ELSE c,
            !.session = row[iteration].session]]
       /\ active' = c
       /\ agent' = IF backend = "ACP" THEN [agent EXCEPT ![c] = "up"] ELSE agent
  /\ attempt' = [attempt EXCEPT !.pc = "waiting"]
  /\ UNCHANGED <<backend, stage, iteration, row, owned, tree>>

PreflightFails ==
  /\ attempt.pc = "preflight" /\ ~owned
  /\ FailAttempt
  /\ call' = [call EXCEPT ![attempt.call] = [NoCall EXCEPT !.exec = "done", !.run = "over"]]
  /\ UNCHANGED <<backend, stage, iteration, owned, active, agent, tree>>

\* The call has settled with an error, which ends the attempt.
RunFails ==
  /\ attempt.pc = "waiting" /\ call[attempt.call].run = "over"
  /\ FailAttempt
  /\ UNCHANGED <<backend, stage, iteration, owned, call, active, agent, tree>>

RunReturns ==
  /\ attempt.pc = "waiting" /\ call[attempt.call].run \in {"ok", "stopped"}
  /\ attempt' = [attempt EXCEPT !.pc = "collecting"]
  /\ UNCHANGED <<backend, stage, iteration, row, owned, call, active, agent, tree>>

\* inspectGit asks for HEAD first, and agents go on before it asks for the rest.
HeadThen == [collecting |-> "listing", committed |-> "recording"]

\* Mutant: the commit that is reported is the one the worktree was at before.
ReadHeadBefore ==
  /\ attempt.pc \in DOMAIN HeadThen
  /\ attempt' = [attempt EXCEPT !.pc = HeadThen[@], !.checkpoint = IF attempt.pc = "committed" THEN @ ELSE HeadSha]
  /\ UNCHANGED <<backend, stage, iteration, row, owned, call, active, agent, tree>>

ReadHead ==
  /\ attempt.pc \in DOMAIN HeadThen
  /\ attempt' = [attempt EXCEPT !.pc = HeadThen[@], !.checkpoint = HeadSha]
  /\ UNCHANGED <<backend, stage, iteration, row, owned, call, active, agent, tree>>

\* collectGitEvidence: names of secrets fail the attempt, a clean worktree needs
\* no commit.  The checkpoint commit asks again before it goes on, which is this
\* step taken later.  git status reports a new directory by its name, so that a
\* secret in it may go unnoticed until it is staged.  The local worktree is
\* inspected after a remote run too.
Collect ==
  /\ attempt.pc = "listing"
  /\ \/ /\ \E e \in tree.pending \cup tree.staged : HasSecretName(e)
        /\ FailAttempt
     \/ /\ \A e \in tree.staged : ~HasSecretName(e)
        /\ attempt' = [attempt EXCEPT !.pc = IF Dirty THEN "adding" ELSE "recording"]
        /\ UNCHANGED row
  /\ UNCHANGED <<backend, stage, iteration, owned, call, active, agent, tree>>

Add ==
  /\ attempt.pc = "adding"
  /\ \/ StageAll /\ attempt' = [attempt EXCEPT !.pc = "scanning"] /\ UNCHANGED row
     \/ GitBusy /\ FailAttempt /\ UNCHANGED tree
  /\ UNCHANGED <<backend, stage, iteration, owned, call, active, agent>>

\* Mutant: only what git status named was searched.
NothingFound == {}

\* The names of the staged files and their contents.
SecretsFound == {e \in tree.staged : IsSecret(e)}

\* The contents are those of the worktree, where an agent may have replaced the
\* key it had staged.  A block empties the index unless git refuses.
Scan ==
  /\ attempt.pc = "scanning"
  /\ \/ SecretsFound # {} /\ FailAttempt /\ (Unstage \/ (GitBusy /\ UNCHANGED tree))
     \/ /\ \A e \in SecretsFound : ~HasSecretName(e) /\ tree.touched
        /\ attempt' = [attempt EXCEPT !.pc = "committing"]
        /\ UNCHANGED <<row, tree>>
  /\ UNCHANGED <<backend, stage, iteration, owned, call, active, agent>>

\* The commit has what is in the index now; git fails when that is nothing.
Commit ==
  /\ attempt.pc = "committing"
  /\ \/ /\ tree.staged # {} /\ CommitStaged(IF tree.touched THEN "both" ELSE "platform")
        /\ attempt' = [attempt EXCEPT !.pc = "committed"] /\ UNCHANGED row
     \/ (tree.staged = {} \/ GitBusy) /\ FailAttempt /\ UNCHANGED tree
  /\ UNCHANGED <<backend, stage, iteration, owned, call, active, agent>>

\* failStop: an error, a cancellation or an expiry.
FailingStop(c) == call[c].run = "stopped"

\* A failing stop reason fails the attempt after the commit; otherwise the
\* result and the checkpoint are saved.
Record ==
  /\ attempt.pc = "recording"
  /\ \/ FailingStop(attempt.call) /\ FailAttempt
     \/ /\ ~FailingStop(attempt.call)
        /\ row' = [row EXCEPT ![iteration] =
             [@ EXCEPT !.status = "COMPLETED", !.result = attempt.call, !.checkpoint = attempt.checkpoint]]
        /\ attempt' = [attempt EXCEPT !.pc = "recorded"]
  /\ UNCHANGED <<backend, stage, iteration, owned, call, active, agent, tree>>

\* Verification and review end in another iteration or in the delivery.
Verified ==
  /\ stage = "PLATFORM_VERIFICATION"
  /\ \/ iteration < MaxIterations /\ iteration' = iteration + 1 /\ stage' = "CURSOR_EXECUTING"
     \/ stage' = "DELIVERY_PREPARATION" /\ UNCHANGED iteration
  /\ UNCHANGED <<backend, row, attempt, owned, call, active, agent, tree>>
-----------------------------------------------------------------------------
(* The frames of the calls *)

\* A frame that has ended, and how its call settled if it was not given up on.
Gone(c, outcome) ==
  [NoCall EXCEPT !.exec = "done", !.run = IF call[c].run = "open" THEN outcome ELSE call[c].run]

\* SIGTERM to an agent: close and cancel do not await its end.
Told(a) == IF a \in {"up", "working"} THEN "ending" ELSE a

\* Mutant: the interval is not cleared.
EndFrameWatched(c, outcome) ==
  /\ call' = [call EXCEPT ![c] = [Gone(c, outcome) EXCEPT !.job = call[c].job, !.watch = call[c].watch]]
  /\ agent' = IF backend = "ACP" THEN [agent EXCEPT ![c] = Told(@)] ELSE agent
  /\ active' = Nobody

\* The ACP client stops its agent and its interval; both clients empty
\* the slot, whoever has it.
EndFrame(c, outcome) ==
  /\ call' = [call EXCEPT ![c] = Gone(c, outcome)]
  /\ agent' = IF backend = "ACP" THEN [agent EXCEPT ![c] = Told(@)] ELSE agent
  /\ active' = Nobody

\* A remote run has been started and nobody knows.
LosesRun(c) ==
  /\ call' = [call EXCEPT ![c] = Gone(c, "over")]
  /\ agent' = [agent EXCEPT ![c] = "working"]
  /\ active' = Nobody

Opening(c) == call[c].exec = "opening" /\ call[c].run = "open"

\* The row learns of the session, and the prompt is sent.
Opened(c) ==
  /\ call' = [call EXCEPT ![c].exec = "prompted", ![c].session = TRUE]
  /\ agent' = [agent EXCEPT ![c] = IF @ = "ending" THEN @ ELSE "working"]
  /\ row' = [row EXCEPT ![call[c].job].session = TRUE]
  /\ UNCHANGED active

\* The session is made or loaded, and written into the slot.
OpensAcp(c) ==
  /\ backend = "ACP" /\ Opening(c) /\ agent[c] # "dead"
  /\ \/ active # Nobody /\ Opened(c)
     \/ active = Nobody /\ EndFrame(c, "over") /\ UNCHANGED row
  /\ UNCHANGED <<backend, stage, iteration, attempt, owned, tree>>

\* The run is posted: it works, even if the slot cannot be told of it.
OpensCloud(c) ==
  /\ backend = "CLOUD" /\ Opening(c)
  /\ \/ active # Nobody /\ Opened(c)
     \/ active = Nobody /\ LosesRun(c) /\ UNCHANGED row
  /\ UNCHANGED <<backend, stage, iteration, attempt, owned, tree>>

\* An error before the prompt; of a remote run, perhaps after it was started.
OpenFails(c) ==
  /\ "error" \in CursorFaults /\ Opening(c)
  /\ \/ EndFrame(c, "over")
     \/ backend = "CLOUD" /\ LosesRun(c)
  /\ UNCHANGED <<backend, stage, iteration, row, attempt, owned, tree>>

\* The ACP agent answers the prompt.  Whether the call was cancelled is asked
\* of whatever is in the slot.
Answered(c) ==
  /\ call[c].exec = "prompted" /\ AtWork(c)
  /\ \/ (active = Nobody \/ "error" \in CursorFaults) /\ EndFrame(c, "over")
     \/ /\ active # Nobody
        /\ EndFrame(c, IF call[active].cancelled THEN "over" ELSE "ok")
     \/ /\ active # Nobody /\ "stop" \in CursorFaults
        /\ EndFrame(c, IF call[active].cancelled THEN "over" ELSE "stopped")
  /\ UNCHANGED <<backend, stage, iteration, row, attempt, owned, tree>>

\* cancel() of the ACP client, of the call in the slot: awaits the agent's
\* answer when it has a session and stops the agent then.
CancelActive ==
  /\ call' = [call EXCEPT ![active].cancelled = TRUE, ![active].cancelling = call[active].session]
  /\ agent' = IF call[active].session THEN agent ELSE [agent EXCEPT ![active] = Told(@)]

CancelAnswered(c) ==
  /\ call[c].cancelling /\ agent[c] \in {"up", "working", "ending"}
  /\ call' = [call EXCEPT ![c].cancelling = FALSE]
  /\ agent' = [agent EXCEPT ![c] = Told(@)]
  /\ UNCHANGED <<backend, stage, iteration, row, attempt, owned, active, tree>>

\* The interval of an ACP call, until its frame ends: when the call's job is no
\* longer owned, cancel what is in the slot.
Tick(c) ==
  /\ call[c].watch /\ ~Owns(call[c].job)
  /\ active # Nobody /\ ~call[active].cancelled
  /\ CancelActive
  /\ UNCHANGED <<backend, stage, iteration, row, attempt, owned, active, tree>>

\* withTimeout: the timer is armed until the call has settled.
Waited(c) == attempt.pc = "waiting" /\ call[c].run = "open"

\* Mutant: a call that has a session is waited for.
TimeoutUnopened ==
  /\ Waited(attempt.call) /\ ~call[attempt.call].session
  /\ call' = [call EXCEPT ![attempt.call].run = "abandoned"]
  /\ FailAttempt
  /\ UNCHANGED <<backend, stage, iteration, owned, active, agent, tree>>

\* Both timers of an ACP call have the same length: it is cancelled and given
\* up on.  That of a remote run is shorter than its polling: the frame goes on.
Timeout ==
  LET c == attempt.call IN
  /\ Waited(c)
  /\ \/ /\ backend = "CLOUD"
        /\ call' = [call EXCEPT ![c].run = "abandoned"]
        /\ UNCHANGED agent
     \/ /\ backend = "ACP"
        /\ call' = [d \in Calls |->
             [call[d] EXCEPT !.run = IF d = c THEN "abandoned" ELSE @,
                             !.cancelled = @ \/ d = active,
                             !.cancelling = @ \/ (d = active /\ call[d].session)]]
        /\ agent' = IF active # Nobody /\ ~call[active].session
                    THEN [agent EXCEPT ![active] = Told(@)] ELSE agent
  /\ FailAttempt
  /\ UNCHANGED <<backend, stage, iteration, owned, active, tree>>

Polling(c) == backend = "CLOUD" /\ call[c].exec = "prompted"

\* Whether the job is lost is asked of the slot.
SlotDisowned == active # Nobody /\ ~Owns(call[active].job)

\* The deadline of the polling is later than the timer of the attempt.
PollIsLate(c) == call[c].run = "abandoned"

\* cancel() of the Cloud client: the agent of the slot, where the service can.
CancelRemote ==
  LET known == active # Nobody /\ call[active].session IN
  \/ UNCHANGED agent
  \/ known /\ agent' = [agent EXCEPT ![call[active].target] = IF @ = "working" THEN "dead" ELSE @]

\* The polling gives up, and cancels what is in the slot.
PollLost(c) ==
  /\ Polling(c) /\ (PollIsLate(c) \/ SlotDisowned)
  /\ CancelRemote
  /\ call' = [d \in Calls |->
       [IF d = c THEN Gone(c, "over") ELSE call[d] EXCEPT
          !.cancelled = @ \/ (d = active /\ call[d].session)]]
  /\ active' = Nobody
  /\ UNCHANGED <<backend, stage, iteration, row, attempt, owned, tree>>

PollEnds(c) ==
  /\ Polling(c) /\ ~SlotDisowned
  /\ \/ agent[call[c].target] = "finished" /\ call' = [call EXCEPT ![c] = Gone(c, "ok")]
     \/ agent[call[c].target] = "dead" /\ call' = [call EXCEPT ![c] = Gone(c, "over")]
  /\ active' = Nobody
  /\ UNCHANGED <<backend, stage, iteration, row, attempt, owned, agent, tree>>

RemoteEnds(c) ==
  /\ backend = "CLOUD" /\ agent[c] = "working"
  /\ \/ agent' = [agent EXCEPT ![c] = "finished"]
     \/ "error" \in CursorFaults /\ agent' = [agent EXCEPT ![c] = "dead"]
  /\ UNCHANGED <<backend, stage, iteration, row, attempt, owned, call, active, tree>>

\* An agent that was told to stop is gone, with what it has started.
AgentDies(c) ==
  /\ agent[c] = "ending"
  /\ agent' = [agent EXCEPT ![c] = "dead"]
  /\ UNCHANGED <<backend, stage, iteration, row, attempt, owned, call, active, tree>>
-----------------------------------------------------------------------------
(* Faults *)

LeaseLost ==
  /\ "lease" \in CursorFaults /\ owned /\ attempt.pc # "idle"
  /\ owned' = FALSE
  /\ UNCHANGED <<backend, stage, iteration, row, attempt, call, active, agent, tree>>

Alive(c) == call[c].exec \in {"opening", "prompted"}

\* The worker dies with all its frames; a local agent may outlive it, a remote
\* run does.
Crash ==
  /\ "crash" \in CursorFaults
  /\ attempt.pc # "idle" \/ \E c \in Calls : Alive(c)
  /\ \E S \in SUBSET {c \in Calls : backend = "ACP" /\ agent[c] \in {"up", "working", "ending"}} :
       agent' = [c \in Calls |-> IF c \in S THEN "dead" ELSE agent[c]]
  /\ call' = [c \in Calls |->
       IF Alive(c) \/ c = attempt.call
       THEN [NoCall EXCEPT !.exec = "done", !.run = IF call[c].run = "abandoned" THEN "abandoned" ELSE "over"]
       ELSE call[c]]
  /\ active' = Nobody /\ attempt' = NoAttempt
  /\ UNCHANGED <<backend, stage, iteration, row, owned, tree>>
-----------------------------------------------------------------------------
Steps == Claim \/ Enter \/ Start \/ PreflightFails \/ RunFails \/ RunReturns
           \/ ReadHead \/ Collect \/ Add \/ Scan \/ Commit \/ Record

CursorNext ==
  \/ Steps \/ Verified \/ Timeout \/ LeaseLost \/ Crash
  \/ \E c \in Calls : \/ AgentEdits(c) \/ AgentDrops(c) \/ AgentAdds(c) \/ AgentCommits(c) \/ AgentDies(c)
                      \/ OpensAcp(c) \/ OpensCloud(c) \/ OpenFails(c) \/ Answered(c)
                      \/ CancelAnswered(c) \/ Tick(c) \/ PollLost(c) \/ PollEnds(c) \/ RemoteEnds(c)

\* The worker goes on and its timers fire; nothing is assumed of agents.
CursorFairness == WF_cursorVars(Steps \/ Timeout)

CursorSpec == CursorInit /\ [][CursorNext]_cursorVars /\ CursorFairness
-----------------------------------------------------------------------------
(* Properties *)

\* What an agent has done to the code is never thrown away by the platform, by
\* no failure, block or crash ("Never `reset --hard` / `clean` unknown work"):
\* only agents undo it.
EditsAreKept ==
  [][Everything \subseteq Everything' \/ \E c \in Calls : AgentDrops(c)]_cursorVars

\* No commit the platform makes has a secret in it, in a name or in contents,
\* although agents go on editing between the searches and the commit
\* (createCheckpointCommit).  It cannot answer for a commit of an agent, nor for
\* one whose index, or whose files before they were read, an agent has touched
\* since `git add`.
SecretsStayOut ==
  \A k \in 1..HeadSha :
    tree.commits[k].by = "platform" => \A e \in tree.commits[k].edits : ~IsSecret(e)

\* The checkpoint n has e, or an agent committed it itself in that moment or
\* later.
InBranch(e, n) ==
  \/ e \in Committed(n)
  \/ \E k \in (n + 1)..HeadSha : tree.commits[k].by = "agent" /\ e \in tree.commits[k].edits

\* The checkpoint of a local result has everything its agent has done until it
\* was told to stop, whatever agents still do to the worktree and the index while
\* it is made (close, cursorPostflight).
ResultHasItsWork ==
  \A i \in Iterations : \A e \in Everything :
    e.of = row[i].result /\ ~e.late => InBranch(e, row[i].checkpoint)

\* A call that was given up on leaves its frame and its interval behind.
GaveUp == \E c \in Calls : call[c].run = "abandoned"

Attempting == attempt.pc # "idle"

\* As long as no call was given up on, a call is cancelled only when the worker
\* does not own the job (JOB_LEASE_LOST; the interval, the polling loop).
OnlyLostRunsAreCancelled ==
  [][\A c \in Calls : ~call[c].cancelled /\ call'[c].cancelled => ~owned \/ GaveUp']_cursorVars

=============================================================================
