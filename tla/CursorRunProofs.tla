-------------------------- MODULE CursorRunProofs --------------------------
(***************************************************************************)
(* Proofs about CursorRun for any number of calls and iterations, either   *)
(* backend and any faults, with agents that use the worktree beside the    *)
(* worker: the platform loses no edit and commits no secret that it could  *)
(* see, a result has the work its agent had done when it was told to stop, *)
(* and a call is cancelled for a lost job or after a timeout alone.        *)
(***************************************************************************)
EXTENDS CursorRun, TLAPS

-----------------------------------------------------------------------------
(* The inductive invariant *)

\* The call of the attempt has been settled.
CursorSettled == {"collecting", "listing", "adding", "scanning", "committing", "committed", "recording", "recorded"}

\* A local agent that was started, and one that was told to stop.
Spent == {"ending", "dead"}
Started == {"up", "working"} \cup Spent

\* Every attempt has a call of its own, and is at work in its stage alone.
CallsAreTaken ==
  attempt.pc # "idle" =>
    /\ stage = "CURSOR_EXECUTING" /\ attempt.call \in Calls
    /\ \A c \in Calls : call[c].exec = "none" => attempt.call <= c
    /\ call[attempt.call].exec = "none" <=> attempt.pc = "preflight"

\* A frame lives as long as its call is waited for or was given up on.  The one
\* call that is open is that of the attempt, and an interval or a slot is that
\* of a frame that lives.
FramesEnd ==
  /\ \A c \in Calls :
       /\ call[c].exec = "none" => call[c].run = "none"
       /\ Alive(c) => call[c].run \in {"open", "abandoned"} /\ call[c].job \in Iterations /\ call[c].target \in Calls
       /\ Alive(c) /\ backend = "ACP" => agent[c] \in Started
       /\ call[c].watch => Alive(c)
       /\ call[c].run = "open" =>
            Alive(c) /\ attempt.pc = "waiting" /\ attempt.call = c /\ call[c].job = iteration
       /\ call[c].run \in {"ok", "stopped"} /\ backend = "ACP" => agent[c] \in Spent
  /\ attempt.pc \in CursorSettled => call[attempt.call].run \in {"ok", "stopped"}
  /\ active # Nobody => Alive(active)

\* Whatever the agent of a call still does is late.
Over(c) == call[c].exec = "done" /\ (backend = "ACP" => agent[c] \in Spent)

\* What the agent of the attempt's call had done when it was told to stop.
Due(e) == e.of = attempt.call /\ ~e.late

\* Before the commit it is in the index or in an agent's commit, after it in the
\* branch.  HEAD may be an agent's commit behind while git status is asked.  A
\* result is of a call that is over.
WorkIsCommitted ==
  /\ backend = "CLOUD" => Everything = {}
  /\ attempt.pc = "listing" =>
       attempt.checkpoint <= HeadSha /\ \A k \in (attempt.checkpoint + 1)..HeadSha : tree.commits[k].by = "agent"
  /\ BeforeCommit => \A e \in tree.pending : ~Due(e)
  /\ attempt.pc = "committed" => \A e \in Everything : Due(e) => e \in Committed(HeadSha)
  /\ attempt.pc \in {"recording", "recorded"} =>
       attempt.checkpoint <= HeadSha /\ \A e \in Everything : Due(e) => InBranch(e, attempt.checkpoint)
  /\ \A i \in Iterations : row[i].result # Nobody => Over(row[i].result) /\ row[i].checkpoint <= HeadSha

\* An index that passed the search is clean as long as no agent touches it.
StagedIsClean ==
  attempt.pc = "committing" /\ ~tree.touched => \A e \in tree.staged : ~IsSecret(e)

CursorInv ==
  /\ CursorTypeOK /\ CallsAreTaken /\ FramesEnd
  /\ WorkIsCommitted /\ StagedIsClean /\ ResultHasItsWork /\ SecretsStayOut
-----------------------------------------------------------------------------
(* Shapes *)

Rows == [Iterations -> [status: {"NONE", "STARTED", "FAILED", "RECOVERY_REQUIRED", "COMPLETED"},
                        session: BOOLEAN, result: Calls \cup {Nobody}, checkpoint: Nat]]
Attempts == [pc: {"idle", "preflight", "waiting", "collecting", "listing", "adding",
                  "scanning", "committing", "committed", "recording", "recorded"},
             call: Calls \cup {Nobody}, run: Calls \cup {Nobody}, checkpoint: Nat]
Frames == [exec: {"none", "opening", "prompted", "done"},
           run: {"none", "open", "ok", "stopped", "abandoned", "over"},
           job: Iterations \cup {Nobody}, target: Calls \cup {Nobody},
           session: BOOLEAN, cancelled: BOOLEAN, cancelling: BOOLEAN, watch: BOOLEAN]
Agents == [Calls -> {"none", "up", "working", "ending", "finished", "dead"}]
Trees == [pending: SUBSET Edits, staged: SUBSET Edits, touched: BOOLEAN, commits: Seq(Commits)]

LEMMA CursorShapes ==
  CursorTypeOK <=>
    /\ backend \in Backends
    /\ stage \in {"CURSOR_EXECUTING", "PLATFORM_VERIFICATION", "DELIVERY_PREPARATION"}
    /\ iteration \in Iterations /\ row \in Rows
    /\ attempt \in Attempts /\ (attempt.pc = "idle" => attempt = NoAttempt)
    /\ owned \in BOOLEAN /\ call \in [Calls -> Frames]
    /\ active \in Calls \cup {Nobody} /\ agent \in Agents /\ tree \in Trees
  BY DEF CursorTypeOK, Rows, Attempts, Frames, Agents, Trees

LEMMA CursorNextShapes ==
  CursorTypeOK' <=>
    /\ backend' \in Backends
    /\ stage' \in {"CURSOR_EXECUTING", "PLATFORM_VERIFICATION", "DELIVERY_PREPARATION"}
    /\ iteration' \in Iterations /\ row' \in Rows
    /\ attempt' \in Attempts /\ (attempt'.pc = "idle" => attempt' = NoAttempt)
    /\ owned' \in BOOLEAN /\ call' \in [Calls -> Frames]
    /\ active' \in Calls \cup {Nobody} /\ agent' \in Agents /\ tree' \in Trees
  BY DEF CursorTypeOK, Rows, Attempts, Frames, Agents, Trees

LEMMA CursorBounds ==
  ASSUME CursorInv
  PROVE  /\ MaxCalls \in Nat \ {0} /\ MaxIterations \in Nat \ {0}
         /\ HeadSha \in Nat /\ Everything \subseteq Edits
         /\ Nobody \notin Calls /\ Nobody \notin Iterations
         /\ \A e \in Edits : e.of \in Calls
  <1>1. MaxCalls \in Nat \ {0} /\ MaxIterations \in Nat \ {0}
    BY CursorAssumption
  <1>2. /\ tree.commits \in Seq(Commits)
        /\ tree.pending \subseteq Edits /\ tree.staged \subseteq Edits
    BY CursorShapes DEF CursorInv, Trees
  <1>3. HeadSha \in Nat
    BY <1>2 DEF HeadSha
  <1>4. \A k \in 1..HeadSha : tree.commits[k].edits \subseteq Edits
    <2>1. \A k \in 1..HeadSha : tree.commits[k] \in Commits
      BY <1>2 DEF HeadSha
    <2>. QED
      BY <2>1 DEF Commits
  <1>5. Everything \subseteq Edits
    BY <1>2, <1>4 DEF Everything, Committed
  <1>6. \A e \in Edits : e.of \in Calls
    BY DEF Edits
  <1>. QED
    BY <1>1, <1>3, <1>5, <1>6 DEF Nobody, Calls, Iterations

\* What a frame is when it has ended.
LEMMA GoneIs ==
  ASSUME NEW c \in Calls, NEW outcome \in {"ok", "stopped", "over"}, call[c] \in Frames
  PROVE  /\ Gone(c, outcome) \in Frames
         /\ Gone(c, outcome).exec = "done"
         /\ Gone(c, outcome).run = IF call[c].run = "open" THEN outcome ELSE call[c].run
         /\ Gone(c, outcome).watch = FALSE /\ Gone(c, outcome).cancelled = FALSE
  <1>1. /\ NoCall \in Frames /\ NoCall.watch = FALSE /\ NoCall.cancelled = FALSE
    BY DEF NoCall, Frames
  <1>2. PICK r \in Frames : r = NoCall
    BY <1>1
  <1>3. PICK run \in {"none", "open", "ok", "stopped", "abandoned", "over"} :
          run = IF call[c].run = "open" THEN outcome ELSE call[c].run
    BY DEF Frames
  <1>4. Gone(c, outcome) = [r EXCEPT !.exec = "done", !.run = run]
    BY <1>2, <1>3 DEF Gone
  <1>. QED
    BY <1>1, <1>2, <1>3, <1>4 DEF Frames
-----------------------------------------------------------------------------
(* The worktree *)

\* A step that leaves the worktree alone.
LEMMA TreeStays ==
  ASSUME tree' = tree
  PROVE  /\ HeadSha' = HeadSha /\ Everything' = Everything
         /\ \A n : Committed(n)' = Committed(n)
         /\ \A n, e : InBranch(e, n)' <=> InBranch(e, n)
  <1>1. HeadSha' = HeadSha /\ \A n : Committed(n)' = Committed(n)
    BY DEF HeadSha, Committed
  <1>2. Everything' = Everything
    BY DEF Everything, HeadSha, Committed
  <1>3. \A n, e : InBranch(e, n)' <=> InBranch(e, n)
    BY <1>1 DEF InBranch
  <1>. QED
    BY <1>1, <1>2, <1>3

\* The commits that there are stay, and what is in the branch stays in it.
LEMMA CommitsStay ==
  ASSUME tree \in Trees, tree' \in Trees, HeadSha <= HeadSha',
         \A k \in 1..HeadSha : tree'.commits[k] = tree.commits[k]
  PROVE  /\ HeadSha \in Nat /\ HeadSha' \in Nat
         /\ \A n \in 0..HeadSha : Committed(n)' = Committed(n)
         /\ \A n \in 0..HeadSha : \A e : InBranch(e, n) => InBranch(e, n)'
         /\ Committed(HeadSha) \subseteq Committed(HeadSha)'
  <1>1. HeadSha \in Nat /\ HeadSha' \in Nat
    BY DEF Trees, HeadSha
  <1>2. \A n \in 0..HeadSha : Committed(n)' = Committed(n)
    <2>. SUFFICES ASSUME NEW n \in 0..HeadSha
                  PROVE  Committed(n)' = Committed(n)
      OBVIOUS
    <2>1. \A k \in 1..n : k \in 1..HeadSha
      BY <1>1
    <2>. QED
      BY <2>1 DEF Committed
  <1>3. \A n \in 0..HeadSha : \A e : InBranch(e, n) => InBranch(e, n)'
    <2>. SUFFICES ASSUME NEW n \in 0..HeadSha, NEW e, InBranch(e, n)
                  PROVE  InBranch(e, n)'
      OBVIOUS
    <2>1. CASE e \in Committed(n)
      BY <1>2, <2>1 DEF InBranch
    <2>2. CASE \E k \in (n + 1)..HeadSha : tree.commits[k].by = "agent" /\ e \in tree.commits[k].edits
      <3>1. PICK k \in (n + 1)..HeadSha : tree.commits[k].by = "agent" /\ e \in tree.commits[k].edits
        BY <2>2
      <3>2. k \in (n + 1)..HeadSha' /\ k \in 1..HeadSha
        BY <1>1
      <3>. QED
        BY <3>1, <3>2 DEF InBranch
    <2>. QED
      BY <2>1, <2>2 DEF InBranch
  <1>4. Committed(HeadSha) \subseteq Committed(HeadSha)'
    <2>1. \A k \in 1..HeadSha : k \in 1..HeadSha'
      BY <1>1
    <2>2. Committed(HeadSha)' = UNION {tree'.commits[k].edits : k \in 1..HeadSha'}
      BY DEF Committed
    <2>. QED
      BY <2>1, <2>2 DEF Committed
  <1>. QED
    BY <1>1, <1>2, <1>3, <1>4

\* git add and git reset move changes between the worktree and the index.
LEMMA ChangesMove ==
  ASSUME tree \in Trees, StageAll \/ Unstage
  PROVE  /\ HeadSha' = HeadSha /\ Everything' = Everything
         /\ \A n : Committed(n)' = Committed(n)
         /\ \A n, e : InBranch(e, n)' <=> InBranch(e, n)
         /\ tree' \in Trees /\ tree'.commits = tree.commits
  <1>1. /\ tree'.commits = tree.commits
        /\ tree'.pending \cup tree'.staged = tree.pending \cup tree.staged
        /\ tree' \in Trees
    BY DEF StageAll, Unstage, Trees
  <1>2. HeadSha' = HeadSha /\ \A n : Committed(n)' = Committed(n)
    BY <1>1 DEF HeadSha, Committed
  <1>3. Everything' = Everything
    BY <1>1, <1>2 DEF Everything, Committed, HeadSha
  <1>4. \A n, e : InBranch(e, n)' <=> InBranch(e, n)
    BY <1>1, <1>2 DEF InBranch
  <1>. QED
    BY <1>1, <1>2, <1>3, <1>4

\* A commit takes what was staged, and the commits before it stay.
LEMMA CursorCommitAdds ==
  ASSUME tree \in Trees, NEW by \in {"agent", "platform", "both"}, NEW touched \in BOOLEAN,
         tree' = [tree EXCEPT !.staged = {}, !.touched = touched,
                              !.commits = Append(@, [edits |-> tree.staged, by |-> by])]
  PROVE  /\ HeadSha \in Nat /\ HeadSha' = HeadSha + 1 /\ tree' \in Trees /\ Everything' = Everything
         /\ tree'.pending = tree.pending /\ tree'.staged = {} /\ tree'.touched = touched
         /\ \A k \in 1..HeadSha : tree'.commits[k] = tree.commits[k]
         /\ tree'.commits[HeadSha + 1] = [edits |-> tree.staged, by |-> by]
         /\ Committed(HeadSha)' = Committed(HeadSha) \cup tree.staged
  <1>1. PICK new \in Commits : new = [edits |-> tree.staged, by |-> by]
    BY DEF Commits, Trees
  <1>2. /\ tree'.pending = tree.pending /\ tree'.staged = {} /\ tree'.touched = touched
        /\ tree'.commits = Append(tree.commits, new)
        /\ tree.commits \in Seq(Commits)
    BY <1>1 DEF Trees
  <1>3. /\ HeadSha \in Nat /\ HeadSha' = HeadSha + 1 /\ tree'.commits \in Seq(Commits)
        /\ \A k \in 1..HeadSha : tree'.commits[k] = tree.commits[k]
        /\ tree'.commits[HeadSha + 1] = new
    BY <1>2 DEF HeadSha
  <1>4. tree' \in Trees
    <2>1. tree' = [pending |-> tree.pending, staged |-> {}, touched |-> touched, commits |-> tree'.commits]
      BY <1>2 DEF Trees
    <2>. QED
      BY <1>3, <2>1 DEF Trees
  <1>5. Committed(HeadSha)' = Committed(HeadSha) \cup tree.staged
    <2>1. 1..(HeadSha + 1) = 1..HeadSha \cup {HeadSha + 1}
      BY <1>3
    <2>2. Committed(HeadSha)' = UNION {tree'.commits[k].edits : k \in 1..HeadSha \cup {HeadSha + 1}}
      BY <1>3, <2>1 DEF Committed
    <2>3. new.edits = tree.staged
      BY <1>1
    <2>4. UNION {tree'.commits[k].edits : k \in 1..HeadSha \cup {HeadSha + 1}}
            = (UNION {tree.commits[k].edits : k \in 1..HeadSha}) \cup tree.staged
      <3>. HIDE DEF HeadSha
      <3>. QED
        BY <1>3, <2>3
    <2>. QED
      BY <2>2, <2>4 DEF Committed
  <1>6. Everything' = Everything
    BY <1>2, <1>5 DEF Everything, Committed, HeadSha
  <1>. QED
    BY <1>1, <1>2, <1>3, <1>4, <1>5, <1>6
-----------------------------------------------------------------------------
(* Steps of the frames *)

\* What the step of a frame may do to the call of it or of another: it ends, or
\* it goes on as it was, and an agent that is spent does not come back.
GoesOn(c) ==
  /\ call[c].exec = "none" <=> call'[c].exec = "none"
  /\ call[c].exec = "done" => call'[c].exec = "done"
  /\ \/ /\ call'[c].run = call[c].run
        /\ Alive(c)' => call'[c].job = call[c].job /\ call'[c].target = call[c].target
        /\ call[c].run = "open" => Alive(c)'
     \/ /\ call[c].run = "open" /\ ~Alive(c)' /\ call'[c].run \in {"ok", "stopped", "over"}
        /\ backend = "ACP" => agent'[c] \in Spent
  /\ call'[c].watch => Alive(c)'
  /\ backend = "ACP" /\ agent[c] \in Spent /\ call[c].exec = "done" => agent'[c] \in Spent
  /\ backend = "ACP" /\ agent[c] \in Started => agent'[c] \in Started

LEMMA FramesGoOn ==
  ASSUME CursorInv, UNCHANGED <<backend, stage, iteration, attempt, owned, tree>>,
         row' \in Rows, call' \in [Calls -> Frames], agent' \in Agents, active' \in Calls \cup {Nobody},
         \A i \in Iterations : row'[i].result = row[i].result /\ row'[i].checkpoint = row[i].checkpoint,
         \A c \in Calls : GoesOn(c),
         active' # Nobody => Alive(active)'
  PROVE  CursorInv'
  <1>. USE DEF CursorInv
  <1>1. CursorTypeOK'
    BY CursorShapes, CursorNextShapes
  <1>2. /\ HeadSha' = HeadSha /\ Everything' = Everything
        /\ \A n : Committed(n)' = Committed(n)
        /\ \A n, e : InBranch(e, n)' <=> InBranch(e, n)
    BY TreeStays
  <1>3. CallsAreTaken'
    <2>1. \A c \in Calls : call'[c].exec = "none" <=> call[c].exec = "none"
      BY DEF GoesOn
    <2>2. attempt.pc # "idle" => attempt.call \in Calls
      BY DEF CallsAreTaken
    <2>. QED
      BY <1>2, <2>1, <2>2 DEF CallsAreTaken
  <1>4. FramesEnd'
    <2>1. ASSUME NEW c \in Calls
          PROVE  /\ call'[c].exec = "none" => call'[c].run = "none"
                 /\ Alive(c)' => /\ call'[c].run \in {"open", "abandoned"}
                                 /\ call'[c].job \in Iterations /\ call'[c].target \in Calls
                 /\ Alive(c)' /\ backend' = "ACP" => agent'[c] \in Started
                 /\ call'[c].watch => Alive(c)'
                 /\ call'[c].run = "open" =>
                      Alive(c)' /\ attempt'.pc = "waiting" /\ attempt'.call = c /\ call'[c].job = iteration'
                 /\ call'[c].run \in {"ok", "stopped"} /\ backend' = "ACP" => agent'[c] \in Spent
      <3>1. GoesOn(c) /\ call[c] \in Frames
        BY CursorShapes
      <3>2. Alive(c)' => Alive(c)
        BY <3>1, CursorShapes, CursorNextShapes, <1>1 DEF GoesOn, Alive, Frames
      <3>3. call[c].run \in {"ok", "stopped"} => call[c].exec = "done"
        BY <3>1 DEF FramesEnd, Alive, Frames
      <3>. QED
        BY <3>1, <3>2, <3>3 DEF FramesEnd, GoesOn, Alive
    <2>2. attempt'.pc \in CursorSettled => call'[attempt'.call].run \in {"ok", "stopped"}
      <3>1. attempt.pc \in CursorSettled => attempt.call \in Calls
        BY DEF CallsAreTaken, CursorSettled
      <3>. QED
        BY <3>1 DEF FramesEnd, GoesOn
    <2>. QED
      BY <2>1, <2>2 DEF FramesEnd
  <1>5. WorkIsCommitted'
    <2>1. ASSUME NEW i \in Iterations, row'[i].result # Nobody
          PROVE  Over(row[i].result)' /\ row'[i].checkpoint <= HeadSha
      <3>1. row[i].result \in Calls /\ Over(row[i].result) /\ row[i].checkpoint <= HeadSha
        BY <2>1, CursorShapes DEF WorkIsCommitted, Rows
      <3>. QED
        BY <3>1 DEF Over, GoesOn
    <2>. QED
      BY <1>2, <2>1 DEF WorkIsCommitted, Over, Due, BeforeCommit
  <1>6. ResultHasItsWork' /\ SecretsStayOut'
    BY <1>2 DEF ResultHasItsWork, SecretsStayOut
  <1>7. StagedIsClean'
    BY DEF StagedIsClean
  <1>. QED
    BY <1>1, <1>3, <1>4, <1>5, <1>6, <1>7

LEMMA ToldIs ==
  /\ \A a \in {"none", "up", "working", "ending", "finished", "dead"} :
       Told(a) \in {"none", "up", "working", "ending", "finished", "dead"}
  /\ \A a \in Started : Told(a) \in Spent
  /\ Spent \subseteq Started
  BY DEF Told, Started, Spent

\* A frame ends, with an agent that was told to stop or a remote run left to
\* itself.
LEMMA FrameGoes ==
  ASSUME CursorInv, NEW c \in Calls, Alive(c), NEW outcome \in {"ok", "stopped", "over"},
         UNCHANGED <<backend, stage, iteration, row, attempt, owned, tree>>,
         call' = [call EXCEPT ![c] = Gone(c, outcome)], active' = Nobody,
         agent' \in Agents, \A d \in Calls \ {c} : agent'[d] = agent[d],
         backend = "ACP" => agent'[c] \in Spent
  PROVE  CursorInv'
  <1>1. call \in [Calls -> Frames] /\ row \in Rows
    BY CursorShapes DEF CursorInv
  <1>2. /\ Gone(c, outcome) \in Frames
        /\ Gone(c, outcome).exec = "done" /\ Gone(c, outcome).watch = FALSE
        /\ Gone(c, outcome).run = IF call[c].run = "open" THEN outcome ELSE call[c].run
    BY <1>1, GoneIs
  <1>3. /\ call' \in [Calls -> Frames] /\ call'[c] = Gone(c, outcome)
        /\ \A d \in Calls \ {c} : call'[d] = call[d]
    BY <1>1, <1>2
  <1>4. GoesOn(c)
    BY <1>2, <1>3 DEF GoesOn, Alive, Started
  <1>5. \A d \in Calls \ {c} : GoesOn(d)
    BY <1>3 DEF GoesOn, Alive, CursorInv, FramesEnd
  <1>. QED
    BY <1>1, <1>3, <1>4, <1>5, FramesGoOn

LEMMA EndFrameKeeps ==
  ASSUME CursorInv, NEW c \in Calls, Alive(c), NEW outcome \in {"ok", "stopped", "over"},
         UNCHANGED <<backend, stage, iteration, row, attempt, owned, tree>>,
         EndFrame(c, outcome)
  PROVE  CursorInv'
  <1>1. agent' \in Agents /\ \A d \in Calls \ {c} : agent'[d] = agent[d]
    BY CursorShapes, ToldIs DEF CursorInv, EndFrame, Agents
  <1>2. backend = "ACP" => agent'[c] \in Spent
    BY CursorShapes, ToldIs DEF CursorInv, FramesEnd, EndFrame, Agents
  <1>. QED
    BY <1>1, <1>2, FrameGoes DEF EndFrame

LEMMA LosesRunKeeps ==
  ASSUME CursorInv, NEW c \in Calls, Alive(c), backend = "CLOUD",
         UNCHANGED <<backend, stage, iteration, row, attempt, owned, tree>>,
         LosesRun(c)
  PROVE  CursorInv'
  <1>1. agent' \in Agents /\ \A d \in Calls \ {c} : agent'[d] = agent[d]
    BY CursorShapes DEF CursorInv, LosesRun, Agents
  <1>. QED
    BY <1>1, FrameGoes DEF LosesRun

\* A session is opened: the call is prompted, and its row knows the session.
LEMMA OpenedKeeps ==
  ASSUME CursorInv, NEW c \in Calls, Opening(c), active # Nobody, Opened(c),
         UNCHANGED <<backend, stage, iteration, attempt, owned, tree>>
  PROVE  CursorInv'
  <1>1. /\ call \in [Calls -> Frames] /\ row \in Rows /\ agent \in Agents /\ active \in Calls
        /\ call[c].exec = "opening" /\ call[c].run = "open"
    BY CursorShapes DEF CursorInv, Opening
  <1>2. call[c].job \in Iterations
    BY <1>1 DEF CursorInv, FramesEnd, Alive
  <1>3. /\ row' \in Rows
        /\ \A i \in Iterations : row'[i].result = row[i].result /\ row'[i].checkpoint = row[i].checkpoint
    BY <1>1, <1>2 DEF Opened, Rows
  <1>4. agent' \in Agents /\ \A d \in Calls \ {c} : agent'[d] = agent[d]
    BY <1>1 DEF Opened, Agents
  <1>5. /\ call' \in [Calls -> Frames] /\ \A d \in Calls \ {c} : call'[d] = call[d]
        /\ call'[c].exec = "prompted" /\ call'[c].run = call[c].run /\ call'[c].job = call[c].job
        /\ call'[c].target = call[c].target /\ call'[c].watch = call[c].watch
    <2>1. PICK f : f = [call[c] EXCEPT !.exec = "prompted", !.session = TRUE]
      OBVIOUS
    <2>2. /\ f \in Frames /\ f.exec = "prompted" /\ f.run = call[c].run /\ f.job = call[c].job
          /\ f.target = call[c].target /\ f.watch = call[c].watch
      BY <1>1, <2>1 DEF Frames
    <2>3. call' = [call EXCEPT ![c] = f]
      BY <1>1, <2>1 DEF Opened
    <2>. QED
      BY <1>1, <2>2, <2>3
  <1>6. GoesOn(c)
    <2>1. backend = "ACP" => agent'[c] \in Started
      BY <1>1 DEF Opened, Agents, Started, Spent
    <2>. QED
      BY <1>1, <1>5, <2>1 DEF GoesOn, Alive
  <1>7. \A d \in Calls \ {c} : GoesOn(d)
    BY <1>4, <1>5 DEF GoesOn, Alive, CursorInv, FramesEnd
  <1>8. Alive(active)'
    BY <1>1, <1>5 DEF Opened, CursorInv, FramesEnd, Alive, Nobody
  <1>. QED
    BY <1>1, <1>3, <1>4, <1>5, <1>6, <1>7, <1>8, FramesGoOn DEF Opened

LEMMA OpensKeeps ==
  ASSUME CursorInv, NEW c \in Calls, OpensAcp(c) \/ OpensCloud(c) \/ OpenFails(c)
  PROVE  CursorInv'
  <1>1. /\ UNCHANGED <<backend, stage, iteration, attempt, owned, tree>>
        /\ Opening(c) /\ Alive(c)
    BY DEF OpensAcp, OpensCloud, OpenFails, Opening, Alive
  <1>2. CASE active # Nobody /\ Opened(c)
    BY <1>1, <1>2, OpenedKeeps
  <1>3. CASE EndFrame(c, "over") /\ UNCHANGED row
    BY <1>1, <1>3, EndFrameKeeps
  <1>4. CASE backend = "CLOUD" /\ LosesRun(c) /\ UNCHANGED row
    BY <1>1, <1>4, LosesRunKeeps
  <1>. QED
    BY <1>2, <1>3, <1>4 DEF OpensAcp, OpensCloud, OpenFails

LEMMA AnsweredKeeps ==
  ASSUME CursorInv, NEW c \in Calls, Answered(c)
  PROVE  CursorInv'
  <1>1. UNCHANGED <<backend, stage, iteration, row, attempt, owned, tree>> /\ Alive(c)
    BY DEF Answered, Alive
  <1>2. PICK outcome \in {"ok", "stopped", "over"} : EndFrame(c, outcome)
    BY DEF Answered
  <1>. QED
    BY <1>1, <1>2, EndFrameKeeps

\* A cancellation changes what the client knows of calls that go on as they
\* were, and may stop an agent.
LEMMA CancelKeeps ==
  ASSUME CursorInv, UNCHANGED <<backend, stage, iteration, row, attempt, owned, active, tree>>,
         NEW told \in Calls, agent' \in {agent, [agent EXCEPT ![told] = Told(@)]},
         call' \in [Calls -> Frames],
         \A c \in Calls : /\ call'[c].exec = call[c].exec /\ call'[c].run = call[c].run
                          /\ call'[c].job = call[c].job /\ call'[c].target = call[c].target
                          /\ call'[c].watch = call[c].watch
  PROVE  CursorInv'
  <1>1. /\ row \in Rows /\ agent \in Agents /\ active \in Calls \cup {Nobody}
    BY CursorShapes DEF CursorInv
  <1>2. /\ agent' \in Agents
        /\ \A c \in Calls : agent[c] \in Spent => agent'[c] \in Spent
        /\ \A c \in Calls : agent[c] \in Started => agent'[c] \in Started
    BY <1>1, ToldIs DEF Agents
  <1>3. \A c \in Calls : GoesOn(c)
    BY <1>2 DEF GoesOn, Alive, CursorInv, FramesEnd
  <1>4. active' # Nobody => Alive(active)'
    BY <1>1 DEF Alive, CursorInv, FramesEnd
  <1>. QED
    BY <1>1, <1>2, <1>3, <1>4, FramesGoOn

LEMMA CancelAnsweredKeeps ==
  ASSUME CursorInv, NEW c \in Calls, CancelAnswered(c)
  PROVE  CursorInv'
  <1>1. call \in [Calls -> Frames] /\ call' = [call EXCEPT ![c].cancelling = FALSE]
    BY CursorShapes DEF CursorInv, CancelAnswered
  <1>2. /\ call' \in [Calls -> Frames]
        /\ \A d \in Calls : /\ call'[d].exec = call[d].exec /\ call'[d].run = call[d].run
                            /\ call'[d].job = call[d].job /\ call'[d].target = call[d].target
                            /\ call'[d].watch = call[d].watch
    <2>1. PICK f : f = [call[c] EXCEPT !.cancelling = FALSE]
      OBVIOUS
    <2>2. /\ f \in Frames /\ f.exec = call[c].exec /\ f.run = call[c].run /\ f.job = call[c].job
          /\ f.target = call[c].target /\ f.watch = call[c].watch
      BY <1>1, <2>1 DEF Frames
    <2>3. call' = [call EXCEPT ![c] = f]
      BY <1>1, <2>1
    <2>. QED
      BY <1>1, <2>2, <2>3
  <1>. QED
    BY <1>2, CancelKeeps DEF CancelAnswered

LEMMA TickKeeps ==
  ASSUME CursorInv, NEW c \in Calls, Tick(c)
  PROVE  CursorInv'
  <1>1. call \in [Calls -> Frames] /\ active \in Calls
    BY CursorShapes DEF CursorInv, Tick
  <1>2. call' = [call EXCEPT ![active].cancelled = TRUE, ![active].cancelling = call[active].session]
    BY DEF Tick, CancelActive
  <1>3. /\ call' \in [Calls -> Frames]
        /\ \A d \in Calls : /\ call'[d].exec = call[d].exec /\ call'[d].run = call[d].run
                            /\ call'[d].job = call[d].job /\ call'[d].target = call[d].target
                            /\ call'[d].watch = call[d].watch
    <2>1. PICK e : e = [call[active] EXCEPT !.cancelled = TRUE]
      OBVIOUS
    <2>2. /\ e \in Frames /\ e.exec = call[active].exec /\ e.run = call[active].run /\ e.job = call[active].job
          /\ e.target = call[active].target /\ e.watch = call[active].watch
      BY <1>1, <2>1 DEF Frames
    <2>3. PICK g : g = [call EXCEPT ![active] = e]
      OBVIOUS
    <2>4. /\ g \in [Calls -> Frames] /\ g[active] = e
          /\ \A d \in Calls \ {active} : g[d] = call[d]
      BY <1>1, <2>2, <2>3
    <2>5. PICK f : f = [e EXCEPT !.cancelling = call[active].session]
      OBVIOUS
    <2>6. /\ f \in Frames /\ f.exec = e.exec /\ f.run = e.run /\ f.job = e.job
          /\ f.target = e.target /\ f.watch = e.watch
      BY <1>1, <2>2, <2>5 DEF Frames
    <2>7. call' = [g EXCEPT ![active] = f]
      BY <1>2, <2>1, <2>3, <2>4, <2>5
    <2>. QED
      BY <1>1, <2>2, <2>4, <2>6, <2>7
  <1>4. agent' \in {agent, [agent EXCEPT ![active] = Told(@)]}
    BY DEF Tick, CancelActive
  <1>. QED
    BY <1>1, <1>3, <1>4, CancelKeeps DEF Tick

LEMMA PollEndsKeeps ==
  ASSUME CursorInv, NEW c \in Calls, PollEnds(c)
  PROVE  CursorInv'
  <1>1. /\ UNCHANGED <<backend, stage, iteration, row, attempt, owned, agent, tree>> /\ active' = Nobody
        /\ Alive(c) /\ backend = "CLOUD"
    BY DEF PollEnds, Polling, Alive
  <1>2. PICK outcome \in {"ok", "over"} : call' = [call EXCEPT ![c] = Gone(c, outcome)]
    BY DEF PollEnds
  <1>3. agent \in Agents
    BY CursorShapes DEF CursorInv
  <1>. QED
    BY <1>1, <1>2, <1>3, FrameGoes

\* The polling that gives up may cancel the remote run of another call.
LEMMA PollLostKeeps ==
  ASSUME CursorInv, NEW c \in Calls, PollLost(c)
  PROVE  CursorInv'
  <1>1. /\ UNCHANGED <<backend, stage, iteration, row, attempt, owned, tree>> /\ active' = Nobody
        /\ call[c].exec = "prompted" /\ backend = "CLOUD"
    BY DEF PollLost, Polling
  <1>2. /\ call \in [Calls -> Frames] /\ row \in Rows /\ agent \in Agents
        /\ active \in Calls \cup {Nobody}
    BY CursorShapes DEF CursorInv
  <1>3. agent' \in Agents
    <2>1. CASE UNCHANGED agent
      BY <1>2, <2>1
    <2>2. CASE /\ active # Nobody
               /\ agent' = [agent EXCEPT ![call[active].target] = IF @ = "working" THEN "dead" ELSE @]
      <3>1. call[active].target \in Calls
        BY <1>2, <2>2 DEF CursorInv, FramesEnd
      <3>. QED
        BY <1>2, <2>2, <3>1 DEF Agents
    <2>. QED
      BY <2>1, <2>2 DEF PollLost, CancelRemote
  <1>4. /\ Gone(c, "over") \in Frames
        /\ Gone(c, "over").exec = "done" /\ Gone(c, "over").watch = FALSE
        /\ Gone(c, "over").run = IF call[c].run = "open" THEN "over" ELSE call[c].run
    BY <1>2, GoneIs
  <1>5. call' = [d \in Calls |->
          IF d = c THEN [Gone(c, "over") EXCEPT !.cancelled = @ \/ (d = active /\ call[d].session)]
          ELSE [call[d] EXCEPT !.cancelled = @ \/ (d = active /\ call[d].session)]]
    BY DEF PollLost
  <1>6. /\ call'[c].exec = "done" /\ call'[c].watch = FALSE /\ call'[c].run = Gone(c, "over").run
        /\ call'[c] \in Frames
    BY <1>2, <1>4, <1>5 DEF Frames
  <1>7. ASSUME NEW d \in Calls \ {c}
        PROVE  /\ call'[d].exec = call[d].exec /\ call'[d].run = call[d].run
               /\ call'[d].job = call[d].job /\ call'[d].target = call[d].target
               /\ call'[d].watch = call[d].watch /\ call'[d] \in Frames
    BY <1>2, <1>5 DEF Frames
  <1>8. call' \in [Calls -> Frames]
    BY <1>5, <1>6, <1>7
  <1>9. \A d \in Calls : GoesOn(d)
    BY <1>1, <1>4, <1>6, <1>7 DEF GoesOn, Alive, CursorInv, FramesEnd
  <1>. QED
    BY <1>1, <1>2, <1>3, <1>8, <1>9, FramesGoOn

LEMMA RemoteEndsKeeps ==
  ASSUME CursorInv, NEW c \in Calls, RemoteEnds(c)
  PROVE  CursorInv'
  <1>1. /\ UNCHANGED <<backend, stage, iteration, row, attempt, owned, call, active, tree>>
        /\ backend = "CLOUD"
    BY DEF RemoteEnds
  <1>2. /\ call \in [Calls -> Frames] /\ row \in Rows /\ agent \in Agents
        /\ active \in Calls \cup {Nobody}
    BY CursorShapes DEF CursorInv
  <1>3. agent' \in Agents
    BY <1>2 DEF RemoteEnds, Agents
  <1>4. \A d \in Calls : GoesOn(d)
    BY <1>1 DEF GoesOn, Alive, CursorInv, FramesEnd
  <1>5. active' # Nobody => Alive(active)'
    BY <1>1 DEF Alive, CursorInv, FramesEnd
  <1>. QED
    BY <1>1, <1>2, <1>3, <1>4, <1>5, FramesGoOn

LEMMA AgentDiesKeeps ==
  ASSUME CursorInv, NEW c \in Calls, AgentDies(c)
  PROVE  CursorInv'
  <1>1. /\ UNCHANGED <<backend, stage, iteration, row, attempt, owned, call, active, tree>>
        /\ agent[c] = "ending" /\ agent' = [agent EXCEPT ![c] = "dead"]
    BY DEF AgentDies
  <1>2. /\ call \in [Calls -> Frames] /\ row \in Rows /\ agent \in Agents
        /\ active \in Calls \cup {Nobody}
    BY CursorShapes DEF CursorInv
  <1>3. /\ agent' \in Agents /\ agent'[c] \in Spent /\ agent'[c] \in Started
        /\ \A d \in Calls \ {c} : agent'[d] = agent[d]
    BY <1>1, <1>2 DEF Agents, Spent, Started
  <1>4. \A d \in Calls : GoesOn(d)
    BY <1>1, <1>3 DEF GoesOn, Alive, CursorInv, FramesEnd
  <1>5. active' # Nobody => Alive(active)'
    BY <1>1 DEF Alive, CursorInv, FramesEnd
  <1>. QED
    BY <1>1, <1>2, <1>3, <1>4, <1>5, FramesGoOn
-----------------------------------------------------------------------------
(* Steps of the agents in the worktree *)

\* The changes that the agent of a call may bring now.
Brought(c) == {e \in Edits : e.of = c /\ e.late = (agent[c] = "ending")}

\* An agent at work brings nothing that is due in a call that is over, commits in
\* its own name, and touches the index before the platform's commit only where
\* this is known.
LEMMA AgentKeeps ==
  ASSUME CursorInv, NEW c \in Calls, AtWork(c), OnlyTree, tree' \in Trees, HeadSha <= HeadSha',
         \A k \in 1..HeadSha : tree'.commits[k] = tree.commits[k],
         \A k \in (HeadSha + 1)..HeadSha' : tree'.commits[k].by = "agent",
         Everything' \subseteq Everything \cup Brought(c),
         tree'.pending \subseteq tree.pending \cup Brought(c),
         attempt.pc = "committing" /\ ~tree'.touched => ~tree.touched /\ tree'.staged = tree.staged
  PROVE  CursorInv'
  <1>. USE DEF CursorInv
  <1>1. UNCHANGED <<backend, stage, iteration, row, attempt, owned, call, active, agent>>
    BY DEF OnlyTree
  <1>2. /\ backend = "ACP" /\ agent[c] \in {"working", "ending"}
        /\ tree \in Trees /\ row \in Rows /\ attempt \in Attempts
    BY CursorShapes DEF AtWork
  <1>3. /\ HeadSha \in Nat /\ HeadSha' \in Nat
        /\ \A n \in 0..HeadSha : Committed(n)' = Committed(n)
        /\ \A n \in 0..HeadSha : \A e : InBranch(e, n) => InBranch(e, n)'
        /\ Committed(HeadSha) \subseteq Committed(HeadSha)'
    BY <1>2, CommitsStay
  <1>4. CursorTypeOK'
    BY <1>1, CursorShapes, CursorNextShapes
  <1>5. CallsAreTaken' /\ FramesEnd'
    BY <1>1 DEF CallsAreTaken, FramesEnd, Alive
  <1>6. ASSUME NEW d \in Calls, call[d].run \in {"ok", "stopped"} \/ Over(d), NEW e \in Brought(c), e.of = d
        PROVE  e.late
    <2>1. agent[d] \in Spent
      BY <1>2, <1>6 DEF FramesEnd, Over
    <2>. QED
      BY <1>2, <1>6, <2>1 DEF Brought, Spent
  <1>7. attempt.pc \in CursorSettled => \A e \in Brought(c) : ~Due(e)
    <2>. SUFFICES ASSUME attempt.pc \in CursorSettled
                  PROVE  \A e \in Brought(c) : ~Due(e)
      OBVIOUS
    <2>1. attempt.call \in Calls /\ call[attempt.call].run \in {"ok", "stopped"}
      BY DEF FramesEnd, CallsAreTaken, CursorSettled
    <2>. QED
      BY <1>6, <2>1 DEF Due
  <1>8. WorkIsCommitted'
    <2>1. attempt'.pc = "listing" =>
            /\ attempt'.checkpoint <= HeadSha'
            /\ \A k \in (attempt'.checkpoint + 1)..HeadSha' : tree'.commits[k].by = "agent"
      <3>. SUFFICES ASSUME attempt.pc = "listing"
                    PROVE  /\ attempt.checkpoint <= HeadSha'
                           /\ \A k \in (attempt.checkpoint + 1)..HeadSha' : tree'.commits[k].by = "agent"
        BY <1>1
      <3>1. /\ attempt.checkpoint \in Nat /\ attempt.checkpoint <= HeadSha
            /\ \A k \in (attempt.checkpoint + 1)..HeadSha : tree.commits[k].by = "agent"
        BY <1>2 DEF WorkIsCommitted, Attempts
      <3>2. ASSUME NEW k \in (attempt.checkpoint + 1)..HeadSha'
            PROVE  tree'.commits[k].by = "agent"
        <4>1. CASE k \in (attempt.checkpoint + 1)..HeadSha
          BY <1>3, <3>1, <4>1
        <4>2. CASE k \in (HeadSha + 1)..HeadSha'
          BY <4>2
        <4>. QED
          BY <1>3, <3>1, <4>1, <4>2
      <3>. QED
        BY <1>3, <3>1, <3>2
    <2>2. BeforeCommit' => \A e \in tree'.pending : ~Due(e)'
      BY <1>1, <1>7 DEF WorkIsCommitted, BeforeCommit, CursorSettled, Due
    <2>3. attempt'.pc = "committed" => \A e \in Everything' : Due(e)' => e \in Committed(HeadSha)'
      BY <1>1, <1>3, <1>7 DEF WorkIsCommitted, CursorSettled, Due
    <2>4. attempt'.pc \in {"recording", "recorded"} =>
            /\ attempt'.checkpoint <= HeadSha'
            /\ \A e \in Everything' : Due(e)' => InBranch(e, attempt.checkpoint)'
      <3>. SUFFICES ASSUME attempt.pc \in {"recording", "recorded"}
                    PROVE  /\ attempt.checkpoint <= HeadSha'
                           /\ \A e \in Everything' : Due(e) => InBranch(e, attempt.checkpoint)'
        BY <1>1 DEF Due
      <3>1. PICK n \in 0..HeadSha : n = attempt.checkpoint
        BY <1>2, <1>3 DEF WorkIsCommitted, Attempts
      <3>2. \A e \in Everything' : Due(e) => InBranch(e, n)
        BY <1>7, <3>1 DEF WorkIsCommitted, CursorSettled
      <3>3. \A e \in Everything' : Due(e) => InBranch(e, n)'
        BY <1>3, <3>2
      <3>. QED
        BY <1>1, <1>3, <3>1, <3>3 DEF InBranch, Committed
    <2>5. \A i \in Iterations : row'[i].result # Nobody => Over(row[i].result)' /\ row'[i].checkpoint <= HeadSha'
      BY <1>1, <1>2, <1>3 DEF WorkIsCommitted, Over, Rows
    <2>. QED
      BY <1>1, <1>2, <2>1, <2>2, <2>3, <2>4, <2>5 DEF WorkIsCommitted, Over, Due
  <1>9. StagedIsClean'
    BY <1>1 DEF StagedIsClean
  <1>10. ResultHasItsWork'
    <2>1. ASSUME NEW i \in Iterations, NEW e \in Everything', e.of = row[i].result, ~e.late
          PROVE  InBranch(e, row[i].checkpoint)'
      <3>1. e \in Edits /\ e.of \in Calls
        BY CursorBounds DEF Brought
      <3>2. row[i].result # Nobody
        BY <2>1, <3>1, CursorBounds
      <3>3. row[i].result \in Calls /\ Over(row[i].result) /\ row[i].checkpoint \in 0..HeadSha
        BY <1>2, <1>3, <3>2 DEF WorkIsCommitted, Rows
      <3>4. e \in Everything
        BY <1>6, <2>1, <3>3
      <3>5. PICK n \in 0..HeadSha : n = row[i].checkpoint
        BY <3>3
      <3>6. InBranch(e, n)
        BY <2>1, <3>4, <3>5 DEF ResultHasItsWork
      <3>7. InBranch(e, n)'
        BY <1>3, <3>6
      <3>. QED
        BY <1>1, <3>5, <3>7 DEF InBranch, Committed
    <2>. QED
      BY <1>1, <2>1 DEF ResultHasItsWork
  <1>11. SecretsStayOut'
    <2>1. ASSUME NEW k \in 1..HeadSha', tree'.commits[k].by = "platform"
          PROVE  \A e \in tree'.commits[k].edits : ~IsSecret(e)
      <3>1. k \in 1..HeadSha
        BY <1>3, <2>1
      <3>. QED
        BY <2>1, <3>1 DEF SecretsStayOut
    <2>. QED
      BY <2>1 DEF SecretsStayOut
  <1>. QED
    BY <1>4, <1>5, <1>8, <1>9, <1>10, <1>11

LEMMA AgentEditsKeeps ==
  ASSUME CursorInv, NEW c \in Calls, AgentEdits(c)
  PROVE  CursorInv' /\ Everything \subseteq Everything'
  <1>1. PICK e \in Edits :
          /\ e.of = c /\ e.late = (agent[c] = "ending")
          /\ tree' = [tree EXCEPT !.pending = @ \cup {e}, !.touched = @ \/ attempt.pc = "scanning"]
    BY DEF AgentEdits
  <1>2. OnlyTree /\ AtWork(c) /\ tree \in Trees /\ e \in Brought(c)
    BY <1>1, CursorShapes DEF AgentEdits, CursorInv, Brought
  <1>3. PICK touched \in BOOLEAN : touched <=> (tree.touched \/ attempt.pc = "scanning")
    OBVIOUS
  <1>4. tree' = [tree EXCEPT !.pending = @ \cup {e}, !.touched = touched]
    BY <1>1, <1>2, <1>3 DEF Trees
  <1>5. /\ tree'.pending = tree.pending \cup {e} /\ tree'.staged = tree.staged
        /\ tree'.touched = touched /\ tree'.commits = tree.commits /\ tree' \in Trees
    BY <1>2, <1>4 DEF Trees
  <1>6. HeadSha' = HeadSha /\ Everything' = Everything \cup {e} /\ HeadSha \in Nat
    BY <1>5, CursorBounds DEF HeadSha, Committed, Everything
  <1>7. CursorInv'
    BY <1>2, <1>3, <1>5, <1>6, AgentKeeps
  <1>. QED
    BY <1>6, <1>7

LEMMA AgentDropsKeeps ==
  ASSUME CursorInv, NEW c \in Calls, AgentDrops(c)
  PROVE  CursorInv'
  <1>1. PICK e \in tree.pending \cup tree.staged :
          tree' = [tree EXCEPT !.pending = @ \ {e}, !.staged = @ \ {e}, !.touched = @ \/ BeforeCommit]
    BY DEF AgentDrops
  <1>2. OnlyTree /\ AtWork(c) /\ tree \in Trees
    BY CursorShapes DEF AgentDrops, CursorInv
  <1>3. PICK touched \in BOOLEAN : touched <=> (tree.touched \/ BeforeCommit)
    OBVIOUS
  <1>4. tree' = [tree EXCEPT !.pending = @ \ {e}, !.staged = @ \ {e}, !.touched = touched]
    BY <1>1, <1>2, <1>3 DEF Trees
  <1>5. /\ tree'.pending = tree.pending \ {e} /\ tree'.staged = tree.staged \ {e}
        /\ tree'.touched = touched /\ tree'.commits = tree.commits /\ tree' \in Trees
    BY <1>2, <1>4 DEF Trees
  <1>6. HeadSha' = HeadSha /\ Everything' \subseteq Everything /\ HeadSha \in Nat
    BY <1>5, CursorBounds DEF HeadSha, Committed, Everything
  <1>. QED
    BY <1>2, <1>3, <1>5, <1>6, AgentKeeps DEF BeforeCommit

LEMMA AgentAddsKeeps ==
  ASSUME CursorInv, NEW c \in Calls, AgentAdds(c)
  PROVE  CursorInv' /\ Everything' = Everything
  <1>1. PICK e \in tree.pending :
          tree' = [tree EXCEPT !.pending = @ \ {e}, !.staged = @ \cup {e}, !.touched = @ \/ BeforeCommit]
    BY DEF AgentAdds
  <1>2. OnlyTree /\ AtWork(c) /\ tree \in Trees
    BY CursorShapes DEF AgentAdds, CursorInv
  <1>3. PICK touched \in BOOLEAN : touched <=> (tree.touched \/ BeforeCommit)
    OBVIOUS
  <1>4. tree' = [tree EXCEPT !.pending = @ \ {e}, !.staged = @ \cup {e}, !.touched = touched]
    BY <1>1, <1>2, <1>3 DEF Trees
  <1>5. /\ tree'.pending = tree.pending \ {e} /\ tree'.staged = tree.staged \cup {e}
        /\ tree'.touched = touched /\ tree'.commits = tree.commits /\ tree' \in Trees
    <2>1. e \in Edits /\ tree.pending \in SUBSET Edits /\ tree.staged \in SUBSET Edits
      BY <1>1, <1>2 DEF Trees
    <2>2. PICK pending \in SUBSET Edits, staged \in SUBSET Edits :
            pending = tree.pending \ {e} /\ staged = tree.staged \cup {e}
      BY <2>1
    <2>3. tree' = [tree EXCEPT !.pending = pending, !.staged = staged, !.touched = touched]
      BY <1>4, <2>2
    <2>. QED
      BY <1>2, <2>2, <2>3 DEF Trees
  <1>6. HeadSha' = HeadSha /\ Everything' = Everything /\ HeadSha \in Nat
    BY <1>5, CursorBounds DEF HeadSha, Committed, Everything
  <1>7. CursorInv'
    BY <1>2, <1>3, <1>5, <1>6, AgentKeeps DEF BeforeCommit
  <1>. QED
    BY <1>6, <1>7

LEMMA AgentCommitsKeeps ==
  ASSUME CursorInv, NEW c \in Calls, AgentCommits(c)
  PROVE  CursorInv' /\ Everything' = Everything
  <1>1. tree' = [tree EXCEPT !.staged = {}, !.touched = @ \/ BeforeCommit,
                             !.commits = Append(@, [edits |-> tree.staged, by |-> "agent"])]
    BY DEF AgentCommits
  <1>2. OnlyTree /\ AtWork(c) /\ tree \in Trees
    BY CursorShapes DEF AgentCommits, CursorInv
  <1>3. PICK touched \in BOOLEAN : touched <=> (tree.touched \/ BeforeCommit)
    OBVIOUS
  <1>4. tree' = [tree EXCEPT !.staged = {}, !.touched = touched,
                             !.commits = Append(@, [edits |-> tree.staged, by |-> "agent"])]
    BY <1>1, <1>2, <1>3 DEF Trees
  <1>5. /\ HeadSha \in Nat /\ HeadSha' = HeadSha + 1 /\ tree' \in Trees /\ Everything' = Everything
        /\ tree'.pending = tree.pending /\ tree'.staged = {} /\ tree'.touched = touched
        /\ \A k \in 1..HeadSha : tree'.commits[k] = tree.commits[k]
        /\ tree'.commits[HeadSha + 1] = [edits |-> tree.staged, by |-> "agent"]
    BY <1>2, <1>4, CursorCommitAdds
  <1>6. \A k \in (HeadSha + 1)..HeadSha' : tree'.commits[k].by = "agent"
    BY <1>5
  <1>7. CursorInv'
    BY <1>2, <1>3, <1>5, <1>6, AgentKeeps DEF BeforeCommit
  <1>. QED
    BY <1>5, <1>7
-----------------------------------------------------------------------------
(* Steps that end the attempt *)

\* What the end of an attempt may do to a call: its frame ends or was given up
\* on, and no call is waited for any more.
LetGo(c) ==
  /\ call'[c].exec = "none" => call[c].exec = "none" /\ call'[c].run = "none"
  /\ call[c].exec = "done" => call'[c].exec = "done"
  /\ call'[c].run # "open"
  /\ Alive(c)' => /\ Alive(c) /\ call'[c].run = "abandoned"
                  /\ call'[c].job = call[c].job /\ call'[c].target = call[c].target
  /\ call'[c].watch => Alive(c)'
  /\ call'[c].run \in {"ok", "stopped"} => call'[c].run = call[c].run
  /\ backend = "ACP" /\ agent[c] \in Spent /\ call[c].exec = "done" => agent'[c] \in Spent
  /\ backend = "ACP" /\ agent[c] \in Started => agent'[c] \in Started

LEMMA AttemptEnds ==
  ASSUME CursorInv, UNCHANGED <<backend, stage, iteration>>, owned' \in BOOLEAN, attempt' = NoAttempt,
         row' \in Rows,
         \A i \in Iterations : row'[i].result = row[i].result /\ row'[i].checkpoint = row[i].checkpoint,
         tree' = tree \/ Unstage,
         call' \in [Calls -> Frames], agent' \in Agents, active' \in Calls \cup {Nobody},
         \A c \in Calls : LetGo(c),
         active' # Nobody => Alive(active)'
  PROVE  CursorInv'
  <1>. USE DEF CursorInv
  <1>1. tree \in Trees /\ row \in Rows /\ call \in [Calls -> Frames]
    BY CursorShapes
  <1>2. /\ HeadSha' = HeadSha /\ Everything' = Everything
        /\ \A n : Committed(n)' = Committed(n)
        /\ \A n, e : InBranch(e, n)' <=> InBranch(e, n)
        /\ tree' \in Trees /\ tree'.commits = tree.commits
    BY <1>1, TreeStays, ChangesMove
  <1>3. attempt' \in Attempts /\ attempt'.pc = "idle"
    BY DEF NoAttempt, Attempts
  <1>4. CursorTypeOK'
    BY <1>2, <1>3, CursorShapes, CursorNextShapes
  <1>5. CallsAreTaken'
    BY <1>3 DEF CallsAreTaken
  <1>6. FramesEnd'
    <2>1. ASSUME NEW c \in Calls
          PROVE  /\ call'[c].exec = "none" => call'[c].run = "none"
                 /\ Alive(c)' => /\ call'[c].run \in {"open", "abandoned"}
                                 /\ call'[c].job \in Iterations /\ call'[c].target \in Calls
                 /\ Alive(c)' /\ backend' = "ACP" => agent'[c] \in Started
                 /\ call'[c].watch => Alive(c)'
                 /\ call'[c].run # "open"
                 /\ call'[c].run \in {"ok", "stopped"} /\ backend' = "ACP" => agent'[c] \in Spent
      <3>1. LetGo(c) /\ call[c] \in Frames
        BY <1>1
      <3>2. call[c].run \in {"ok", "stopped"} => call[c].exec = "done"
        BY <3>1 DEF FramesEnd, Alive, Frames
      <3>. QED
        BY <3>1, <3>2 DEF FramesEnd, LetGo
    <2>. QED
      BY <1>3, <2>1 DEF FramesEnd, CursorSettled
  <1>7. WorkIsCommitted'
    <2>1. ASSUME NEW i \in Iterations, row'[i].result # Nobody
          PROVE  Over(row[i].result)' /\ row'[i].checkpoint <= HeadSha
      <3>1. row[i].result \in Calls /\ Over(row[i].result) /\ row[i].checkpoint <= HeadSha
        BY <1>1, <2>1 DEF WorkIsCommitted, Rows
      <3>. QED
        BY <3>1 DEF Over, LetGo
    <2>. QED
      BY <1>2, <1>3, <2>1 DEF WorkIsCommitted, Over, BeforeCommit
  <1>8. ResultHasItsWork' /\ SecretsStayOut'
    BY <1>2 DEF ResultHasItsWork, SecretsStayOut
  <1>9. StagedIsClean'
    BY <1>3 DEF StagedIsClean
  <1>. QED
    BY <1>4, <1>5, <1>6, <1>7, <1>8, <1>9

\* The catch of executeCursor, when the attempt's call has settled.
LEMMA FailAttemptKeeps ==
  ASSUME CursorInv, FailAttempt, attempt.pc \in CursorSettled \cup {"waiting"},
         attempt.pc = "waiting" => call[attempt.call].run # "open",
         tree' = tree \/ Unstage,
         UNCHANGED <<backend, stage, iteration, owned, call, active, agent>>
  PROVE  CursorInv'
  <1>1. /\ iteration \in Iterations /\ row \in Rows /\ owned \in BOOLEAN /\ call \in [Calls -> Frames]
        /\ agent \in Agents /\ active \in Calls \cup {Nobody}
    BY CursorShapes DEF CursorInv
  <1>2. /\ row' \in Rows /\ attempt' = NoAttempt
        /\ \A i \in Iterations : row'[i].result = row[i].result /\ row'[i].checkpoint = row[i].checkpoint
    BY <1>1 DEF FailAttempt, Rows
  <1>3. ASSUME NEW c \in Calls
        PROVE  LetGo(c)
    BY DEF LetGo, Alive, CursorInv, FramesEnd, CursorSettled
  <1>4. active' # Nobody => Alive(active)'
    BY <1>1 DEF Alive, CursorInv, FramesEnd
  <1>. QED
    BY <1>1, <1>2, <1>3, <1>4, AttemptEnds

LEMMA RunFailsKeeps ==
  ASSUME CursorInv, RunFails
  PROVE  CursorInv'
  BY FailAttemptKeeps DEF RunFails

LEMMA PreflightFailsKeeps ==
  ASSUME CursorInv, PreflightFails
  PROVE  CursorInv'
  <1>1. /\ iteration \in Iterations /\ row \in Rows /\ owned \in BOOLEAN /\ call \in [Calls -> Frames]
        /\ agent \in Agents /\ active \in Calls \cup {Nobody}
    BY CursorShapes DEF CursorInv
  <1>2. /\ row' \in Rows /\ attempt' = NoAttempt
        /\ \A i \in Iterations : row'[i].result = row[i].result /\ row'[i].checkpoint = row[i].checkpoint
    BY <1>1 DEF PreflightFails, FailAttempt, Rows
  <1>3. /\ attempt.call \in Calls /\ attempt.pc = "preflight"
        /\ call[attempt.call].exec = "none"
    BY DEF CursorInv, PreflightFails, CallsAreTaken
  <1>4. PICK over \in Frames : /\ over = [NoCall EXCEPT !.exec = "done", !.run = "over"]
                               /\ over.exec = "done" /\ over.run = "over" /\ over.watch = FALSE
    <2>0. NoCall \in Frames /\ NoCall.watch = FALSE
      BY DEF NoCall, Frames
    <2>1. PICK r \in Frames : r = NoCall /\ r.watch = FALSE
      BY <2>0
    <2>2. [r EXCEPT !.exec = "done", !.run = "over"] \in Frames
      BY <2>1 DEF Frames
    <2>. QED
      BY <2>1, <2>2 DEF Frames
  <1>5. call' = [call EXCEPT ![attempt.call] = over]
    BY <1>4 DEF PreflightFails
  <1>6. call' \in [Calls -> Frames]
    BY <1>1, <1>3, <1>4, <1>5
  <1>7. ASSUME NEW c \in Calls
        PROVE  LetGo(c)
    <2>1. agent' = agent
      BY DEF PreflightFails
    <2>2. CASE c = attempt.call
      BY <1>1, <1>3, <1>4, <1>5, <2>1, <2>2 DEF LetGo, Alive
    <2>3. CASE c # attempt.call
      <3>1. call'[c] = call[c]
        BY <1>1, <1>5, <2>3
      <3>. QED
        BY <1>3, <2>1, <2>3, <3>1 DEF LetGo, Alive, CursorInv, FramesEnd
    <2>. QED
      BY <2>2, <2>3
  <1>8. active' # Nobody => Alive(active)'
    <2>1. active' = active /\ (active # Nobody => active \in Calls /\ Alive(active))
      BY <1>1 DEF PreflightFails, CursorInv, FramesEnd
    <2>. QED
      BY <1>1, <1>3, <1>5, <2>1 DEF Alive
  <1>. QED
    BY <1>1, <1>2, <1>6, <1>7, <1>8, AttemptEnds DEF PreflightFails

\* The call that is given up on goes on without the attempt.
LEMMA TimeoutKeeps ==
  ASSUME CursorInv, Timeout
  PROVE  CursorInv'
  <1>1. /\ iteration \in Iterations /\ row \in Rows /\ owned \in BOOLEAN /\ call \in [Calls -> Frames]
        /\ agent \in Agents /\ active \in Calls \cup {Nobody}
    BY CursorShapes DEF CursorInv
  <1>2. /\ row' \in Rows /\ attempt' = NoAttempt
        /\ \A i \in Iterations : row'[i].result = row[i].result /\ row'[i].checkpoint = row[i].checkpoint
    <2>1. FailAttempt
      BY DEF Timeout
    <2>. QED
      BY <1>1, <2>1 DEF FailAttempt, Rows
  <1>3. /\ attempt.call \in Calls /\ attempt.pc = "waiting" /\ call[attempt.call].run = "open"
    BY DEF CursorInv, Timeout, Waited, CallsAreTaken
  <1>4. UNCHANGED <<backend, stage, iteration, owned, active, tree>>
    BY DEF Timeout
  <1>5. /\ agent' \in Agents
        /\ \A c \in Calls : agent[c] \in Spent => agent'[c] \in Spent
        /\ \A c \in Calls : agent[c] \in Started => agent'[c] \in Started
    <2>1. agent' = agent \/ \E c \in Calls : agent' = [agent EXCEPT ![c] = Told(@)]
      BY <1>1 DEF Timeout
    <2>2. CASE agent' = agent
      BY <1>1, <2>2
    <2>3. CASE \E c \in Calls : agent' = [agent EXCEPT ![c] = Told(@)]
      <3>1. PICK c \in Calls : agent' = [agent EXCEPT ![c] = Told(@)]
        BY <2>3
      <3>2. /\ agent' \in Agents /\ agent'[c] = Told(agent[c])
            /\ \A d \in Calls \ {c} : agent'[d] = agent[d]
        BY <1>1, <3>1, ToldIs DEF Agents
      <3>. QED
        BY <3>2, ToldIs
    <2>. QED
      BY <2>1, <2>2, <2>3
  <1>6. ASSUME NEW c \in Calls
        PROVE  /\ call'[c].exec = call[c].exec /\ call'[c].job = call[c].job
               /\ call'[c].target = call[c].target /\ call'[c].watch = call[c].watch
               /\ call'[c].run = (IF c = attempt.call THEN "abandoned" ELSE call[c].run)
               /\ call'[c] \in Frames
    <2>1. call[c] \in Frames /\ call[attempt.call] \in Frames
      BY <1>1, <1>3
    <2>2. CASE call' = [call EXCEPT ![attempt.call].run = "abandoned"]
      BY <1>1, <1>3, <2>1, <2>2 DEF Frames
    <2>3. CASE call' = [d \in Calls |->
             [call[d] EXCEPT !.run = IF d = attempt.call THEN "abandoned" ELSE @,
                             !.cancelled = @ \/ d = active,
                             !.cancelling = @ \/ (d = active /\ call[d].session)]]
      <3>1. PICK run \in {"none", "open", "ok", "stopped", "abandoned", "over"},
                 cancelled \in BOOLEAN, cancelling \in BOOLEAN :
              /\ call'[c] = [call[c] EXCEPT !.run = run, !.cancelled = cancelled, !.cancelling = cancelling]
              /\ run = IF c = attempt.call THEN "abandoned" ELSE call[c].run
        BY <2>1, <2>3 DEF Frames
      <3>. QED
        BY <2>1, <3>1 DEF Frames
    <2>. QED
      BY <2>2, <2>3 DEF Timeout
  <1>7. call' \in [Calls -> Frames]
    <2>1. CASE call' = [call EXCEPT ![attempt.call].run = "abandoned"]
      BY <1>1, <1>6, <2>1
    <2>2. CASE call' = [d \in Calls |->
             [call[d] EXCEPT !.run = IF d = attempt.call THEN "abandoned" ELSE @,
                             !.cancelled = @ \/ d = active,
                             !.cancelling = @ \/ (d = active /\ call[d].session)]]
      BY <1>6, <2>2
    <2>. QED
      BY <2>1, <2>2 DEF Timeout
  <1>8. ASSUME NEW c \in Calls
        PROVE  LetGo(c)
    BY <1>3, <1>5, <1>6 DEF LetGo, Alive, CursorInv, FramesEnd
  <1>9. active' # Nobody => Alive(active)'
    BY <1>1, <1>4, <1>6 DEF Alive, CursorInv, FramesEnd
  <1>. QED
    BY <1>1, <1>2, <1>4, <1>5, <1>7, <1>8, <1>9, AttemptEnds

\* No frame survives the worker; an agent may.
LEMMA CrashKeeps ==
  ASSUME CursorInv, Crash
  PROVE  CursorInv'
  <1>1. /\ row \in Rows /\ owned \in BOOLEAN /\ call \in [Calls -> Frames] /\ agent \in Agents
    BY CursorShapes DEF CursorInv
  <1>2. /\ UNCHANGED <<backend, stage, iteration, row, owned, tree>>
        /\ active' = Nobody /\ attempt' = NoAttempt
    BY DEF Crash
  <1>3. /\ agent' \in Agents
        /\ \A c \in Calls : agent[c] \in Spent => agent'[c] \in Spent
        /\ \A c \in Calls : agent[c] \in Started => agent'[c] \in Started
    BY <1>1 DEF Crash, Agents, Spent, Started
  <1>4. ASSUME NEW c \in Calls
        PROVE  /\ call'[c] \in Frames
               /\ \/ ~Alive(c) /\ c # attempt.call /\ call'[c] = call[c]
                  \/ /\ Alive(c) \/ c = attempt.call
                     /\ call'[c].exec = "done" /\ call'[c].run \in {"abandoned", "over"} /\ ~call'[c].watch
    <2>1. /\ NoCall \in Frames /\ NoCall.watch = FALSE
      BY DEF NoCall, Frames
    <2>2. PICK r \in Frames : r = NoCall /\ r.watch = FALSE
      BY <2>1
    <2>3. call'[c] = IF Alive(c) \/ c = attempt.call
            THEN [r EXCEPT !.exec = "done", !.run = IF call[c].run = "abandoned" THEN "abandoned" ELSE "over"]
            ELSE call[c]
      BY <2>2 DEF Crash
    <2>4. PICK run \in {"abandoned", "over"} :
            run = IF call[c].run = "abandoned" THEN "abandoned" ELSE "over"
      OBVIOUS
    <2>5. PICK f : f = [r EXCEPT !.exec = "done", !.run = run]
      OBVIOUS
    <2>6. f \in Frames /\ f.exec = "done" /\ f.run = run /\ ~f.watch
      BY <2>2, <2>5 DEF Frames
    <2>7. call'[c] = IF Alive(c) \/ c = attempt.call THEN f ELSE call[c]
      BY <2>3, <2>4, <2>5
    <2>. QED
      BY <1>1, <2>6, <2>7
  <1>5. call' \in [Calls -> Frames]
    <2>1. call' = [c \in Calls |-> call'[c]]
      BY DEF Crash
    <2>. QED
      BY <1>4, <2>1
  <1>6. ASSUME NEW c \in Calls
        PROVE  LetGo(c)
    BY <1>3, <1>4 DEF LetGo, Alive, CursorInv, FramesEnd
  <1>. QED
    BY <1>1, <1>2, <1>3, <1>5, <1>6, AttemptEnds
-----------------------------------------------------------------------------
(* Steps of the attempt *)

\* The attempt takes the first call there is.
LEMMA ClaimKeeps ==
  ASSUME CursorInv, Claim
  PROVE  CursorInv'
  <1>. USE DEF CursorInv
  <1>1. PICK c \in Calls :
          /\ call[c].exec = "none" /\ \A d \in Calls : call[d].exec = "none" => c <= d
          /\ attempt' = [NoAttempt EXCEPT !.pc = "preflight", !.call = c, !.run = Reload(iteration).run]
    BY DEF Claim
  <1>2. /\ stage = "CURSOR_EXECUTING" /\ attempt.pc = "idle"
        /\ row' = [row EXCEPT ![iteration].status = "STARTED"] /\ owned' = TRUE
        /\ UNCHANGED <<backend, stage, iteration, call, active, agent, tree>>
    BY DEF Claim
  <1>3. iteration \in Iterations /\ row \in Rows /\ call \in [Calls -> Frames]
    BY CursorShapes
  <1>4. /\ attempt'.pc = "preflight" /\ attempt'.call = c /\ attempt' \in Attempts
    <2>1. NoAttempt \in Attempts
      BY DEF NoAttempt, Attempts
    <2>2. PICK a \in Attempts : a = NoAttempt
      BY <2>1
    <2>3. attempt' = [a EXCEPT !.pc = "preflight", !.call = c, !.run = Nobody]
      BY <1>1, <2>2 DEF Reload
    <2>. QED
      BY <2>2, <2>3 DEF Attempts
  <1>5. /\ row' \in Rows
        /\ \A i \in Iterations : row'[i].result = row[i].result /\ row'[i].checkpoint = row[i].checkpoint
    BY <1>2, <1>3 DEF Rows
  <1>6. CursorTypeOK'
    BY <1>2, <1>4, <1>5, CursorShapes, CursorNextShapes
  <1>7. /\ HeadSha' = HeadSha /\ Everything' = Everything
        /\ \A n : Committed(n)' = Committed(n)
        /\ \A n, e : InBranch(e, n)' <=> InBranch(e, n)
    BY <1>2, TreeStays
  <1>8. CallsAreTaken'
    BY <1>1, <1>2, <1>4, <1>7 DEF CallsAreTaken
  <1>9. FramesEnd'
    BY <1>2, <1>4 DEF FramesEnd, Alive, CursorSettled
  <1>10. WorkIsCommitted' /\ StagedIsClean' /\ ResultHasItsWork' /\ SecretsStayOut'
    BY <1>2, <1>4, <1>5, <1>7 DEF WorkIsCommitted, StagedIsClean, ResultHasItsWork, SecretsStayOut, Over, Due, BeforeCommit
  <1>. QED
    BY <1>6, <1>8, <1>9, <1>10

\* Between the stages there is no attempt.
LEMMA EnterKeeps ==
  ASSUME CursorInv, Enter
  PROVE  CursorInv'
  <1>. USE DEF CursorInv
  <1>1. /\ stage' = "PLATFORM_VERIFICATION" /\ attempt' = NoAttempt /\ attempt.pc \in {"idle", "recorded"}
        /\ UNCHANGED <<backend, iteration, row, owned, call, active, agent, tree>>
    BY DEF Enter
  <1>2. attempt' \in Attempts /\ attempt'.pc = "idle"
    BY <1>1 DEF NoAttempt, Attempts
  <1>3. CursorTypeOK'
    BY <1>1, <1>2, CursorShapes, CursorNextShapes
  <1>4. /\ HeadSha' = HeadSha /\ Everything' = Everything
        /\ \A n : Committed(n)' = Committed(n)
        /\ \A n, e : InBranch(e, n)' <=> InBranch(e, n)
    BY <1>1, TreeStays
  <1>5. CallsAreTaken'
    BY <1>1, <1>2, <1>4 DEF CallsAreTaken
  <1>6. FramesEnd'
    BY <1>1, <1>2 DEF FramesEnd, Alive, CursorSettled
  <1>7. WorkIsCommitted' /\ StagedIsClean' /\ ResultHasItsWork' /\ SecretsStayOut'
    BY <1>1, <1>2, <1>4 DEF WorkIsCommitted, StagedIsClean, ResultHasItsWork, SecretsStayOut, Over, Due, BeforeCommit
  <1>. QED
    BY <1>3, <1>5, <1>6, <1>7

LEMMA VerifiedKeeps ==
  ASSUME CursorInv, Verified
  PROVE  CursorInv'
  <1>. USE DEF CursorInv
  <1>1. /\ stage' \in {"CURSOR_EXECUTING", "DELIVERY_PREPARATION"} /\ stage = "PLATFORM_VERIFICATION"
        /\ UNCHANGED <<backend, row, attempt, owned, call, active, agent, tree>>
    BY DEF Verified
  <1>2. iteration' \in Iterations
    BY CursorShapes, CursorBounds DEF Verified, Iterations
  <1>3. attempt.pc = "idle"
    BY <1>1 DEF CallsAreTaken
  <1>4. CursorTypeOK'
    BY <1>1, <1>2, CursorShapes, CursorNextShapes
  <1>5. /\ HeadSha' = HeadSha /\ Everything' = Everything
        /\ \A n : Committed(n)' = Committed(n)
        /\ \A n, e : InBranch(e, n)' <=> InBranch(e, n)
    BY <1>1, TreeStays
  <1>6. CallsAreTaken' /\ FramesEnd'
    BY <1>1, <1>3, <1>5 DEF CallsAreTaken, FramesEnd, Alive
  <1>7. WorkIsCommitted' /\ StagedIsClean' /\ ResultHasItsWork' /\ SecretsStayOut'
    BY <1>1, <1>3, <1>5 DEF WorkIsCommitted, StagedIsClean, ResultHasItsWork, SecretsStayOut, Over, Due, BeforeCommit
  <1>. QED
    BY <1>4, <1>6, <1>7

LEMMA LeaseLostKeeps ==
  ASSUME CursorInv, LeaseLost
  PROVE  CursorInv'
  <1>1. /\ owned' = FALSE
        /\ UNCHANGED <<backend, stage, iteration, row, attempt, call, active, agent, tree>>
    BY DEF LeaseLost
  <1>2. CursorTypeOK'
    BY <1>1, CursorShapes, CursorNextShapes DEF CursorInv
  <1>3. CallsAreTaken' /\ FramesEnd'
    BY <1>1 DEF CursorInv, CallsAreTaken, FramesEnd, Alive
  <1>4. /\ HeadSha' = HeadSha /\ Everything' = Everything
        /\ \A n : Committed(n)' = Committed(n)
        /\ \A n, e : InBranch(e, n)' <=> InBranch(e, n)
    BY <1>1, TreeStays
  <1>5. WorkIsCommitted' /\ StagedIsClean' /\ ResultHasItsWork' /\ SecretsStayOut'
    BY <1>1, <1>4 DEF CursorInv, WorkIsCommitted, StagedIsClean, ResultHasItsWork, SecretsStayOut, Over, Due, BeforeCommit
  <1>. QED
    BY <1>2, <1>3, <1>5 DEF CursorInv

\* The call of the attempt gets its frame, the slot and an agent.
LEMMA StartKeeps ==
  ASSUME CursorInv, Start
  PROVE  CursorInv'
  <1>. USE DEF CursorInv
  <1>0. PICK c \in Calls : c = attempt.call
    BY DEF Start, CallsAreTaken
  <1>1. /\ attempt.pc = "preflight" /\ attempt' = [attempt EXCEPT !.pc = "waiting"]
        /\ UNCHANGED <<backend, stage, iteration, row, owned, tree>> /\ active' = c
        /\ agent' = IF backend = "ACP" THEN [agent EXCEPT ![c] = "up"] ELSE agent
    BY <1>0 DEF Start
  <1>2. /\ iteration \in Iterations /\ row \in Rows /\ call \in [Calls -> Frames] /\ agent \in Agents
        /\ attempt \in Attempts /\ attempt.run \in Calls \cup {Nobody}
    BY CursorShapes DEF Attempts
  <1>3. c \in Calls /\ call[c].exec = "none" /\ stage = "CURSOR_EXECUTING"
    BY <1>0, <1>1 DEF CallsAreTaken
  <1>4. PICK f \in Frames : /\ call' = [call EXCEPT ![c] = f]
                            /\ f.exec \in {"opening", "prompted"} /\ f.run = "open" /\ f.job = iteration
                            /\ f.target \in Calls
    <2>1. NoCall \in Frames
      BY DEF NoCall, Frames
    <2>2. PICK r \in Frames : r = NoCall
      BY <2>1
    <2>3. PICK exec \in {"opening", "prompted"}, target \in Calls, watch \in BOOLEAN, session \in BOOLEAN :
            call' = [call EXCEPT ![c] = [r EXCEPT
              !.exec = exec, !.run = "open", !.job = iteration, !.watch = watch,
              !.target = target, !.session = session]]
      <3>1. row[iteration].session \in BOOLEAN
        BY <1>2 DEF Rows
      <3>2. CASE backend = "CLOUD" /\ attempt.run # Nobody
        <4>1. call' = [call EXCEPT ![c] = [r EXCEPT
                !.exec = "prompted", !.run = "open", !.job = iteration, !.watch = (backend = "ACP"),
                !.target = attempt.run, !.session = row[iteration].session]]
          BY <1>0, <2>2, <3>2 DEF Start
        <4>. QED
          BY <1>2, <3>1, <3>2, <4>1
      <3>3. CASE ~(backend = "CLOUD" /\ attempt.run # Nobody)
        <4>1. call' = [call EXCEPT ![c] = [r EXCEPT
                !.exec = "opening", !.run = "open", !.job = iteration, !.watch = (backend = "ACP"),
                !.target = c, !.session = row[iteration].session]]
          BY <1>0, <2>2, <3>3 DEF Start
        <4>. QED
          BY <1>3, <3>1, <4>1
      <3>. QED
        BY <3>2, <3>3
    <2>4. PICK f : f = [r EXCEPT !.exec = exec, !.run = "open", !.job = iteration, !.watch = watch,
                                 !.target = target, !.session = session]
      OBVIOUS
    <2>5. f = [exec |-> exec, run |-> "open", job |-> iteration, target |-> target, session |-> session,
               cancelled |-> r.cancelled, cancelling |-> r.cancelling, watch |-> watch]
      BY <2>2, <2>4 DEF Frames
    <2>6. r.cancelled \in BOOLEAN /\ r.cancelling \in BOOLEAN
      BY <2>2 DEF Frames
    <2>7. f \in Frames /\ f.exec = exec /\ f.run = "open" /\ f.job = iteration /\ f.target = target
      BY <1>2, <2>5, <2>6 DEF Frames
    <2>. QED
      BY <2>3, <2>4, <2>7
  <1>5. /\ call' \in [Calls -> Frames] /\ call'[c] = f
        /\ \A d \in Calls \ {c} : call'[d] = call[d]
    BY <1>2, <1>3, <1>4
  <1>6. /\ attempt' \in Attempts /\ attempt'.pc = "waiting" /\ attempt'.call = c
        /\ attempt'.checkpoint = attempt.checkpoint
    BY <1>0, <1>1, <1>2 DEF Attempts
  <1>7. agent' \in Agents /\ \A d \in Calls \ {c} : agent'[d] = agent[d]
    BY <1>1, <1>2, <1>3 DEF Agents
  <1>8. CursorTypeOK'
    BY <1>1, <1>3, <1>5, <1>6, <1>7, CursorShapes, CursorNextShapes
  <1>9. /\ HeadSha' = HeadSha /\ Everything' = Everything
        /\ \A n : Committed(n)' = Committed(n)
        /\ \A n, e : InBranch(e, n)' <=> InBranch(e, n)
    BY <1>1, TreeStays
  <1>10. CallsAreTaken'
    <2>1. \A d \in Calls : call'[d].exec = "none" => call[d].exec = "none" /\ d # c
      BY <1>4, <1>5
    <2>2. \A d \in Calls : call'[d].exec = "none" => c <= d
      BY <1>0, <1>1, <2>1 DEF CallsAreTaken
    <2>3. stage' = "CURSOR_EXECUTING" /\ call'[c].exec # "none"
      BY <1>1, <1>3, <1>4, <1>5
    <2>. QED
      BY <1>3, <1>6, <2>2, <2>3 DEF CallsAreTaken
  <1>11. FramesEnd'
    <2>1. /\ call'[c].exec # "none" /\ Alive(c)' /\ call'[c].run = "open" /\ call'[c].job = iteration
          /\ call'[c].target \in Calls
          /\ backend' = "ACP" => agent'[c] \in Started
      BY <1>1, <1>2, <1>4, <1>5 DEF Alive, Agents, Started
    <2>2. ASSUME NEW d \in Calls \ {c}
          PROVE  /\ call'[d].exec = "none" => call'[d].run = "none"
                 /\ Alive(d)' => /\ call'[d].run \in {"open", "abandoned"}
                                 /\ call'[d].job \in Iterations /\ call'[d].target \in Calls
                 /\ Alive(d)' /\ backend' = "ACP" => agent'[d] \in Started
                 /\ call'[d].watch => Alive(d)'
                 /\ call'[d].run # "open"
                 /\ call'[d].run \in {"ok", "stopped"} /\ backend' = "ACP" => agent'[d] \in Spent
      <3>1. call'[d] = call[d] /\ agent'[d] = agent[d]
        BY <1>5, <1>7
      <3>. QED
        BY <1>1, <3>1 DEF FramesEnd, Alive
    <2>. QED
      BY <1>1, <1>2, <1>3, <1>6, <2>1, <2>2 DEF FramesEnd, CursorSettled
  <1>12. WorkIsCommitted' /\ StagedIsClean' /\ ResultHasItsWork' /\ SecretsStayOut'
    <2>1. ASSUME NEW i \in Iterations, row[i].result # Nobody
          PROVE  Over(row[i].result)' /\ row'[i].checkpoint <= HeadSha
      <3>1. row[i].result \in Calls \ {c} /\ Over(row[i].result) /\ row[i].checkpoint <= HeadSha
        BY <1>2, <1>3, <2>1 DEF WorkIsCommitted, Rows, Over
      <3>. QED
        BY <1>1, <1>5, <1>7, <3>1 DEF Over
    <2>. QED
      BY <1>1, <1>6, <1>9, <2>1 DEF WorkIsCommitted, StagedIsClean, ResultHasItsWork, SecretsStayOut, Over, Due, BeforeCommit
  <1>. QED
    BY <1>8, <1>10, <1>11, <1>12

\* The call has settled, so that the attempt goes from one step of the postflight
\* to the next: what holds of the calls.
LEMMA PostflightGoesOn ==
  ASSUME CursorInv, attempt' \in Attempts, attempt'.pc \in CursorSettled, attempt'.call = attempt.call,
         attempt.pc \in CursorSettled \/ (attempt.pc = "waiting" /\ call[attempt.call].run \in {"ok", "stopped"}),
         UNCHANGED <<backend, stage, iteration, owned, call, active, agent>>
  PROVE  CallsAreTaken' /\ FramesEnd'
  <1>. USE DEF CursorInv
  <1>1. attempt.pc # "idle" /\ attempt.pc # "preflight" /\ attempt.call \in Calls
    BY DEF CursorSettled, CallsAreTaken
  <1>2. CallsAreTaken'
    <2>1. attempt'.pc # "preflight" /\ attempt'.pc # "idle"
      BY DEF CursorSettled
    <2>. QED
      BY <1>1, <2>1 DEF CallsAreTaken
  <1>3. FramesEnd'
    <2>1. call[attempt.call].run \in {"ok", "stopped"}
      BY DEF FramesEnd
    <2>2. \A c \in Calls : call[c].run # "open"
      BY <1>1, <2>1 DEF FramesEnd, CursorSettled
    <2>. QED
      BY <2>1, <2>2 DEF FramesEnd, Alive
  <1>. QED
    BY <1>2, <1>3

\* A step of the postflight that looks at the worktree and goes on.
LEMMA PostflightReads ==
  ASSUME CursorInv, attempt' \in Attempts, attempt'.call = attempt.call,
         attempt'.pc \in CursorSettled \ {"committed", "recorded"},
         attempt.pc \in CursorSettled \/ (attempt.pc = "waiting" /\ call[attempt.call].run \in {"ok", "stopped"}),
         UNCHANGED <<backend, stage, iteration, row, owned, call, active, agent, tree>>,
         attempt'.pc = "listing" => attempt'.checkpoint = HeadSha,
         BeforeCommit' => BeforeCommit,
         attempt'.pc = "committing" /\ ~tree.touched => \A e \in tree.staged : ~IsSecret(e),
         attempt'.pc = "recording" =>
           attempt'.checkpoint <= HeadSha /\ \A e \in Everything : Due(e) => InBranch(e, attempt'.checkpoint)
  PROVE  CursorInv'
  <1>. USE DEF CursorInv
  <1>1. /\ HeadSha' = HeadSha /\ Everything' = Everything
        /\ \A n : Committed(n)' = Committed(n)
        /\ \A n, e : InBranch(e, n)' <=> InBranch(e, n)
    BY TreeStays
  <1>2. CursorTypeOK'
    BY CursorShapes, CursorNextShapes DEF CursorSettled
  <1>3. CallsAreTaken' /\ FramesEnd'
    BY PostflightGoesOn DEF CursorSettled
  <1>4. WorkIsCommitted'
    <2>1. HeadSha \in Nat
      BY CursorBounds
    <2>2. attempt'.pc = "listing" => \A k \in (attempt'.checkpoint + 1)..HeadSha : FALSE
      BY <2>1
    <2>3. BeforeCommit' => \A e \in tree'.pending : ~Due(e)'
      BY DEF WorkIsCommitted, Due
    <2>4. attempt'.pc = "recording" => \A e \in Everything' : Due(e)' => InBranch(e, attempt.checkpoint)'
      <3>1. PICK n : n = attempt'.checkpoint
        OBVIOUS
      <3>2. attempt'.pc = "recording" => \A e \in Everything' : Due(e)' => InBranch(e, n)'
        BY <1>1, <3>1 DEF Due
      <3>. QED
        BY <3>1, <3>2 DEF InBranch, Committed
    <2>. QED
      BY <1>1, <2>1, <2>2, <2>3, <2>4 DEF WorkIsCommitted, Over
  <1>5. StagedIsClean'
    BY DEF StagedIsClean
  <1>6. ResultHasItsWork' /\ SecretsStayOut'
    BY <1>1 DEF ResultHasItsWork, SecretsStayOut
  <1>. QED
    BY <1>2, <1>3, <1>4, <1>5, <1>6

LEMMA RunReturnsKeeps ==
  ASSUME CursorInv, RunReturns
  PROVE  CursorInv'
  <1>1. /\ attempt.pc = "waiting" /\ call[attempt.call].run \in {"ok", "stopped"}
        /\ attempt' = [attempt EXCEPT !.pc = "collecting"]
        /\ UNCHANGED <<backend, stage, iteration, row, owned, call, active, agent, tree>>
    BY DEF RunReturns
  <1>2. attempt' \in Attempts /\ attempt'.pc = "collecting" /\ attempt'.call = attempt.call
    BY <1>1, CursorShapes DEF CursorInv, Attempts
  <1>. QED
    BY <1>1, <1>2, PostflightReads DEF CursorSettled, BeforeCommit

\* HEAD is read before git status is asked, or after the commit.
LEMMA ReadHeadKeeps ==
  ASSUME CursorInv, ReadHead
  PROVE  CursorInv'
  <1>1. /\ attempt.pc \in {"collecting", "committed"}
        /\ attempt' = [attempt EXCEPT !.pc = HeadThen[@], !.checkpoint = HeadSha]
        /\ UNCHANGED <<backend, stage, iteration, row, owned, call, active, agent, tree>>
    BY DEF ReadHead, HeadThen
  <1>2. PICK pc \in {"listing", "recording"} :
          pc = HeadThen[attempt.pc] /\ (pc = "recording" => attempt.pc = "committed")
    BY <1>1 DEF HeadThen
  <1>3. attempt' = [attempt EXCEPT !.pc = pc, !.checkpoint = HeadSha]
    BY <1>1, <1>2, CursorShapes DEF CursorInv, Attempts
  <1>4. /\ attempt' \in Attempts /\ attempt'.pc = pc /\ attempt'.call = attempt.call
        /\ attempt'.checkpoint = HeadSha /\ HeadSha \in Nat
    BY <1>3, CursorShapes, CursorBounds DEF CursorInv, Attempts
  <1>5. pc = "recording" => \A e \in Everything : Due(e) => InBranch(e, HeadSha)
    BY <1>2 DEF CursorInv, WorkIsCommitted, InBranch
  <1>. QED
    BY <1>1, <1>2, <1>4, <1>5, PostflightReads DEF CursorSettled, BeforeCommit

\* A clean worktree has nothing that is not committed, by an agent since HEAD was
\* read.
LEMMA CollectKeeps ==
  ASSUME CursorInv, Collect
  PROVE  CursorInv'
  <1>1. /\ attempt.pc = "listing"
        /\ UNCHANGED <<backend, stage, iteration, owned, call, active, agent, tree>>
    BY DEF Collect
  <1>2. CASE FailAttempt
    BY <1>1, <1>2, FailAttemptKeeps DEF CursorSettled
  <1>3. CASE attempt' = [attempt EXCEPT !.pc = IF Dirty THEN "adding" ELSE "recording"] /\ UNCHANGED row
    <2>1. PICK pc \in {"adding", "recording"} : pc = IF Dirty THEN "adding" ELSE "recording"
      OBVIOUS
    <2>2. attempt' = [attempt EXCEPT !.pc = pc]
      BY <1>3, <2>1
    <2>3. /\ attempt' \in Attempts /\ attempt'.pc = pc /\ attempt'.call = attempt.call
          /\ attempt'.checkpoint = attempt.checkpoint /\ attempt.checkpoint \in Nat
      BY <2>2, CursorShapes DEF CursorInv, Attempts
    <2>4. /\ HeadSha \in Nat /\ attempt.checkpoint <= HeadSha
          /\ \A k \in (attempt.checkpoint + 1)..HeadSha : tree.commits[k].by = "agent"
      BY <1>1, CursorBounds DEF CursorInv, WorkIsCommitted
    <2>5. ASSUME pc = "recording", NEW e \in Everything
          PROVE  InBranch(e, attempt.checkpoint)
      <3>1. e \in Committed(HeadSha)
        BY <2>1, <2>5 DEF Dirty, Everything
      <3>2. PICK k \in 1..HeadSha : e \in tree.commits[k].edits
        BY <3>1 DEF Committed
      <3>3. CASE k \in 1..attempt.checkpoint
        BY <3>2, <3>3 DEF InBranch, Committed
      <3>4. CASE k \in (attempt.checkpoint + 1)..HeadSha
        BY <2>4, <3>2, <3>4 DEF InBranch
      <3>. QED
        BY <2>3, <2>4, <3>2, <3>3, <3>4
    <2>. QED
      BY <1>1, <1>3, <2>1, <2>3, <2>4, <2>5, PostflightReads DEF CursorSettled, BeforeCommit
  <1>. QED
    BY <1>2, <1>3 DEF Collect

\* The work of a call that is over is in the index now, and no more that is due
\* comes.
LEMMA AddKeeps ==
  ASSUME CursorInv, Add
  PROVE  CursorInv'
  <1>. USE DEF CursorInv
  <1>1. attempt.pc = "adding" /\ UNCHANGED <<backend, stage, iteration, owned, call, active, agent>>
    BY DEF Add
  <1>2. CASE FailAttempt /\ UNCHANGED tree
    BY <1>1, <1>2, FailAttemptKeeps DEF CursorSettled
  <1>3. CASE StageAll /\ attempt' = [attempt EXCEPT !.pc = "scanning"] /\ UNCHANGED row
    <2>1. attempt' \in Attempts /\ attempt'.pc = "scanning" /\ attempt'.call = attempt.call
      BY <1>3, CursorShapes DEF Attempts
    <2>2. /\ HeadSha' = HeadSha /\ Everything' = Everything
          /\ \A n : Committed(n)' = Committed(n)
          /\ \A n, e : InBranch(e, n)' <=> InBranch(e, n)
          /\ tree' \in Trees /\ tree'.commits = tree.commits
      BY <1>3, CursorShapes, ChangesMove
    <2>3. tree'.pending = {}
      BY <1>3, CursorShapes DEF StageAll, Trees
    <2>4. CursorTypeOK'
      BY <1>1, <1>3, <2>1, <2>2, CursorShapes, CursorNextShapes
    <2>5. CallsAreTaken' /\ FramesEnd'
      BY <1>1, <2>1, PostflightGoesOn DEF CursorSettled
    <2>6. WorkIsCommitted'
      BY <1>1, <1>3, <2>1, <2>2, <2>3 DEF WorkIsCommitted, Over
    <2>7. StagedIsClean' /\ ResultHasItsWork' /\ SecretsStayOut'
      BY <1>3, <2>1, <2>2 DEF StagedIsClean, ResultHasItsWork, SecretsStayOut
    <2>. QED
      BY <2>4, <2>5, <2>6, <2>7
  <1>. QED
    BY <1>2, <1>3 DEF Add

\* An index that nobody touched since `git add` has no secret.
LEMMA ScanKeeps ==
  ASSUME CursorInv, Scan
  PROVE  CursorInv'
  <1>1. attempt.pc = "scanning" /\ UNCHANGED <<backend, stage, iteration, owned, call, active, agent>>
    BY DEF Scan
  <1>2. CASE FailAttempt /\ (Unstage \/ UNCHANGED tree)
    BY <1>1, <1>2, FailAttemptKeeps DEF CursorSettled
  <1>3. CASE /\ \A e \in SecretsFound : ~HasSecretName(e) /\ tree.touched
             /\ attempt' = [attempt EXCEPT !.pc = "committing"] /\ UNCHANGED <<row, tree>>
    <2>1. attempt' \in Attempts /\ attempt'.pc = "committing" /\ attempt'.call = attempt.call
      BY <1>3, CursorShapes DEF CursorInv, Attempts
    <2>2. ~tree.touched => \A e \in tree.staged : ~IsSecret(e)
      BY <1>3 DEF SecretsFound
    <2>. QED
      BY <1>1, <1>3, <2>1, <2>2, PostflightReads DEF CursorSettled, BeforeCommit
  <1>. QED
    BY <1>2, <1>3 DEF Scan

\* The commit has the work of the call, and no secret if nobody touched the index.
LEMMA CheckpointKeeps ==
  ASSUME CursorInv, Commit
  PROVE  CursorInv'
  <1>. USE DEF CursorInv
  <1>1. attempt.pc = "committing" /\ UNCHANGED <<backend, stage, iteration, owned, call, active, agent>>
    BY DEF Commit
  <1>2. CASE FailAttempt /\ UNCHANGED tree
    BY <1>1, <1>2, FailAttemptKeeps DEF CursorSettled
  <1>3. CASE /\ CommitStaged(IF tree.touched THEN "both" ELSE "platform")
             /\ attempt' = [attempt EXCEPT !.pc = "committed"] /\ UNCHANGED row
    <2>0. PICK by \in {"both", "platform"} : by = IF tree.touched THEN "both" ELSE "platform"
      OBVIOUS
    <2>1. /\ HeadSha \in Nat /\ HeadSha' = HeadSha + 1 /\ tree' \in Trees /\ Everything' = Everything
          /\ tree'.pending = tree.pending /\ tree'.staged = {}
          /\ \A k \in 1..HeadSha : tree'.commits[k] = tree.commits[k]
          /\ tree'.commits[HeadSha + 1] = [edits |-> tree.staged, by |-> by]
          /\ Committed(HeadSha)' = Committed(HeadSha) \cup tree.staged
      BY <1>3, <2>0, CursorShapes, CursorCommitAdds DEF CommitStaged
    <2>2. attempt' \in Attempts /\ attempt'.pc = "committed" /\ attempt'.call = attempt.call
      BY <1>3, CursorShapes DEF Attempts
    <2>3. CursorTypeOK'
      BY <1>1, <1>3, <2>1, <2>2, CursorShapes, CursorNextShapes
    <2>4. CallsAreTaken' /\ FramesEnd'
      BY <1>1, <2>2, PostflightGoesOn DEF CursorSettled
    <2>5. ASSUME NEW i \in Iterations, row[i].result # Nobody
          PROVE  Over(row[i].result)' /\ row[i].checkpoint <= HeadSha'
      <3>1. row[i].checkpoint <= HeadSha /\ row[i].checkpoint \in Nat /\ Over(row[i].result)
        BY <2>5, CursorShapes DEF WorkIsCommitted, Rows
      <3>. QED
        BY <1>1, <1>3, <2>1, <3>1 DEF Over
    <2>6. \A e \in Everything' : Due(e)' => e \in Committed(HeadSha)'
      <3>1. \A e \in Everything : Due(e) => e \in Committed(HeadSha) \cup tree.staged
        BY <1>1 DEF WorkIsCommitted, Everything, BeforeCommit
      <3>. QED
        BY <2>1, <2>2, <3>1 DEF Due
    <2>7. WorkIsCommitted'
      BY <1>1, <1>3, <2>1, <2>2, <2>5, <2>6 DEF WorkIsCommitted, Over, BeforeCommit
    <2>8. StagedIsClean'
      BY <2>2 DEF StagedIsClean
    <2>9. ResultHasItsWork'
      <3>1. ASSUME NEW i \in Iterations, NEW e \in Everything, e.of = row[i].result, ~e.late
            PROVE  InBranch(e, row[i].checkpoint)'
        <4>1. row[i].result # Nobody
          BY <3>1, CursorBounds
        <4>2. PICK n \in 0..HeadSha : n = row[i].checkpoint
          BY <2>1, <4>1, CursorShapes DEF WorkIsCommitted, Rows
        <4>3. InBranch(e, n)
          BY <3>1, <4>2 DEF ResultHasItsWork
        <4>4. InBranch(e, n)'
          BY <2>1, <4>3, CursorShapes, CommitsStay
        <4>. QED
          BY <1>3, <4>2, <4>4 DEF InBranch, Committed
      <3>. QED
        BY <1>3, <2>1, <3>1 DEF ResultHasItsWork
    <2>10. SecretsStayOut'
      <3>1. by = "platform" => \A e \in tree.staged : ~IsSecret(e)
        BY <1>1, <2>0 DEF StagedIsClean
      <3>2. ASSUME NEW k \in 1..HeadSha', tree'.commits[k].by = "platform"
            PROVE  \A e \in tree'.commits[k].edits : ~IsSecret(e)
        <4>1. CASE k \in 1..HeadSha
          BY <2>1, <3>2, <4>1 DEF SecretsStayOut
        <4>2. CASE k = HeadSha + 1
          BY <2>1, <3>1, <3>2, <4>2
        <4>. QED
          BY <2>1, <4>1, <4>2
      <3>. QED
        BY <3>2 DEF SecretsStayOut
    <2>. QED
      BY <2>3, <2>4, <2>7, <2>8, <2>9, <2>10
  <1>. QED
    BY <1>2, <1>3 DEF Commit

\* The result is saved with the checkpoint that has its work.
LEMMA RecordKeeps ==
  ASSUME CursorInv, Record
  PROVE  CursorInv'
  <1>. USE DEF CursorInv
  <1>1. /\ attempt.pc = "recording"
        /\ UNCHANGED <<backend, stage, iteration, owned, call, active, agent, tree>>
    BY DEF Record
  <1>2. CASE FailAttempt
    BY <1>1, <1>2, FailAttemptKeeps DEF CursorSettled
  <1>3. CASE /\ row' = [row EXCEPT ![iteration] =
                  [@ EXCEPT !.status = "COMPLETED", !.result = attempt.call, !.checkpoint = attempt.checkpoint]]
             /\ attempt' = [attempt EXCEPT !.pc = "recorded"]
    <2>1. /\ attempt.call \in Calls /\ attempt.checkpoint \in Nat /\ iteration \in Iterations
          /\ row \in Rows /\ row[iteration] \in [status: {"NONE", "STARTED", "FAILED", "RECOVERY_REQUIRED",
               "COMPLETED"}, session: BOOLEAN, result: Calls \cup {Nobody}, checkpoint: Nat]
      BY <1>1, CursorShapes DEF CallsAreTaken, Attempts, Rows
    <2>2. /\ row' \in Rows
          /\ row'[iteration].result = attempt.call /\ row'[iteration].checkpoint = attempt.checkpoint
          /\ \A i \in Iterations \ {iteration} : row'[i] = row[i]
      BY <1>3, <2>1 DEF Rows
    <2>3. /\ attempt' \in Attempts /\ attempt'.pc = "recorded" /\ attempt'.call = attempt.call
          /\ attempt'.checkpoint = attempt.checkpoint
      BY <1>3, CursorShapes DEF Attempts
    <2>4. /\ HeadSha' = HeadSha /\ Everything' = Everything
          /\ \A n : Committed(n)' = Committed(n)
          /\ \A n, e : InBranch(e, n)' <=> InBranch(e, n)
      BY <1>1, TreeStays
    <2>5. CursorTypeOK'
      BY <1>1, <2>2, <2>3, CursorShapes, CursorNextShapes
    <2>6. CallsAreTaken' /\ FramesEnd'
      BY <1>1, <2>3, PostflightGoesOn DEF CursorSettled
    <2>7. Over(attempt.call) /\ attempt.checkpoint <= HeadSha
      <3>1. call[attempt.call].run \in {"ok", "stopped"} /\ call[attempt.call] \in Frames
        BY <1>1, <2>1, CursorShapes DEF FramesEnd, CursorSettled
      <3>2. call[attempt.call].exec = "done"
        BY <2>1, <3>1 DEF FramesEnd, Alive, Frames
      <3>3. backend = "ACP" => agent[attempt.call] \in Spent
        BY <2>1, <3>1 DEF FramesEnd
      <3>4. attempt.checkpoint <= HeadSha
        BY <1>1 DEF WorkIsCommitted
      <3>. QED
        BY <3>2, <3>3, <3>4 DEF Over
    <2>8. \A e \in Everything : e.of = attempt.call /\ ~e.late => InBranch(e, attempt.checkpoint)
      BY <1>1 DEF WorkIsCommitted, Due
    <2>9. PICK n : n = attempt.checkpoint
      OBVIOUS
    <2>10. \A e \in Everything' : e.of = attempt.call /\ ~e.late => InBranch(e, n)'
      BY <2>4, <2>8, <2>9
    <2>11. WorkIsCommitted'
      <3>1. \A e \in Everything' : Due(e)' => InBranch(e, attempt.checkpoint)'
        BY <1>1, <2>3, <2>9, <2>10 DEF Due, InBranch, Committed
      <3>2. \A i \in Iterations : row'[i].result # Nobody => Over(row[i].result)' /\ row'[i].checkpoint <= HeadSha'
        BY <1>1, <2>1, <2>2, <2>4, <2>7 DEF WorkIsCommitted, Over
      <3>. QED
        BY <1>1, <2>3, <2>4, <2>7, <3>1, <3>2 DEF WorkIsCommitted, Over, BeforeCommit
    <2>12. ResultHasItsWork'
      <3>1. ASSUME NEW i \in Iterations, NEW e \in Everything', e.of = row'[i].result, ~e.late
            PROVE  InBranch(e, row[i].checkpoint)'
        <4>1. CASE i = iteration
          BY <2>2, <2>9, <2>10, <3>1, <4>1 DEF InBranch, Committed
        <4>2. CASE i # iteration
          <5>1. PICK m : m = row[i].checkpoint
            OBVIOUS
          <5>2. InBranch(e, m)'
            BY <2>2, <2>4, <3>1, <4>2, <5>1 DEF ResultHasItsWork
          <5>. QED
            BY <2>2, <4>2, <5>1, <5>2 DEF InBranch, Committed
        <4>. QED
          BY <4>1, <4>2
      <3>. QED
        BY <3>1 DEF ResultHasItsWork
    <2>13. StagedIsClean' /\ SecretsStayOut'
      BY <1>1, <2>3, <2>4 DEF StagedIsClean, SecretsStayOut
    <2>. QED
      BY <2>5, <2>6, <2>11, <2>12, <2>13
  <1>. QED
    BY <1>2, <1>3 DEF Record

LEMMA CursorStutterKeeps ==
  ASSUME CursorInv, UNCHANGED cursorVars
  PROVE  CursorInv'
  <1>1. UNCHANGED <<backend, stage, iteration, row, attempt, owned, call, active, agent, tree>>
    BY DEF cursorVars
  <1>2. /\ HeadSha' = HeadSha /\ Everything' = Everything
        /\ \A n : Committed(n)' = Committed(n)
        /\ \A n, e : InBranch(e, n)' <=> InBranch(e, n)
    BY <1>1, TreeStays
  <1>3. CursorTypeOK'
    BY <1>1, CursorShapes, CursorNextShapes DEF CursorInv
  <1>4. CallsAreTaken' /\ FramesEnd'
    BY <1>1, <1>2 DEF CursorInv, CallsAreTaken, FramesEnd, Alive
  <1>5. WorkIsCommitted' /\ StagedIsClean' /\ ResultHasItsWork' /\ SecretsStayOut'
    BY <1>1, <1>2 DEF CursorInv, WorkIsCommitted, StagedIsClean, ResultHasItsWork, SecretsStayOut, Over, Due, BeforeCommit
  <1>. QED
    BY <1>3, <1>4, <1>5 DEF CursorInv

LEMMA CursorNextKeeps ==
  ASSUME CursorInv, [CursorNext]_cursorVars
  PROVE  CursorInv'
  <1>1. CASE Steps
    BY <1>1, ClaimKeeps, EnterKeeps, StartKeeps, PreflightFailsKeeps, RunFailsKeeps, RunReturnsKeeps,
       ReadHeadKeeps, CollectKeeps, AddKeeps, ScanKeeps, CheckpointKeeps, RecordKeeps DEF Steps
  <1>2. CASE \E c \in Calls : OpensAcp(c) \/ OpensCloud(c) \/ OpenFails(c)
    BY <1>2, OpensKeeps
  <1>3. CASE \E c \in Calls : \/ Answered(c) \/ CancelAnswered(c) \/ Tick(c)
                              \/ PollLost(c) \/ PollEnds(c) \/ RemoteEnds(c)
    BY <1>3, AnsweredKeeps, CancelAnsweredKeeps, TickKeeps, PollLostKeeps, PollEndsKeeps, RemoteEndsKeeps
  <1>4. CASE \E c \in Calls : \/ AgentEdits(c) \/ AgentDrops(c) \/ AgentAdds(c) \/ AgentCommits(c) \/ AgentDies(c)
    BY <1>4, AgentEditsKeeps, AgentDropsKeeps, AgentAddsKeeps, AgentCommitsKeeps, AgentDiesKeeps
  <1>. QED
    BY <1>1, <1>2, <1>3, <1>4, VerifiedKeeps, TimeoutKeeps, LeaseLostKeeps, CrashKeeps, CursorStutterKeeps DEF CursorNext

LEMMA CursorInitHolds == CursorInit => CursorInv
  <1>. SUFFICES ASSUME CursorInit
                PROVE  CursorInv
    OBVIOUS
  <1>0. MaxCalls \in Nat \ {0} /\ MaxIterations \in Nat \ {0}
    BY CursorAssumption
  <1>1. /\ NoRow \in [status: {"NONE", "STARTED", "FAILED", "RECOVERY_REQUIRED", "COMPLETED"},
                      session: BOOLEAN, result: Calls \cup {Nobody}, checkpoint: Nat]
        /\ NoRow.result = Nobody
    BY DEF NoRow
  <1>2. NoAttempt \in Attempts /\ NoAttempt.pc = "idle"
    BY DEF NoAttempt, Attempts
  <1>3. NoCall \in Frames /\ NoCall.exec = "none" /\ NoCall.run = "none" /\ NoCall.watch = FALSE
    BY DEF NoCall, Frames
  <1>4. /\ backend \in Backends /\ stage = "CURSOR_EXECUTING" /\ iteration = 1
        /\ row = [i \in Iterations |-> NoRow] /\ attempt = NoAttempt /\ owned = TRUE
        /\ call = [c \in Calls |-> NoCall] /\ active = Nobody
        /\ agent = [c \in Calls |-> "none"]
        /\ tree = [pending |-> {}, staged |-> {}, touched |-> FALSE, commits |-> <<>>]
    BY DEF CursorInit
  <1>5. row \in Rows /\ call \in [Calls -> Frames] /\ agent \in Agents /\ tree \in Trees
    BY <1>1, <1>3, <1>4 DEF Rows, Agents, Trees
  <1>6. CursorTypeOK
    BY <1>0, <1>2, <1>4, <1>5, CursorShapes DEF Iterations
  <1>7. HeadSha = 0 /\ Everything = {}
    BY <1>4 DEF HeadSha, Everything, Committed
  <1>8. CallsAreTaken
    BY <1>0, <1>2, <1>4, <1>7 DEF CallsAreTaken
  <1>9. FramesEnd
    BY <1>2, <1>3, <1>4 DEF FramesEnd, Alive, CursorSettled
  <1>10. WorkIsCommitted /\ StagedIsClean /\ ResultHasItsWork
    BY <1>1, <1>2, <1>4, <1>7 DEF WorkIsCommitted, StagedIsClean, ResultHasItsWork, BeforeCommit
  <1>11. SecretsStayOut
    BY <1>7 DEF SecretsStayOut, Committed
  <1>. QED
    BY <1>6, <1>8, <1>9, <1>10, <1>11 DEF CursorInv
-----------------------------------------------------------------------------
(* Theorems *)

\* Every reachable state satisfies the inductive invariant.
THEOREM CursorInvariant == CursorSpec => []CursorInv
  <1>1. CursorInit => CursorInv
    BY CursorInitHolds
  <1>2. CursorInv /\ [CursorNext]_cursorVars => CursorInv'
    BY CursorNextKeeps
  <1>. QED
    BY <1>1, <1>2, PTL DEF CursorSpec

\* Rows, attempt, calls, agents and the worktree have their shapes.
THEOREM CursorTypeCorrect == CursorSpec => []CursorTypeOK
  <1>1. CursorInv => CursorTypeOK
    BY DEF CursorInv
  <1>. QED
    BY <1>1, CursorInvariant, PTL

\* No commit of the platform has a secret, in a name or in contents, for all
\* agents that go on editing, adding and committing beside it: what `git add` has
\* staged is searched and committed as it is, unless an agent touches the index
\* in between, or a file before it is read.
THEOREM NoSecretCommitted == CursorSpec => []SecretsStayOut
  <1>1. CursorInv => SecretsStayOut
    BY DEF CursorInv
  <1>. QED
    BY <1>1, CursorInvariant, PTL

\* The checkpoint of a local result, with what agents committed themselves in that
\* moment or later, has all that its agent had done when it was told to stop,
\* although that agent and others may still be at work.
THEOREM WholeResult == CursorSpec => []ResultHasItsWork
  <1>1. CursorInv => ResultHasItsWork
    BY DEF CursorInv
  <1>. QED
    BY <1>1, CursorInvariant, PTL

\* One step of the platform keeps what the agents have done.
LEMMA StepKeepsEdits ==
  ASSUME CursorInv, [CursorNext]_cursorVars
  PROVE  Everything \subseteq Everything' \/ \E c \in Calls : AgentDrops(c)
  <1>1. tree \in Trees
    BY CursorShapes DEF CursorInv
  <1>2. CASE tree' = tree
    BY <1>2, TreeStays
  <1>3. CASE Add \/ Scan \/ Commit
    <2>1. PICK by \in {"both", "platform"} : by = IF tree.touched THEN "both" ELSE "platform"
      OBVIOUS
    <2>2. CASE CommitStaged(by)
      BY <1>1, <2>2, CursorCommitAdds DEF CommitStaged
    <2>3. tree' = tree \/ StageAll \/ Unstage \/ CommitStaged(by)
      BY <1>3, <2>1 DEF Add, Scan, Commit
    <2>. QED
      BY <1>1, <1>2, <2>2, <2>3, ChangesMove
  <1>4. CASE \E c \in Calls : AgentEdits(c) \/ AgentDrops(c) \/ AgentAdds(c) \/ AgentCommits(c)
    BY <1>4, AgentEditsKeeps, AgentAddsKeeps, AgentCommitsKeeps
  <1>5. CASE \/ Claim \/ Enter \/ Start \/ PreflightFails \/ RunFails \/ RunReturns \/ ReadHead \/ Collect
             \/ Record \/ Verified \/ Timeout \/ LeaseLost \/ Crash \/ UNCHANGED cursorVars
    <2>1. tree' = tree
      BY <1>5 DEF Claim, Enter, Start, PreflightFails, RunFails, RunReturns, ReadHead, Collect, Record, Verified,
         Timeout, LeaseLost, Crash, cursorVars
    <2>. QED
      BY <1>2, <2>1
  <1>6. CASE \E c \in Calls : \/ OpensAcp(c) \/ OpensCloud(c) \/ OpenFails(c) \/ Answered(c) \/ CancelAnswered(c)
                              \/ Tick(c) \/ PollLost(c) \/ PollEnds(c) \/ RemoteEnds(c) \/ AgentDies(c)
    <2>1. tree' = tree
      BY <1>6 DEF OpensAcp, OpensCloud, OpenFails, Answered, CancelAnswered, Tick, PollLost, PollEnds, RemoteEnds,
         AgentDies
    <2>. QED
      BY <1>2, <2>1
  <1>. QED
    BY <1>3, <1>4, <1>5, <1>6 DEF CursorNext, Steps

\* "Never `reset --hard` / `clean` unknown work": whatever fails, is blocked, is
\* given up on or dies, every change of an agent that no agent undoes itself stays
\* in the worktree, in the index or in a commit of the branch.
THEOREM NoEditLost == CursorSpec => EditsAreKept
  <1>1. CursorInv /\ [CursorNext]_cursorVars =>
          [Everything \subseteq Everything' \/ \E c \in Calls : AgentDrops(c)]_cursorVars
    BY StepKeepsEdits
  <1>. QED
    BY <1>1, CursorInvariant, PTL DEF CursorSpec, EditsAreKept

\* A frame that lives in the job's own time is that of the attempt.
LEMMA LostMeansDisowned ==
  ASSUME CursorInv, NEW c \in Calls, Alive(c), ~GaveUp, ~Owns(call[c].job)
  PROVE  ~owned
  <1>1. call[c].run = "open"
    BY DEF CursorInv, FramesEnd, GaveUp
  <1>2. attempt.pc = "waiting" /\ call[c].job = iteration
    BY <1>1 DEF CursorInv, FramesEnd
  <1>. QED
    BY <1>2 DEF Owns

\* One step cancels no call but that of a lost job, or after one was given up on.
LEMMA StepCancelsLost ==
  ASSUME CursorInv, [CursorNext]_cursorVars, NEW c \in Calls, ~call[c].cancelled, call'[c].cancelled
  PROVE  ~owned \/ GaveUp'
  <1>. USE DEF CursorInv
  <1>1. /\ call \in [Calls -> Frames] /\ active \in Calls \cup {Nobody}
    BY CursorShapes
  <1>2. NoCall \in Frames /\ NoCall.cancelled = FALSE
    BY DEF NoCall, Frames
  <1>3. \A d \in Calls : \A o \in {"ok", "stopped", "over"} : Gone(d, o).cancelled = FALSE
    BY <1>1, GoneIs
  <1>4. CASE \E d \in Calls : Tick(d)
    <2>1. PICK d \in Calls : Tick(d)
      BY <1>4
    <2>2. Alive(d) /\ ~Owns(call[d].job)
      BY <2>1 DEF Tick, FramesEnd
    <2>3. CASE GaveUp
      <3>1. PICK g \in Calls : call[g].run = "abandoned"
        BY <2>3 DEF GaveUp
      <3>2. call' = [call EXCEPT ![active].cancelled = TRUE, ![active].cancelling = call[active].session]
        BY <2>1 DEF Tick, CancelActive
      <3>3. call'[g].run = "abandoned"
        BY <1>1, <3>1, <3>2 DEF Frames
      <3>. QED
        BY <3>3 DEF GaveUp
    <2>. QED
      BY <2>2, <2>3, LostMeansDisowned
  <1>5. CASE \E d \in Calls : PollLost(d)
    <2>1. PICK d \in Calls : PollLost(d)
      BY <1>5
    <2>2. CASE GaveUp
      <3>1. PICK g \in Calls : call[g].run = "abandoned"
        BY <2>2 DEF GaveUp
      <3>2. Gone(d, "over").run = IF call[d].run = "open" THEN "over" ELSE call[d].run
        BY <1>1, GoneIs
      <3>3. Gone(d, "over") \in Frames
        BY <1>1, GoneIs
      <3>4. call'[g] = IF g = d THEN [Gone(d, "over") EXCEPT !.cancelled = @ \/ (g = active /\ call[g].session)]
                       ELSE [call[g] EXCEPT !.cancelled = @ \/ (g = active /\ call[g].session)]
        BY <2>1 DEF PollLost
      <3>5. call'[g].run = "abandoned"
        BY <1>1, <3>1, <3>2, <3>3, <3>4 DEF Frames
      <3>. QED
        BY <3>5 DEF GaveUp
    <2>3. CASE ~GaveUp
      <3>1. active # Nobody /\ ~Owns(call[active].job)
        BY <2>1, <2>3 DEF PollLost, PollIsLate, SlotDisowned, GaveUp
      <3>2. active \in Calls /\ Alive(active)
        BY <1>1, <3>1 DEF FramesEnd
      <3>. QED
        BY <2>3, <3>1, <3>2, LostMeansDisowned
    <2>. QED
      BY <2>2, <2>3
  <1>6. CASE Timeout
    <2>1. attempt.call \in Calls
      BY <1>6 DEF Timeout, Waited, CallsAreTaken
    <2>2. call'[attempt.call].run = "abandoned"
      <3>1. CASE call' = [call EXCEPT ![attempt.call].run = "abandoned"]
        BY <1>1, <2>1, <3>1 DEF Frames
      <3>2. CASE call' = [d \in Calls |->
               [call[d] EXCEPT !.run = IF d = attempt.call THEN "abandoned" ELSE @,
                               !.cancelled = @ \/ d = active,
                               !.cancelling = @ \/ (d = active /\ call[d].session)]]
        <4>1. call[attempt.call] \in Frames
          BY <1>1, <2>1
        <4>2. PICK cancelled \in BOOLEAN, cancelling \in BOOLEAN :
                call'[attempt.call] = [call[attempt.call] EXCEPT
                  !.run = "abandoned", !.cancelled = cancelled, !.cancelling = cancelling]
          BY <2>1, <3>2, <4>1 DEF Frames
        <4>. QED
          BY <4>1, <4>2 DEF Frames
      <3>. QED
        BY <1>6, <3>1, <3>2 DEF Timeout
    <2>. QED
      BY <2>1, <2>2 DEF GaveUp
  <1>7. CASE Start \/ PreflightFails
    <2>1. attempt.call \in Calls
      BY <1>7 DEF Start, PreflightFails, CallsAreTaken
    <2>2. PICK r \in Frames : r = NoCall /\ r.cancelled = FALSE
      BY <1>2
    <2>3. CASE Start
      <3>1. PICK exec \in {"opening", "prompted"}, target \in {attempt.call, attempt.run}, watch \in BOOLEAN,
                 session \in {row[iteration].session} :
              call' = [call EXCEPT ![attempt.call] = [r EXCEPT
                !.exec = exec, !.run = "open", !.job = iteration, !.watch = watch,
                !.target = target, !.session = session]]
        BY <2>2, <2>3 DEF Start
      <3>. QED
        BY <1>1, <2>1, <2>2, <3>1 DEF Frames
    <2>4. CASE PreflightFails
      <3>1. call' = [call EXCEPT ![attempt.call] = [r EXCEPT !.exec = "done", !.run = "over"]]
        BY <2>2, <2>4 DEF PreflightFails
      <3>. QED
        BY <1>1, <2>1, <2>2, <3>1 DEF Frames
    <2>. QED
      BY <1>7, <2>3, <2>4
  <1>8. CASE Crash
    <2>1. PICK r \in Frames : r = NoCall /\ r.cancelled = FALSE
      BY <1>2
    <2>2. call'[c] = IF Alive(c) \/ c = attempt.call
            THEN [r EXCEPT !.exec = "done", !.run = IF call[c].run = "abandoned" THEN "abandoned" ELSE "over"]
            ELSE call[c]
      BY <1>8, <2>1 DEF Crash
    <2>. QED
      BY <1>1, <2>1, <2>2 DEF Frames
  <1>9. CASE \E d \in Calls : OpensAcp(d) \/ OpensCloud(d) \/ OpenFails(d) \/ Answered(d) \/ PollEnds(d)
                                \/ CancelAnswered(d) \/ AgentDies(d) \/ RemoteEnds(d)
    <2>1. PICK d \in Calls : OpensAcp(d) \/ OpensCloud(d) \/ OpenFails(d) \/ Answered(d) \/ PollEnds(d)
                                \/ CancelAnswered(d) \/ AgentDies(d) \/ RemoteEnds(d)
      BY <1>9
    <2>2. CASE Opened(d)
      BY <1>1, <2>2 DEF Opened, Frames
    <2>3. CASE \E o \in {"ok", "stopped", "over"} : call' = [call EXCEPT ![d] = Gone(d, o)]
      BY <1>1, <1>3, <2>3
    <2>4. CASE CancelAnswered(d)
      BY <1>1, <2>4 DEF CancelAnswered, Frames
    <2>5. CASE AgentDies(d) \/ RemoteEnds(d)
      BY <2>5 DEF AgentDies, RemoteEnds
    <2>. QED
      BY <2>1, <2>2, <2>3, <2>4, <2>5 DEF OpensAcp, OpensCloud, OpenFails, Answered, PollEnds, EndFrame, LosesRun
  <1>10. CASE \/ Claim \/ Enter \/ RunFails \/ RunReturns \/ ReadHead \/ Collect \/ Add \/ Scan \/ Commit
              \/ Record \/ Verified \/ LeaseLost \/ UNCHANGED cursorVars
    <2>1. call' = call
      BY <1>10 DEF Claim, Enter, RunFails, RunReturns, ReadHead, Collect, Add, Scan, Commit, Record, Verified,
         LeaseLost, cursorVars
    <2>. QED
      BY <2>1
  <1>11. CASE \E d \in Calls : AgentEdits(d) \/ AgentDrops(d) \/ AgentAdds(d) \/ AgentCommits(d)
    <2>1. call' = call
      BY <1>11 DEF AgentEdits, AgentDrops, AgentAdds, AgentCommits, OnlyTree
    <2>. QED
      BY <2>1
  <1>. QED
    BY <1>4, <1>5, <1>6, <1>7, <1>8, <1>9, <1>10, <1>11 DEF CursorNext, Steps

\* As long as no call was given up on, the interval and the polling loop cancel a
\* call for JOB_LEASE_LOST only: the one slot of the client then has the call of
\* the attempt, whose job is the one they ask about.
THEOREM NoSoundRunCancelled == CursorSpec => OnlyLostRunsAreCancelled
  <1>1. CursorInv /\ [CursorNext]_cursorVars =>
          [\A c \in Calls : ~call[c].cancelled /\ call'[c].cancelled => ~owned \/ GaveUp']_cursorVars
    BY StepCancelsLost
  <1>. QED
    BY <1>1, CursorInvariant, PTL DEF CursorSpec, OnlyLostRunsAreCancelled
=============================================================================
