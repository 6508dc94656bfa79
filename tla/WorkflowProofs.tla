--------------------------- MODULE WorkflowProofs ---------------------------
(***************************************************************************)
(* Proofs about Workflow, in two layers.                                   *)
(*                                                                         *)
(* IInv holds whatever the owner and the environment do.  It orders the    *)
(* runs, the commits and the records of a project in time, and says which  *)
(* states and calls presuppose a finished run.  From it follow the types,  *)
(* that an offer rests on the evidence of its own commit, that no          *)
(* iteration is worked on twice, that no history is lost and no work       *)
(* stranded.                                                               *)
(*                                                                         *)
(* StraightInv says that a project without an error is where its stages    *)
(* have led it.  A retry resumes it elsewhere and keeps its job, which     *)
(* breaks this and what follows from it; so that layer is about owners who *)
(* never retry.  From it follow that an offer was verified, accepted and   *)
(* judged and can be decided on, that the council judges what was          *)
(* verified, and that Workflow keeps the promise of Autonomy in every      *)
(* step.                                                                   *)
(***************************************************************************)
EXTENDS Workflow, TLAPS, WellFoundedInduction

-----------------------------------------------------------------------------
(* The inductive invariant *)

\* A run is of an iteration that was begun, later runs are of later ones, and
\* a run that is done, and only such a one, has a commit.
RunsInOrder ==
  /\ \A k \in DOMAIN doc.runs : /\ doc.runs[k].iteration \in 1..doc.iteration
                                /\ doc.runs[k].done <=> doc.runs[k].sha # None
  /\ \A k, l \in DOMAIN doc.runs : k < l => doc.runs[k].iteration < doc.runs[l].iteration

\* Nothing is committed but by the last run: once it is done its commit is the head.
HeadIsLast == HasRun(doc) /\ LastRun(doc).done => LastRun(doc).sha = tree.head

\* Records are made of the head, which only grows.
RecordsInOrder ==
  /\ \A k \in DOMAIN doc.verified : doc.verified[k].sha <= tree.head
  /\ \A k, l \in DOMAIN doc.verified : k < l => doc.verified[k].sha <= doc.verified[l].sha

Judging == {"PLATFORM_VERIFICATION", "RUNTIME_VERIFICATION", "VISUAL_VERIFICATION",
            "COUNCIL_REVIEW", "FINAL_VERIFICATION", "DELIVERY_PREPARATION"}

\* The states in which there is a result to look at, or a foundation to work on.
StateIsEarned ==
  /\ doc.state \in Judging \cup OwnerTerminal => HasRun(doc) /\ LastRun(doc).done
  /\ doc.state = "CURSOR_EXECUTING" => ~NeedsProvisioning(doc)

\* A long call is made in the state of its handler, by a job that has it.
CallIsOfState ==
  /\ pc # "idle" => job # None
  /\ pc = "discovering" => doc.state = "COUNCIL_DISCOVERY" /\ job = "COUNCIL_DISCOVERY"
  /\ pc = "provisioning" => doc.state = "PROJECT_PROVISIONING"
  /\ pc \in {"cursor", "postflight", "committed"} =>
       /\ doc.state = "CURSOR_EXECUTING"
       /\ HasRun(doc) /\ ~LastRun(doc).done /\ LastRun(doc).iteration = doc.iteration
  /\ pc = "verifying" => doc.state = "PLATFORM_VERIFICATION"
  /\ pc = "launching" => doc.state = "RUNTIME_VERIFICATION"
  /\ pc = "looking" => doc.state = "VISUAL_VERIFICATION"
  /\ pc = "reviewing" => job = "COUNCIL_REVIEW" /\ doc.state \in WorksIn["COUNCIL_REVIEW"] /\ HasRun(doc)
  /\ pc = "judging" => job = "FINAL_VERIFICATION" /\ doc.state \in WorksIn["FINAL_VERIFICATION"] \ {"DELIVERY_PREPARATION"}

\* A delivery that was approved stays.
DeliveryIsKept ==
  /\ doc.delivery.status = "APPROVED" => doc.state \in {"OWNER_APPROVED", "DONE"}
  /\ doc.delivery.status = None => doc.delivery.key = None /\ ~doc.delivery.decided

\* A command that is under way finds what it has left, or a job that has taken over.
CommandGoesOn ==
  /\ call = "close" => doc.state = "OWNER_APPROVED"
  /\ call = "interpret" /\ job = None /\ doc.state \in Working => doc.state = "OWNER_CHANGES_REQUESTED"

IInv ==
  /\ TypeOK /\ RunsInOrder /\ HeadIsLast /\ RecordsInOrder /\ StateIsEarned
  /\ CallIsOfState /\ DeliveryIsKept /\ CommandGoesOn /\ ReadyIsFresh

-----------------------------------------------------------------------------
(* Tables *)

LEMMA StatesAre ==
  States = {"IDEA_SUBMITTED", "COUNCIL_DISCOVERY", "SPECIFICATION_READY", "PROJECT_PROVISIONING",
            "CURSOR_EXECUTING", "PLATFORM_VERIFICATION", "RUNTIME_VERIFICATION", "VISUAL_VERIFICATION",
            "COUNCIL_REVIEW", "FINAL_VERIFICATION", "DELIVERY_PREPARATION", "READY_FOR_OWNER_REVIEW",
            "OWNER_CHANGES_REQUESTED", "OWNER_APPROVED", "DONE", "FAILED"}
  BY DEF States, Targets

LEMMA WorkingAre ==
  Working = {"IDEA_SUBMITTED", "COUNCIL_DISCOVERY", "SPECIFICATION_READY", "PROJECT_PROVISIONING",
             "CURSOR_EXECUTING", "PLATFORM_VERIFICATION", "RUNTIME_VERIFICATION", "VISUAL_VERIFICATION",
             "COUNCIL_REVIEW", "FINAL_VERIFICATION", "DELIVERY_PREPARATION", "OWNER_CHANGES_REQUESTED"}
  BY StatesAre DEF Working, OwnerTerminal

LEMMA LegalIs ==
  ASSUME NEW s \in States
  PROVE  /\ Legal(s, "COUNCIL_DISCOVERY") <=> s \in {"IDEA_SUBMITTED", "OWNER_CHANGES_REQUESTED", "FAILED"}
         /\ Legal(s, "CURSOR_EXECUTING") <=> s \in {"SPECIFICATION_READY", "PROJECT_PROVISIONING",
                                                    "COUNCIL_REVIEW", "FINAL_VERIFICATION", "FAILED"}
         /\ Legal(s, "FINAL_VERIFICATION") <=> s \in {"COUNCIL_REVIEW", "FAILED"}
         /\ Legal(s, "DELIVERY_PREPARATION") <=> s \in {"FINAL_VERIFICATION", "FAILED"}
         /\ Legal(s, "DONE") <=> s = "OWNER_APPROVED"
  BY StatesAre DEF Legal, Targets

LEMMA JobTypesAre ==
  JobTypes = {"COUNCIL_DISCOVERY", "CURSOR_EXECUTION", "PROJECT_PROVISIONING", "PLATFORM_VERIFICATION",
              "RUNTIME_VERIFICATION", "VISUAL_VERIFICATION", "COUNCIL_REVIEW", "FINAL_VERIFICATION",
              "DELIVERY_PREPARATION"}
  BY DEF JobTypes, JobOf

\* A worker works on a job of the state it finds.
LEMMA StepsAre ==
  ASSUME NEW type \in JobTypes, NEW d, d.state \in States
  PROVE  /\ StepOf(type, d) # "return" => d.state \in Working /\ d.state \in WorksIn[type]
         /\ StepOf(type, d) \in States => d.state = StepOf(type, d) /\ type \notin {"COUNCIL_REVIEW"}
         /\ StepOf(type, d) = "review" <=> type = "COUNCIL_REVIEW" /\ d.state \in WorksIn[type]
         /\ StepOf(type, d) = "final" <=>
              type = "FINAL_VERIFICATION" /\ d.state \in WorksIn[type] \ {"DELIVERY_PREPARATION"}
         /\ StepOf(type, d) = "provision" => d.state \in {"SPECIFICATION_READY", "PROJECT_PROVISIONING"}
         /\ StepOf(type, d) = "SPECIFICATION_READY" => ~NeedsProvisioning(d) /\ type = "CURSOR_EXECUTION"
         /\ StepOf(type, d) = "COUNCIL_DISCOVERY" => type = "COUNCIL_DISCOVERY"
         /\ StepOf(type, d) \in (States \ {"DELIVERY_PREPARATION"}) \cup {"provision"} =>
              type \notin {"COUNCIL_REVIEW", "FINAL_VERIFICATION"}
  BY StatesAre, WorkingAre, JobTypesAre DEF StepOf, WorksIn, Verifying

-----------------------------------------------------------------------------
(* Documents *)

\* Two documents that differ at most in their stage and their prompt.
Alike(d, e) ==
  /\ e.isNew = d.isNew /\ e.provisioned = d.provisioned /\ e.error = d.error
  /\ e.iteration = d.iteration /\ e.runs = d.runs
  /\ e.verified = d.verified /\ e.launched = d.launched /\ e.seen = d.seen
  /\ e.review = d.review /\ e.final = d.final /\ e.delivery = d.delivery

LEMMA StoredIs ==
  ASSUME NEW d \in Document
  PROVE  /\ Stored(d) \in Document
         /\ Alike(d, Stored(d))
         /\ Stored(d).state = d.state /\ Stored(d).spec = d.spec /\ Stored(d).failedIn = d.failedIn
  BY DEF Document, Stored, Alike

LEMMA MovedIs ==
  ASSUME NEW d \in Document, NEW to \in States
  PROVE  /\ [d EXCEPT !.state = to] \in Document
         /\ Alike(d, [d EXCEPT !.state = to])
         /\ [d EXCEPT !.state = to].state = to
         /\ [d EXCEPT !.state = to].spec = d.spec
  BY DEF Document, Alike

LEMMA AlikeIsTransitive ==
  ASSUME NEW c, NEW d, NEW e, Alike(c, d), Alike(d, e)
  PROVE  Alike(c, e)
  BY DEF Alike

LEMMA SavedIs ==
  ASSUME NEW d \in Document, NEW to \in States, Saves([d EXCEPT !.state = to])
  PROVE  doc' \in Document /\ Alike(d, doc') /\ doc'.state = to /\ doc'.spec = d.spec
<1>1. PICK e : e = [d EXCEPT !.state = to]
  OBVIOUS
<1>2. e \in Document /\ Alike(d, e) /\ e.state = to /\ e.spec = d.spec
  BY <1>1, MovedIs
<1>3. doc' = Stored(e)
  BY <1>1 DEF Saves
<1> QED BY <1>2, <1>3, StoredIs, AlikeIsTransitive

LEMMA ElementsAre ==
  ASSUME NEW R, NEW s \in Seq(R)
  PROVE  Len(s) \in Nat /\ DOMAIN s = 1..Len(s) /\ \A k \in DOMAIN s : s[k] \in R
  OBVIOUS

Run == [iteration: Nat, done: BOOLEAN, sha: Nat \cup {None}, favourable: BOOLEAN]

LEMMA RunsAre ==
  ASSUME NEW d \in Document
  PROVE  /\ d.runs \in Seq(Run) /\ Len(d.runs) \in Nat /\ DOMAIN d.runs = 1..Len(d.runs)
         /\ \A k \in DOMAIN d.runs : d.runs[k] \in Run
         /\ HasRun(d) <=> Len(d.runs) > 0
         /\ HasRun(d) => Len(d.runs) \in DOMAIN d.runs /\ LastRun(d) \in Run
<1>1. d.runs \in Seq(Run)
  BY DEF Document, Run
<1>2. PICK s \in Seq(Run) : s = d.runs
  BY <1>1
<1>3. /\ Len(s) \in Nat /\ DOMAIN s = 1..Len(s) /\ (\A k \in DOMAIN s : s[k] \in Run)
      /\ s # <<>> <=> Len(s) > 0
  OBVIOUS
<1> QED BY <1>2, <1>3 DEF HasRun, LastRun

\* A set of numbers that is bounded has a largest one.
LEMMA LargestExists ==
  ASSUME NEW n \in Nat, NEW S, S \subseteq 1..n, S # {}
  PROVE  \E k \in S : \A l \in S : l <= k
<1> DEFINE R == OpToRel(<, Nat)
           T == {n - k : k \in S}
<1>1. IsWellFoundedOn(R, Nat)
  BY NatLessThanWellFounded
<1>2. T \subseteq Nat /\ T # {}
  <2>1. ASSUME NEW k \in S PROVE n - k \in Nat
    OBVIOUS
  <2> QED BY <2>1
<1>3. \E x \in T : \A y \in T : <<y, x>> \notin R
  <2> HIDE DEF R, T
  <2> QED BY <1>1, <1>2, WFMin
<1>4. PICK x \in T : \A y \in T : <<y, x>> \notin R
  BY <1>3
<1>5. \A y \in T : ~(y < x)
  BY <1>4, <1>2 DEF OpToRel
<1>6. PICK k \in S : x = n - k
  OBVIOUS
<1>7. ASSUME NEW l \in S PROVE l <= k
  <2>1. n - l \in T
    OBVIOUS
  <2>2. ~(n - l < n - k)
    BY <2>1, <1>5, <1>6
  <2> HIDE DEF T
  <2> QED BY <2>2
<1> QED BY <1>7

\* The latest record of an iteration exists where there are records.
LEMMA LatestIs ==
  ASSUME NEW R, NEW records \in Seq(R), NEW i
  PROVE  /\ Latest(records, i) \in 0..Len(records)
         /\ Latest(records, i) = 0 <=> records = <<>>
         /\ \A l \in DOMAIN records : records[l].iteration = i =>
              /\ l <= Latest(records, i) /\ records[Latest(records, i)].iteration = i
         /\ (\A l \in DOMAIN records : records[l].iteration # i) => Latest(records, i) = Len(records)
<1> DEFINE own == {k \in DOMAIN records : records[k].iteration = i}
<1>0. DOMAIN records = 1..Len(records) /\ Len(records) \in Nat /\ (records = <<>> <=> Len(records) = 0)
  OBVIOUS
<1>1. CASE own = {}
  <2>1. Latest(records, i) = Len(records)
    BY <1>1 DEF Latest
  <2> QED BY <2>1, <1>0, <1>1
<1>2. CASE own # {}
  <2>1. \E k \in own : \A l \in own : l <= k
    <3>1. own \subseteq 1..Len(records)
      BY <1>0
    <3> HIDE DEF own
    <3> QED BY <3>1, <1>0, <1>2, LargestExists
  <2>2. Latest(records, i) = CHOOSE k \in own : \A l \in own : l <= k
    BY <1>2 DEF Latest
  <2>3. Latest(records, i) \in own /\ \A l \in own : l <= Latest(records, i)
    <3> HIDE DEF own
    <3> QED BY <2>1, <2>2
  <2> QED BY <2>3, <1>0
<1> QED BY <1>1, <1>2

LEMMA GrowsAlways ==
  ASSUME NEW R, NEW s \in Seq(R)
  PROVE  Grows(s, s) /\ \A x \in R : Append(s, x) \in Seq(R) /\ Grows(s, Append(s, x))
<1>1. Grows(s, s)
  BY DEF Grows
<1>2. ASSUME NEW x \in R PROVE Append(s, x) \in Seq(R) /\ Grows(s, Append(s, x))
  <2>1. Append(s, x) \in Seq(R) /\ Len(Append(s, x)) = Len(s) + 1 /\ Len(s) \in Nat
    OBVIOUS
  <2>2. SubSeq(Append(s, x), 1, Len(s)) = s
    OBVIOUS
  <2> QED BY <2>1, <2>2 DEF Grows
<1> QED BY <1>1, <1>2

-----------------------------------------------------------------------------
(* What a step has to keep *)

Keeps == IInv' /\ HistoryGoesOn /\ NothingStrands

\* What the invariant and the history say of the evidence.
EvidenceKept == RunsInOrder' /\ HeadIsLast' /\ RecordsInOrder' /\ HistoryGoesOn

LEMMA AlikeKeepsEvidence ==
  ASSUME IInv, doc' \in Document, Alike(doc, doc'), UNCHANGED tree
  PROVE  EvidenceKept
<1>1. RunsInOrder' /\ HeadIsLast' /\ RecordsInOrder'
  BY DEF IInv, RunsInOrder, HeadIsLast, RecordsInOrder, Alike, HasRun, LastRun
<1>2. Grows(doc.verified, doc'.verified) /\ Grows(doc.launched, doc'.launched) /\ Grows(doc.seen, doc'.seen)
  BY GrowsAlways DEF IInv, TypeOK, Document, Alike
<1>3. doc.iteration \in Nat /\ doc.delivery.version \in Nat
  BY DEF IInv, TypeOK, Document
<1> QED BY <1>1, <1>2, <1>3 DEF HistoryGoesOn, EvidenceKept, Alike

\* A worker that saves leaves the rest of the system alone.
LEMMA SavingKeeps ==
  ASSUME IInv, pc # "idle", pc' \in {"start", "cursor"}, UNCHANGED <<tree, queueVars, envVars>>,
         pc' = "cursor" => /\ doc'.state = "CURSOR_EXECUTING" /\ HasRun(doc')
                           /\ ~LastRun(doc').done /\ LastRun(doc').iteration = doc'.iteration,
         doc' \in Document, doc'.iteration \in 0..MaxIterations,
         doc.state \in Working, doc'.state \in Working, doc'.delivery = doc.delivery,
         EvidenceKept, StateIsEarned'
  PROVE  Keeps
<1>1. TypeOK'
  BY DEF IInv, TypeOK, Pcs, queueVars, envVars
<1>2. job # None /\ job' = job
  BY DEF IInv, CallIsOfState, queueVars
<1>3. CallIsOfState'
  BY <1>2 DEF CallIsOfState
<1>4. DeliveryIsKept' /\ CommandGoesOn' /\ ReadyIsFresh'
  BY <1>2, WorkingAre DEF IInv, DeliveryIsKept, CommandGoesOn, ReadyIsFresh, OwnerTerminal, envVars
<1>5. NothingStrands
  BY <1>2 DEF NothingStrands, Stranded
<1> QED BY <1>1, <1>3, <1>4, <1>5 DEF Keeps, IInv, EvidenceKept

\* A move of the project to another stage.
LEMMA MovingKeeps ==
  ASSUME IInv, pc # "idle", doc.state \in Working, NEW to \in Working,
         NEW d \in Document, Alike(doc, d), Saves([d EXCEPT !.state = to]),
         to \in Judging => HasRun(doc) /\ LastRun(doc).done,
         to = "CURSOR_EXECUTING" => ~NeedsProvisioning(doc)
  PROVE  Keeps /\ doc' \in Document /\ Alike(doc, doc') /\ doc'.state = to
<1>1. doc' \in Document /\ Alike(d, doc') /\ doc'.state = to
  BY SavedIs DEF Working
<1>2. Alike(doc, doc')
  BY <1>1, AlikeIsTransitive
<1>3. pc' = "start" /\ UNCHANGED <<tree, queueVars, envVars>>
  BY DEF Saves
<1>4. EvidenceKept
  BY <1>1, <1>2, <1>3, AlikeKeepsEvidence
<1>5. StateIsEarned'
  BY <1>1, <1>2, WorkingAre DEF StateIsEarned, Alike, HasRun, LastRun, NeedsProvisioning, OwnerTerminal
<1>6. doc'.iteration \in 0..MaxIterations /\ doc'.delivery = doc.delivery
  BY <1>2 DEF Alike, IInv, TypeOK
<1> QED BY <1>1, <1>2, <1>3, <1>4, <1>5, <1>6, SavingKeeps

\* A step that leaves the document alone.
LEMMA QuietKeeps ==
  ASSUME IInv, UNCHANGED doc, tree'.head = tree.head, TypeOK', CallIsOfState', CommandGoesOn', NothingStrands
  PROVE  Keeps
<1>1. RunsInOrder' /\ HeadIsLast' /\ RecordsInOrder' /\ StateIsEarned' /\ DeliveryIsKept' /\ ReadyIsFresh'
  BY DEF IInv, RunsInOrder, HeadIsLast, RecordsInOrder, StateIsEarned, DeliveryIsKept, ReadyIsFresh,
         HasRun, LastRun, NeedsProvisioning, Fresh, FinalSha, KeyOf
<1>2. Grows(doc.verified, doc.verified) /\ Grows(doc.launched, doc.launched) /\ Grows(doc.seen, doc.seen)
  BY GrowsAlways DEF IInv, TypeOK, Document
<1>3. doc.iteration \in Nat /\ doc.delivery.version \in Nat
  BY DEF IInv, TypeOK, Document
<1>4. HistoryGoesOn
  BY <1>2, <1>3 DEF HistoryGoesOn
<1> QED BY <1>1, <1>4 DEF Keeps, IInv

LEMMA CallingKeeps ==
  ASSUME IInv, pc # "idle", NEW where \in Pcs, Calls(where), CallIsOfState'
  PROVE  Keeps
<1>1. TypeOK' /\ CommandGoesOn'
  BY DEF IInv, TypeOK, CommandGoesOn, Calls, queueVars, envVars
<1>2. NothingStrands
  BY DEF NothingStrands, Stranded, Calls, queueVars, envVars
<1> QED BY <1>1, <1>2, QuietKeeps DEF Calls

LEMMA FailedIs ==
  ASSUME NEW d \in Document
  PROVE  /\ FailedDocument(d) \in Document /\ FailedDocument(d).error = TRUE
         /\ d.state \in Working => FailedDocument(d).state = "FAILED"
         /\ d.state \notin Working => FailedDocument(d).state = d.state
         /\ FailedDocument(d).state \notin Working
         /\ Alike([d EXCEPT !.error = TRUE], FailedDocument(d))
<1>1. CASE d.state \in Working
  <2>1. PICK f : f = [d EXCEPT !.error = TRUE]
    OBVIOUS
  <2>2. f \in Document /\ f.error = TRUE /\ f.state = d.state
    BY <2>1 DEF Document
  <2>3. PICK e : e = [f EXCEPT !.state = "FAILED", !.failedIn = d.state]
    OBVIOUS
  <2>4. "FAILED" \in States \ Working /\ d.state \in States
    BY StatesAre, WorkingAre DEF Document
  <2>5. e \in Document /\ e.error = TRUE /\ e.state = "FAILED"
    BY <2>2, <2>3, <2>4 DEF Document
  <2>6. Alike(f, e)
    BY <2>2, <2>3 DEF Document, Alike
  <2>7. FailedDocument(d) = e
    BY <1>1, <2>1, <2>3 DEF FailedDocument
  <2> QED BY <1>1, <2>1, <2>4, <2>5, <2>6, <2>7
<1>2. CASE d.state \notin Working
  <2>1. FailedDocument(d) = [d EXCEPT !.error = TRUE]
    BY <1>2 DEF FailedDocument
  <2>2. PICK f : f = [d EXCEPT !.error = TRUE]
    OBVIOUS
  <2>3. f \in Document /\ f.error = TRUE /\ f.state = d.state
    BY <2>2 DEF Document
  <2>4. Alike(f, f)
    BY DEF Alike
  <2> QED BY <1>2, <2>1, <2>2, <2>3, <2>4
<1> QED BY <1>1, <1>2

\* A handler that throws leaves the project to a later attempt or fails it.
LEMMA ThrowingKeeps ==
  ASSUME IInv, pc # "idle", NEW retryable \in BOOLEAN, Throws(retryable),
         UNCHANGED <<tree, call, listed, resumes>>, faults' \in 0..MaxFaults
  PROVE  Keeps
<1>0. job # None /\ pc' = "idle" /\ doc \in Document
  BY DEF IInv, CallIsOfState, Throws, TypeOK
<1>1. CASE retryable /\ attempts < MaxAttempts
  <2>1. UNCHANGED <<doc, job, attempts>>
    BY <1>1 DEF Throws, queueVars
  <2>2. TypeOK' /\ CallIsOfState' /\ CommandGoesOn'
    BY <2>1, <1>0 DEF IInv, TypeOK, Pcs, CallIsOfState, CommandGoesOn
  <2>3. NothingStrands
    BY <2>1, <1>0 DEF NothingStrands, Stranded
  <2> QED BY <2>1, <2>2, <2>3, QuietKeeps
<1>2. CASE ~(retryable /\ attempts < MaxAttempts)
  <2>1. doc' = FailedDocument(doc) /\ job' = None /\ attempts' = 0
    BY <1>2 DEF Throws
  <2>2. /\ doc' \in Document /\ doc'.error = TRUE
        /\ doc.state \in Working => doc'.state = "FAILED"
        /\ doc.state \notin Working => doc'.state = doc.state
        /\ doc'.state \notin Working
        /\ Alike([doc EXCEPT !.error = TRUE], doc')
    BY <2>1, <1>0, FailedIs
  <2>3. /\ doc'.runs = doc.runs /\ doc'.iteration = doc.iteration /\ doc'.verified = doc.verified
        /\ doc'.launched = doc.launched /\ doc'.seen = doc.seen /\ doc'.delivery = doc.delivery
        /\ doc'.final = doc.final /\ doc'.review = doc.review
        /\ doc'.isNew = doc.isNew /\ doc'.provisioned = doc.provisioned
    BY <2>2, <1>0 DEF Alike, Document
  <2>4. TypeOK'
    <3>1. job' \in JobTypes \cup {None} /\ attempts' \in Nat /\ pc' \in Pcs
      BY <1>0, <2>1, WorkflowAssumption DEF Pcs
    <3>2. doc' \in Document /\ doc'.iteration \in 0..MaxIterations
      BY <2>2, <2>3 DEF IInv, TypeOK
    <3> QED BY <3>1, <3>2 DEF IInv, TypeOK
  <2>5. RunsInOrder' /\ HeadIsLast' /\ RecordsInOrder'
    BY <2>3 DEF IInv, RunsInOrder, HeadIsLast, RecordsInOrder, HasRun, LastRun
  <2>6. StateIsEarned'
    BY <2>2, <2>3 DEF IInv, StateIsEarned, Judging, OwnerTerminal, HasRun, LastRun, NeedsProvisioning
  <2>7. CallIsOfState'
    BY <1>0 DEF CallIsOfState
  <2>8. DeliveryIsKept' /\ CommandGoesOn'
    BY <2>2, <2>3, WorkingAre DEF IInv, DeliveryIsKept, CommandGoesOn
  <2>9. ReadyIsFresh'
    BY <2>2, <2>3 DEF IInv, ReadyIsFresh, OwnerTerminal, LastRun, Fresh, FinalSha, KeyOf
  <2>10. HistoryGoesOn
    <3>1. Grows(doc.verified, doc.verified) /\ Grows(doc.launched, doc.launched) /\ Grows(doc.seen, doc.seen)
      BY GrowsAlways DEF IInv, TypeOK, Document
    <3>2. doc.iteration \in Nat /\ doc.delivery.version \in Nat
      BY DEF IInv, TypeOK, Document
    <3> QED BY <2>3, <3>1, <3>2 DEF HistoryGoesOn
  <2>11. NothingStrands
    BY <2>2 DEF NothingStrands, Stranded
  <2> QED BY <2>4, <2>5, <2>6, <2>7, <2>8, <2>9, <2>10, <2>11 DEF Keeps, IInv
<1> QED BY <1>1, <1>2

LEMMA RejectingKeeps ==
  ASSUME IInv, pc # "idle", NEW retryable \in BOOLEAN, Rejects(retryable)
  PROVE  Keeps
<1>1. UNCHANGED <<tree, call, listed, faults, resumes>> /\ Throws(retryable)
  BY DEF Rejects, envVars
<1>2. faults' \in 0..MaxFaults
  BY <1>1 DEF IInv, TypeOK
<1> QED BY <1>1, <1>2, ThrowingKeeps

-----------------------------------------------------------------------------
(* The steps of a worker that move the project on *)

\* What a worker knows when it looks at the document.
LEMMA AtIs ==
  ASSUME IInv, NEW step, At(step), step # "return"
  PROVE  /\ pc = "start" /\ job \in JobTypes /\ doc \in Document
         /\ doc.state \in Working /\ doc.state \in WorksIn[job] /\ StepOf(job, doc) = step
<1>1. pc = "start" /\ job \in JobTypes /\ doc \in Document /\ doc.state \in States
  BY DEF At, IInv, TypeOK, CallIsOfState, Document
<1> QED BY <1>1, StepsAre DEF At

LEMMA AtState ==
  ASSUME IInv, NEW step \in States, At(step)
  PROVE  doc.state = step /\ (step = "COUNCIL_DISCOVERY" => job = "COUNCIL_DISCOVERY")
<1>1. /\ job \in JobTypes /\ doc.state \in States /\ StepOf(job, doc) = step
  BY AtIs, StatesAre DEF Document
<1> QED BY <1>1, StepsAre

LEMMA AlikeIsReflexive ==
  ASSUME NEW d
  PROVE  Alike(d, d)
  BY DEF Alike

\* A move of the saved document.
LEMMA MovesKeeps ==
  ASSUME IInv, pc # "idle", doc.state \in Working, NEW to \in Working, Moves(doc, to),
         to \in Judging => HasRun(doc) /\ LastRun(doc).done,
         to = "CURSOR_EXECUTING" => ~NeedsProvisioning(doc)
  PROVE  Keeps /\ doc' \in Document /\ Alike(doc, doc') /\ doc'.state = to
<1>1. doc \in Document /\ Alike(doc, doc) /\ Saves([doc EXCEPT !.state = to])
  BY AlikeIsReflexive DEF Moves, IInv, TypeOK
<1> QED BY <1>1, MovingKeeps

LEMMA EnterDiscoveryKeeps ==
  ASSUME IInv, EnterDiscovery
  PROVE  Keeps /\ doc' \in Document /\ Alike(doc, doc') /\ doc'.state = "COUNCIL_DISCOVERY"
<1>1. pc # "idle" /\ doc.state \in Working
  BY AtIs DEF EnterDiscovery
<1>2. Moves(doc, "COUNCIL_DISCOVERY") /\ "COUNCIL_DISCOVERY" \in Working /\ "COUNCIL_DISCOVERY" \notin Judging
  BY WorkingAre DEF EnterDiscovery, Judging
<1> QED BY <1>1, <1>2, MovesKeeps

LEMMA RecoverSpecKeeps ==
  ASSUME IInv, RecoverSpec
  PROVE  Keeps /\ doc' \in Document /\ Alike(doc, doc') /\ doc'.state = "SPECIFICATION_READY"
<1>1. pc # "idle" /\ doc.state \in Working /\ doc \in Document
  BY AtIs DEF RecoverSpec
<1>2. PICK d : d = IF doc.pending THEN [doc EXCEPT !.heard = doc.cycles] ELSE doc
  OBVIOUS
<1>3. d \in Document /\ Alike(doc, d)
  BY <1>1, <1>2 DEF Document, Alike
<1>4. Saves([d EXCEPT !.state = "SPECIFICATION_READY"])
  BY <1>2 DEF RecoverSpec, Moves
<1>5. "SPECIFICATION_READY" \in Working /\ "SPECIFICATION_READY" \notin Judging
  BY WorkingAre DEF Judging
<1> QED BY <1>1, <1>3, <1>4, <1>5, MovingKeeps

LEMMA DiscoverKeeps ==
  ASSUME IInv, Discover
  PROVE  /\ Keeps /\ doc' \in Document /\ Alike(doc, doc') /\ doc'.state = "SPECIFICATION_READY"
         /\ doc.state = "COUNCIL_DISCOVERY"
<1>1. pc # "idle" /\ doc.state = "COUNCIL_DISCOVERY" /\ doc.state \in Working /\ doc \in Document
  BY WorkingAre DEF Discover, IInv, CallIsOfState, TypeOK
<1>2. PICK d : d = [doc EXCEPT !.spec = TRUE]
  OBVIOUS
<1>3. d \in Document /\ Alike(doc, d)
  BY <1>1, <1>2 DEF Document, Alike
<1>4. Saves([d EXCEPT !.state = "SPECIFICATION_READY"])
  BY <1>2 DEF Discover, Moves
<1>5. "SPECIFICATION_READY" \in Working /\ "SPECIFICATION_READY" \notin Judging
  BY WorkingAre DEF Judging
<1> QED BY <1>1, <1>3, <1>4, <1>5, MovingKeeps

LEMMA SkipProvisioningKeeps ==
  ASSUME IInv, SkipProvisioning
  PROVE  /\ Keeps /\ doc' \in Document /\ Alike(doc, doc') /\ doc'.state = "CURSOR_EXECUTING"
         /\ doc.state \in {"SPECIFICATION_READY", "PROJECT_PROVISIONING"}
<1>1. pc # "idle" /\ doc.state \in Working /\ doc.state \in {"SPECIFICATION_READY", "PROJECT_PROVISIONING"}
  BY AtIs, StepsAre DEF SkipProvisioning, Document
<1>2. Moves(doc, "CURSOR_EXECUTING") /\ "CURSOR_EXECUTING" \in Working /\ "CURSOR_EXECUTING" \notin Judging
      /\ ~NeedsProvisioning(doc)
  BY WorkingAre DEF SkipProvisioning, Judging, NeedsProvisioning
<1> QED BY <1>1, <1>2, MovesKeeps

LEMMA EnterProvisioningKeeps ==
  ASSUME IInv, EnterProvisioning
  PROVE  /\ Keeps /\ doc' \in Document /\ Alike(doc, doc') /\ doc'.state = "PROJECT_PROVISIONING"
         /\ doc.state = "SPECIFICATION_READY"
<1>1. pc # "idle" /\ doc.state \in Working
  BY AtIs DEF EnterProvisioning
<1>2. /\ Moves(doc, "PROJECT_PROVISIONING") /\ "PROJECT_PROVISIONING" \in Working
      /\ "PROJECT_PROVISIONING" \notin Judging
  BY WorkingAre DEF EnterProvisioning, Judging
<1> QED BY <1>1, <1>2, MovesKeeps DEF EnterProvisioning

LEMMA ReplayVerificationKeeps ==
  ASSUME IInv, ReplayVerification
  PROVE  /\ Keeps /\ doc' \in Document /\ Alike(doc, doc') /\ doc.state = "PLATFORM_VERIFICATION"
         /\ doc'.state = AfterPlatform(VerdictOn(doc.verified, doc.iteration))
<1>1. pc # "idle" /\ doc.state \in Working /\ doc.state = "PLATFORM_VERIFICATION"
  BY AtIs, AtState, StatesAre DEF ReplayVerification
<1>2. PICK to : to = AfterPlatform(VerdictOn(doc.verified, doc.iteration))
  OBVIOUS
<1>3. to \in Working /\ to \in Judging /\ Moves(doc, to) /\ to # "CURSOR_EXECUTING"
  BY <1>2, WorkingAre DEF ReplayVerification, Judging, AfterPlatform
<1>4. HasRun(doc) /\ LastRun(doc).done
  BY <1>1 DEF IInv, StateIsEarned, Judging
<1> QED BY <1>1, <1>2, <1>3, <1>4, MovesKeeps

LEMMA ReplayRuntimeKeeps ==
  ASSUME IInv, ReplayRuntime
  PROVE  /\ Keeps /\ doc' \in Document /\ Alike(doc, doc') /\ doc.state = "RUNTIME_VERIFICATION"
         /\ doc'.state \in {"COUNCIL_REVIEW", "VISUAL_VERIFICATION"}
<1>1. pc # "idle" /\ doc.state \in Working /\ doc.state = "RUNTIME_VERIFICATION"
  BY AtIs, AtState, StatesAre DEF ReplayRuntime
<1>2. PICK to : to = AfterRuntime(doc.launched[KnownLaunch(doc)].verdict)
  OBVIOUS
<1>3. to \in {"COUNCIL_REVIEW", "VISUAL_VERIFICATION"} /\ Moves(doc, to)
  BY <1>2 DEF ReplayRuntime, AfterRuntime
<1>4. HasRun(doc) /\ LastRun(doc).done
  BY <1>1 DEF IInv, StateIsEarned, Judging
<1>5. to \in Working /\ to # "CURSOR_EXECUTING"
  BY <1>3, WorkingAre
<1> QED BY <1>1, <1>3, <1>4, <1>5, MovesKeeps

LEMMA ReplayVisualKeeps ==
  ASSUME IInv, ReplayVisual
  PROVE  /\ Keeps /\ doc' \in Document /\ Alike(doc, doc') /\ doc.state = "VISUAL_VERIFICATION"
         /\ doc'.state = "COUNCIL_REVIEW"
<1>1. pc # "idle" /\ doc.state \in Working /\ doc.state = "VISUAL_VERIFICATION"
  BY AtIs, AtState, StatesAre DEF ReplayVisual
<1>2. Moves(doc, "COUNCIL_REVIEW") /\ "COUNCIL_REVIEW" \in Working
  BY WorkingAre DEF ReplayVisual
<1>3. HasRun(doc) /\ LastRun(doc).done
  BY <1>1 DEF IInv, StateIsEarned, Judging
<1> QED BY <1>1, <1>2, <1>3, MovesKeeps

-----------------------------------------------------------------------------
(* The steps of a worker that change the document *)

\* The runs of two documents, whatever is said of them.
SameRuns(d, e) ==
  /\ Len(e.runs) = Len(d.runs)
  /\ \A k \in DOMAIN d.runs : /\ e.runs[k].iteration = d.runs[k].iteration
                              /\ e.runs[k].done = d.runs[k].done
                              /\ e.runs[k].sha = d.runs[k].sha

LEMMA SameRunsKeep ==
  ASSUME IInv, doc' \in Document, SameRuns(doc, doc'), doc'.iteration >= doc.iteration, tree'.head = tree.head
  PROVE  /\ RunsInOrder' /\ HeadIsLast' /\ (HasRun(doc') <=> HasRun(doc))
         /\ HasRun(doc) => LastRun(doc').done = LastRun(doc).done /\ LastRun(doc').sha = LastRun(doc).sha
                           /\ LastRun(doc').iteration = LastRun(doc).iteration
<1>1. doc \in Document /\ doc.iteration \in Nat /\ doc'.iteration \in Nat
  BY DEF IInv, TypeOK, Document
<1>2. DOMAIN doc'.runs = DOMAIN doc.runs /\ DOMAIN doc.runs = 1..Len(doc.runs) /\ Len(doc.runs) \in Nat
  BY <1>1, RunsAre DEF SameRuns
<1>3. /\ HasRun(doc') <=> HasRun(doc)
      /\ HasRun(doc) => LastRun(doc').done = LastRun(doc).done /\ LastRun(doc').sha = LastRun(doc).sha
                        /\ LastRun(doc').iteration = LastRun(doc).iteration
  BY <1>1, <1>2, RunsAre DEF SameRuns, LastRun
<1>4. RunsInOrder'
  <2>1. \A k \in DOMAIN doc.runs : doc.runs[k].iteration \in Nat
    BY <1>1, RunsAre DEF Run
  <2>2. \A k \in DOMAIN doc.runs : /\ doc'.runs[k].iteration = doc.runs[k].iteration
                                   /\ doc'.runs[k].done = doc.runs[k].done
                                   /\ doc'.runs[k].sha = doc.runs[k].sha
    BY DEF SameRuns
  <2>3. RunsInOrder
    BY DEF IInv
  <2>4. \A k, l \in DOMAIN doc'.runs : k < l => doc'.runs[k].iteration < doc'.runs[l].iteration
    BY <1>2, <2>2, <2>3 DEF RunsInOrder
  <2>5. \A k \in DOMAIN doc'.runs : /\ doc'.runs[k].iteration \in 1..doc'.iteration
                                    /\ doc'.runs[k].done <=> doc'.runs[k].sha # None
    BY <1>1, <1>2, <2>1, <2>2, <2>3 DEF RunsInOrder
  <2> QED BY <2>4, <2>5 DEF RunsInOrder
<1>5. HeadIsLast'
  BY <1>3 DEF IInv, HeadIsLast
<1> QED BY <1>3, <1>4, <1>5

\* Records and history after a step that adds at most records of the head.
LEMMA EvidenceGoesOn ==
  ASSUME IInv, doc' \in Document, SameRuns(doc, doc'), doc'.iteration >= doc.iteration, tree'.head = tree.head,
         \/ doc'.verified = doc.verified
         \/ \E r \in [iteration: Nat, sha: Nat, verdict: PlatformOutcomes] :
              r.sha = tree.head /\ doc'.verified = Append(doc.verified, r),
         doc'.launched = doc.launched \/ \E r : doc'.launched = Append(doc.launched, r),
         doc'.seen = doc.seen \/ \E r : doc'.seen = Append(doc.seen, r),
         doc'.delivery.version >= doc.delivery.version
  PROVE  EvidenceKept
<1>1. RunsInOrder' /\ HeadIsLast'
  BY SameRunsKeep
<1>2. /\ doc.verified \in Seq([iteration: Nat, sha: Nat, verdict: PlatformOutcomes])
      /\ doc.iteration \in Nat /\ doc'.iteration \in Nat
      /\ doc.delivery.version \in Nat /\ doc'.delivery.version \in Nat
      /\ tree.head \in Nat /\ doc \in Document
  BY DEF IInv, TypeOK, Document
<1>3. RecordsInOrder'
  <2>1. CASE doc'.verified = doc.verified
    BY <2>1 DEF IInv, RecordsInOrder
  <2>2. ASSUME NEW r \in [iteration: Nat, sha: Nat, verdict: PlatformOutcomes],
               r.sha = tree.head, doc'.verified = Append(doc.verified, r)
        PROVE  RecordsInOrder'
    <3>1. PICK s \in Seq([iteration: Nat, sha: Nat, verdict: PlatformOutcomes]) : s = doc.verified
      BY <1>2
    <3>2. /\ DOMAIN Append(s, r) = 1..Len(s) + 1 /\ DOMAIN s = 1..Len(s) /\ Len(s) \in Nat
          /\ \A k \in DOMAIN s : Append(s, r)[k] = s[k]
          /\ Append(s, r)[Len(s) + 1] = r
      OBVIOUS
    <3>3. /\ \A k \in DOMAIN s : s[k].sha <= tree.head
          /\ \A k, l \in DOMAIN s : k < l => s[k].sha <= s[l].sha
      BY <3>1 DEF IInv, RecordsInOrder
    <3>4. \A k \in DOMAIN Append(s, r) : k \in DOMAIN s \/ k = Len(s) + 1
      BY <3>2
    <3>5. \A k \in DOMAIN Append(s, r) : Append(s, r)[k].sha <= tree.head
      BY <2>2, <3>2, <3>3, <3>4, <1>2
    <3>6. ASSUME NEW k \in DOMAIN Append(s, r), NEW l \in DOMAIN Append(s, r), k < l
          PROVE  Append(s, r)[k].sha <= Append(s, r)[l].sha
      <4>1. k \in DOMAIN s
        BY <3>2, <3>6
      <4>2. CASE l \in DOMAIN s
        BY <4>1, <4>2, <3>2, <3>3, <3>6
      <4>3. CASE l = Len(s) + 1
        BY <4>1, <4>3, <3>2, <3>3, <2>2
      <4> QED BY <4>2, <4>3, <3>4
    <3> QED BY <3>1, <3>5, <3>6, <2>2 DEF RecordsInOrder
  <2> QED BY <2>1, <2>2
<1>4. /\ Grows(doc.verified, doc'.verified)
      /\ Grows(doc.launched, doc'.launched)
      /\ Grows(doc.seen, doc'.seen)
  <2>1. ASSUME NEW R, NEW S, NEW s \in Seq(R), NEW t \in Seq(S), \/ t = s \/ \E r : t = Append(s, r)
        PROVE  Grows(s, t)
    <3>1. CASE t = s
      BY <3>1, GrowsAlways
    <3>2. ASSUME NEW r, t = Append(s, r) PROVE Grows(s, t)
      <4>1. Append(s, r)[Len(s) + 1] = r /\ Len(s) \in Nat /\ s \in Seq(R \cup {r}) /\ r \in R \cup {r}
        OBVIOUS
      <4> QED BY <4>1, <3>2, GrowsAlways
    <3> QED BY <2>1, <3>1, <3>2
  <2>2. doc.verified \in Seq([iteration: Nat, sha: Nat, verdict: PlatformOutcomes])
        /\ doc'.verified \in Seq([iteration: Nat, sha: Nat, verdict: PlatformOutcomes])
    BY <1>2 DEF Document
  <2>3. doc.launched \in Seq([iteration: Nat, sha: Nat, verdict: RuntimeOutcomes])
        /\ doc'.launched \in Seq([iteration: Nat, sha: Nat, verdict: RuntimeOutcomes])
    BY <1>2 DEF Document
  <2>4. doc.seen \in Seq([iteration: Nat, sha: Nat, of: Nat, verdict: VisualOutcomes \cup {"NOT_APPLICABLE"}])
        /\ doc'.seen \in Seq([iteration: Nat, sha: Nat, of: Nat, verdict: VisualOutcomes \cup {"NOT_APPLICABLE"}])
    BY <1>2 DEF Document
  <2>5. Grows(doc.verified, doc'.verified)
    BY <2>1, <2>2
  <2>6. Grows(doc.launched, doc'.launched)
    BY <2>1, <2>3
  <2>7. Grows(doc.seen, doc'.seen)
    BY <2>1, <2>4
  <2> QED BY <2>5, <2>6, <2>7
<1>5. HistoryGoesOn
  <2>1. DOMAIN doc'.runs = DOMAIN doc.runs
    BY <1>2, RunsAre DEF SameRuns
  <2> QED BY <1>2, <1>4, <2>1 DEF HistoryGoesOn, SameRuns
<1> QED BY <1>1, <1>3, <1>5 DEF EvidenceKept

\* A save that leaves the runs as they are, in the state it finds or from one
\* stage after Cursor to another.
LEMMA NotingKeeps ==
  ASSUME IInv, pc # "idle", pc' = "start", UNCHANGED <<tree, queueVars, envVars>>,
         doc.state \in Working, doc' \in Document, SameRuns(doc, doc'), doc'.iteration = doc.iteration,
         doc'.state = doc.state \/ {doc.state, doc'.state} \subseteq Judging,
         doc'.isNew = doc.isNew, doc.provisioned => doc'.provisioned,
         \/ doc'.verified = doc.verified
         \/ \E r \in [iteration: Nat, sha: Nat, verdict: PlatformOutcomes] :
              r.sha = tree.head /\ doc'.verified = Append(doc.verified, r),
         doc'.launched = doc.launched \/ \E r : doc'.launched = Append(doc.launched, r),
         doc'.seen = doc.seen \/ \E r : doc'.seen = Append(doc.seen, r),
         doc'.delivery = doc.delivery
  PROVE  Keeps
<1>0. doc.iteration \in Nat /\ doc.delivery.version \in Nat
  BY DEF IInv, TypeOK, Document
<1>1. doc'.iteration >= doc.iteration /\ doc'.delivery.version >= doc.delivery.version
  BY <1>0
<1>2. EvidenceKept
  BY <1>1, EvidenceGoesOn
<1>3. StateIsEarned'
  BY SameRunsKeep, <1>1, WorkingAre
     DEF IInv, StateIsEarned, NeedsProvisioning, OwnerTerminal, Judging
<1>4. doc'.iteration \in 0..MaxIterations
  BY DEF IInv, TypeOK
<1>5. doc'.state \in Working
  BY WorkingAre DEF Judging
<1> QED BY <1>2, <1>3, <1>4, <1>5, SavingKeeps

LEMMA SameRunsIsReflexive ==
  ASSUME NEW d, NEW e, e.runs = d.runs
  PROVE  SameRuns(d, e)
  BY DEF SameRuns

LEMMA ProvisionKeeps ==
  ASSUME IInv, Provision
  PROVE  /\ Keeps /\ doc' \in Document /\ doc'.state = "PROJECT_PROVISIONING" /\ doc.state = "PROJECT_PROVISIONING"
         /\ Alike([doc EXCEPT !.provisioned = TRUE], doc')
<1>1. /\ pc # "idle" /\ doc.state = "PROJECT_PROVISIONING" /\ doc.state \in Working /\ doc \in Document
  BY WorkingAre DEF Provision, IInv, CallIsOfState, TypeOK
<1>2. PICK d : d = [doc EXCEPT !.provisioned = TRUE]
  OBVIOUS
<1>3. /\ d \in Document /\ d.state = doc.state /\ d.isNew = doc.isNew /\ d.provisioned = TRUE
      /\ d.runs = doc.runs /\ d.iteration = doc.iteration /\ d.verified = doc.verified
      /\ d.launched = doc.launched /\ d.seen = doc.seen /\ d.delivery = doc.delivery
  BY <1>1, <1>2 DEF Document
<1>4. doc' = Stored(d) /\ pc' = "start" /\ UNCHANGED <<tree, queueVars, envVars>>
  BY <1>2 DEF Provision, Saves
<1>5. doc' \in Document /\ Alike(d, doc') /\ doc'.state = d.state
  BY <1>3, <1>4, StoredIs
<1>6. Keeps
  BY <1>1, <1>3, <1>4, <1>5, SameRunsIsReflexive, NotingKeeps DEF Alike
<1> QED BY <1>1, <1>2, <1>3, <1>5, <1>6

LEMMA LaunchKeeps ==
  ASSUME IInv, Launch
  PROVE  /\ Keeps /\ doc' \in Document /\ doc'.state = "RUNTIME_VERIFICATION" /\ doc.state = "RUNTIME_VERIFICATION"
         /\ \E l : Alike([doc EXCEPT !.launched = l], doc')
<1>1. /\ pc # "idle" /\ doc.state = "RUNTIME_VERIFICATION" /\ doc.state \in Working /\ doc \in Document
  BY WorkingAre DEF Launch, IInv, CallIsOfState, TypeOK
<1>2. PICK v \in RuntimeVerdicts :
        Saves([doc EXCEPT !.launched =
                 Append(@, [iteration |-> doc.iteration, sha |-> LastRun(doc).sha, verdict |-> v])])
  BY DEF Launch
<1>3. PICK r : r = [iteration |-> doc.iteration, sha |-> LastRun(doc).sha, verdict |-> v]
  OBVIOUS
<1>4. HasRun(doc) /\ LastRun(doc).sha \in Nat /\ doc.iteration \in Nat
  BY <1>1 DEF IInv, StateIsEarned, Judging, HeadIsLast, TypeOK
<1>5. r \in [iteration: Nat, sha: Nat, verdict: RuntimeOutcomes]
  BY <1>3, <1>4, WorkflowAssumption
<1>6. Append(doc.launched, r) \in Seq([iteration: Nat, sha: Nat, verdict: RuntimeOutcomes])
  <2>1. doc.launched \in Seq([iteration: Nat, sha: Nat, verdict: RuntimeOutcomes])
    BY <1>1 DEF Document
  <2> QED BY <2>1, <1>5
<1>7. PICK l : l = Append(doc.launched, r)
  OBVIOUS
<1>8. PICK d : d = [doc EXCEPT !.launched = l]
  OBVIOUS
<1>9. /\ d \in Document /\ d.state = doc.state /\ d.isNew = doc.isNew /\ d.provisioned = doc.provisioned
      /\ d.runs = doc.runs /\ d.iteration = doc.iteration /\ d.verified = doc.verified
      /\ d.launched = Append(doc.launched, r) /\ d.seen = doc.seen /\ d.delivery = doc.delivery
  BY <1>1, <1>6, <1>7, <1>8 DEF Document
<1>10. doc' = Stored(d) /\ pc' = "start" /\ UNCHANGED <<tree, queueVars, envVars>>
  BY <1>2, <1>3, <1>7, <1>8 DEF Saves
<1>11. doc' \in Document /\ Alike(d, doc') /\ doc'.state = d.state
  BY <1>9, <1>10, StoredIs
<1>12. Keeps
  BY <1>1, <1>9, <1>10, <1>11, SameRunsIsReflexive, NotingKeeps DEF Alike
<1> QED BY <1>1, <1>8, <1>9, <1>11, <1>12

LEMMA CouncilReviewKeeps ==
  ASSUME IInv, CouncilReview
  PROVE  /\ Keeps /\ doc' \in Document /\ doc'.state = doc.state /\ doc.state \in Working
         /\ \E r : Alike([doc EXCEPT !.review = r], doc')
<1>1. /\ pc # "idle" /\ doc.state \in Working /\ doc \in Document /\ doc.iteration \in 0..MaxIterations
  BY WorkingAre DEF CouncilReview, IInv, CallIsOfState, TypeOK, WorksIn
<1>2. PICK v \in Decisions : Saves([doc EXCEPT !.review[doc.iteration] = v])
  BY DEF CouncilReview
<1>3. PICK r : r = [doc.review EXCEPT ![doc.iteration] = v]
  OBVIOUS
<1>4. PICK d : d = [doc EXCEPT !.review = r]
  OBVIOUS
<1>5. r \in [0..MaxIterations -> Decisions \cup {None}]
  BY <1>1, <1>3 DEF Document
<1>6. /\ d \in Document /\ d.state = doc.state /\ d.isNew = doc.isNew /\ d.provisioned = doc.provisioned
      /\ d.runs = doc.runs /\ d.iteration = doc.iteration /\ d.verified = doc.verified
      /\ d.launched = doc.launched /\ d.seen = doc.seen /\ d.delivery = doc.delivery
  BY <1>1, <1>4, <1>5 DEF Document
<1>7. doc' = Stored(d) /\ pc' = "start" /\ UNCHANGED <<tree, queueVars, envVars>>
  BY <1>2, <1>3, <1>4 DEF Saves
<1>8. doc' \in Document /\ Alike(d, doc') /\ doc'.state = d.state
  BY <1>6, <1>7, StoredIs
<1>9. Keeps
  BY <1>1, <1>6, <1>7, <1>8, SameRunsIsReflexive, NotingKeeps DEF Alike
<1> QED BY <1>1, <1>4, <1>6, <1>8, <1>9

LEMMA FinalVerifyKeeps ==
  ASSUME IInv, FinalVerify
  PROVE  /\ Keeps /\ doc' \in Document /\ doc'.state = doc.state /\ doc.state \in Working \ {"DELIVERY_PREPARATION"}
         /\ \E f : Alike([doc EXCEPT !.final = f], doc')
<1>1. /\ pc # "idle" /\ doc.state \in Working /\ doc \in Document /\ doc.state # "DELIVERY_PREPARATION"
  BY WorkingAre DEF FinalVerify, IInv, CallIsOfState, TypeOK, WorksIn
<1>2. PICK v \in Decisions : Saves([doc EXCEPT !.final = [count |-> Len(doc.runs), decision |-> v]])
  BY DEF FinalVerify
<1>3. PICK f : f = [count |-> Len(doc.runs), decision |-> v]
  OBVIOUS
<1>4. PICK d : d = [doc EXCEPT !.final = f]
  OBVIOUS
<1>5. f \in [count: Nat, decision: Decisions \cup {None}]
  BY <1>1, <1>3, RunsAre
<1>6. /\ d \in Document /\ d.state = doc.state /\ d.isNew = doc.isNew /\ d.provisioned = doc.provisioned
      /\ d.runs = doc.runs /\ d.iteration = doc.iteration /\ d.verified = doc.verified
      /\ d.launched = doc.launched /\ d.seen = doc.seen /\ d.delivery = doc.delivery
  BY <1>1, <1>4, <1>5 DEF Document
<1>7. doc' = Stored(d) /\ pc' = "start" /\ UNCHANGED <<tree, queueVars, envVars>>
  BY <1>2, <1>3, <1>4 DEF Saves
<1>8. doc' \in Document /\ Alike(d, doc') /\ doc'.state = d.state
  BY <1>6, <1>7, StoredIs
<1>9. Keeps
  BY <1>1, <1>6, <1>7, <1>8, SameRunsIsReflexive, NotingKeeps DEF Alike
<1> QED BY <1>1, <1>4, <1>6, <1>8, <1>9

\* The runs of a document of which one has been changed.
LEMMA RunChangedIs ==
  ASSUME NEW d \in Document, HasRun(d), NEW run \in Run
  PROVE  LET s == [d.runs EXCEPT ![Len(d.runs)] = run]
         IN  /\ s \in Seq(Run) /\ Len(s) = Len(d.runs) /\ DOMAIN s = DOMAIN d.runs
             /\ \A k \in DOMAIN d.runs : s[k] = IF k = Len(d.runs) THEN run ELSE d.runs[k]
<1>1. PICK s \in Seq(Run) : s = d.runs
  BY RunsAre
<1>2. Len(s) \in 1..Len(s) /\ Len(s) \in Nat /\ DOMAIN s = 1..Len(s)
  BY <1>1, RunsAre
<1>3. [s EXCEPT ![Len(s)] = run] \in Seq(Run) /\ Len([s EXCEPT ![Len(s)] = run]) = Len(s)
      /\ DOMAIN [s EXCEPT ![Len(s)] = run] = DOMAIN s
  BY <1>2
<1> QED BY <1>1, <1>2, <1>3

\* Two documents that differ in their runs at most.
SameButRuns(d, e) ==
  /\ e.state = d.state /\ e.isNew = d.isNew
  /\ e.provisioned = d.provisioned /\ e.error = d.error /\ e.iteration = d.iteration
  /\ e.verified = d.verified /\ e.launched = d.launched /\ e.seen = d.seen
  /\ e.review = d.review /\ e.final = d.final /\ e.delivery = d.delivery

\* The runs of a document are replaced, and nothing else of it.
LEMMA RunsReplacedIs ==
  ASSUME NEW d \in Document, NEW s \in Seq(Run)
  PROVE  /\ [d EXCEPT !.runs = s] \in Document /\ [d EXCEPT !.runs = s].runs = s
         /\ SameButRuns(d, [d EXCEPT !.runs = s])
<1>1. [d EXCEPT !.runs = s] \in Document /\ [d EXCEPT !.runs = s].runs = s
  BY DEF Document, Run
<1>2. SameButRuns(d, [d EXCEPT !.runs = s])
  BY DEF Document, SameButRuns
<1> QED BY <1>1, <1>2

\* The evidence of the last run is judged anew.
LEMMA JudgedIs ==
  ASSUME NEW d \in Document, HasRun(d), NEW f \in BOOLEAN
  PROVE  LET e == [d EXCEPT !.runs[Len(d.runs)].favourable = f]
         IN  /\ e \in Document /\ SameRuns(d, e) /\ e.state = d.state /\ e.isNew = d.isNew
             /\ e.provisioned = d.provisioned /\ e.error = d.error /\ e.iteration = d.iteration
             /\ e.verified = d.verified /\ e.launched = d.launched /\ e.seen = d.seen
             /\ e.review = d.review /\ e.final = d.final /\ e.delivery = d.delivery
<1>1. PICK run : run = [LastRun(d) EXCEPT !.favourable = f]
  OBVIOUS
<1>2. /\ run \in Run /\ run.iteration = LastRun(d).iteration /\ run.done = LastRun(d).done
      /\ run.sha = LastRun(d).sha
  BY <1>1, RunsAre DEF Run
<1>3. PICK s : s = [d.runs EXCEPT ![Len(d.runs)] = run]
  OBVIOUS
<1>4. /\ s \in Seq(Run) /\ Len(s) = Len(d.runs)
      /\ \A k \in DOMAIN d.runs : s[k] = IF k = Len(d.runs) THEN run ELSE d.runs[k]
  BY <1>2, <1>3, RunChangedIs
<1>5. s = [d.runs EXCEPT ![Len(d.runs)].favourable = f]
  BY <1>1, <1>3 DEF LastRun
<1>6. [d EXCEPT !.runs = s] = [d EXCEPT !.runs[Len(d.runs)].favourable = f]
  BY <1>5
<1>7. PICK e : e = [d EXCEPT !.runs = s]
  OBVIOUS
<1>8. /\ e \in Document /\ e.runs = s /\ e.state = d.state /\ e.isNew = d.isNew
      /\ e.provisioned = d.provisioned /\ e.error = d.error /\ e.iteration = d.iteration
      /\ e.verified = d.verified /\ e.launched = d.launched /\ e.seen = d.seen
      /\ e.review = d.review /\ e.final = d.final /\ e.delivery = d.delivery
  <2>1. e \in Document /\ e.runs = s /\ SameButRuns(d, e)
    BY <1>4, <1>7, RunsReplacedIs
  <2> QED BY <2>1 DEF SameButRuns
<1>9. SameRuns(d, e)
  BY <1>2, <1>4, <1>8 DEF SameRuns, LastRun
<1> QED BY <1>6, <1>7, <1>8, <1>9

LEMMA ReuseVerificationKeeps ==
  ASSUME IInv, ReuseVerification
  PROVE  /\ Keeps /\ doc' \in Document /\ doc.state = "PLATFORM_VERIFICATION" /\ doc'.state = "RUNTIME_VERIFICATION"
         /\ SameRuns(doc, doc') /\ \E r : Alike([doc EXCEPT !.runs = r], doc')
<1>1. /\ pc # "idle" /\ doc.state \in Working /\ doc.state = "PLATFORM_VERIFICATION" /\ doc \in Document
  BY AtIs, AtState, StatesAre DEF ReuseVerification
<1>2. HasRun(doc)
  BY <1>1 DEF IInv, StateIsEarned, Judging
<1>3. PICK d : d = [doc EXCEPT !.runs[Len(doc.runs)].favourable = TRUE]
  OBVIOUS
<1>4. /\ d \in Document /\ SameRuns(doc, d) /\ d.state = doc.state /\ d.isNew = doc.isNew
      /\ d.provisioned = doc.provisioned /\ d.error = doc.error /\ d.iteration = doc.iteration
      /\ d.verified = doc.verified /\ d.launched = doc.launched /\ d.seen = doc.seen
      /\ d.review = doc.review /\ d.final = doc.final /\ d.delivery = doc.delivery
  BY <1>1, <1>2, <1>3, JudgedIs
<1>5. Saves([d EXCEPT !.state = "RUNTIME_VERIFICATION"])
  BY <1>3 DEF ReuseVerification, Moves, AfterPlatform, Blocks
<1>6. doc' \in Document /\ Alike(d, doc') /\ doc'.state = "RUNTIME_VERIFICATION"
  BY <1>4, <1>5, SavedIs, StatesAre
<1>7. pc' = "start" /\ UNCHANGED <<tree, queueVars, envVars>> /\ SameRuns(doc, doc')
  BY <1>4, <1>5, <1>6 DEF Saves, Alike, SameRuns
<1>8. Keeps
  BY <1>1, <1>4, <1>6, <1>7, NotingKeeps DEF Alike, Judging
<1>9. Alike([doc EXCEPT !.runs = d.runs], doc')
  <2>1. PICK r : r = d.runs
    OBVIOUS
  <2>2. PICK e : e = [doc EXCEPT !.runs = r]
    OBVIOUS
  <2>3. Alike(e, d)
    BY <1>1, <1>4, <2>1, <2>2 DEF Alike, Document
  <2> QED BY <2>1, <2>2, <2>3, <1>6, AlikeIsTransitive
<1> QED BY <1>1, <1>6, <1>7, <1>8, <1>9

\* What a verification adds is of the head.
LEMMA VerifyKeeps ==
  ASSUME IInv, Verify
  PROVE  /\ Keeps /\ doc' \in Document /\ doc.state = "PLATFORM_VERIFICATION" /\ doc'.state = "PLATFORM_VERIFICATION"
         /\ SameRuns(doc, doc') /\ \E r, v : Alike([doc EXCEPT !.runs = r, !.verified = v], doc')
         /\ \E r \in [iteration: Nat, sha: Nat, verdict: PlatformOutcomes] :
              /\ r.sha = tree.head /\ r.sha = LastRun(doc).sha /\ r.iteration = doc.iteration
              /\ doc'.verified = Append(doc.verified, r)
<1>1. /\ pc # "idle" /\ doc.state \in Working /\ doc.state = "PLATFORM_VERIFICATION" /\ doc \in Document
  BY WorkingAre DEF Verify, IInv, CallIsOfState, TypeOK
<1>2. /\ HasRun(doc) /\ LastRun(doc).sha = tree.head /\ tree.head \in Nat /\ doc.iteration \in Nat
  BY <1>1 DEF IInv, StateIsEarned, Judging, HeadIsLast, TypeOK
<1>3. PICK v \in PlatformVerdicts :
        Saves([doc EXCEPT
                 !.verified = Append(@, [iteration |-> doc.iteration, sha |-> LastRun(doc).sha, verdict |-> v]),
                 !.runs[Len(doc.runs)].favourable = (v # "FAIL")])
  BY DEF Verify
<1>4. PICK r : r = [iteration |-> doc.iteration, sha |-> LastRun(doc).sha, verdict |-> v]
  OBVIOUS
<1>5. /\ r \in [iteration: Nat, sha: Nat, verdict: PlatformOutcomes]
      /\ r.sha = tree.head /\ r.sha = LastRun(doc).sha /\ r.iteration = doc.iteration
  BY <1>2, <1>4, WorkflowAssumption
<1>6. PICK w : w = Append(doc.verified, r)
  OBVIOUS
<1>7. w \in Seq([iteration: Nat, sha: Nat, verdict: PlatformOutcomes])
  <2>1. doc.verified \in Seq([iteration: Nat, sha: Nat, verdict: PlatformOutcomes])
    BY <1>1 DEF Document
  <2> QED BY <2>1, <1>5, <1>6
<1>8. PICK f \in BOOLEAN : f = (v # "FAIL")
  OBVIOUS
<1>9. PICK c : c = [doc EXCEPT !.runs[Len(doc.runs)].favourable = f]
  OBVIOUS
<1>10. /\ c \in Document /\ SameRuns(doc, c) /\ c.state = doc.state /\ c.isNew = doc.isNew
       /\ c.provisioned = doc.provisioned /\ c.error = doc.error /\ c.iteration = doc.iteration
       /\ c.verified = doc.verified /\ c.launched = doc.launched /\ c.seen = doc.seen
       /\ c.review = doc.review /\ c.final = doc.final /\ c.delivery = doc.delivery
  BY <1>1, <1>2, <1>9, JudgedIs
<1>11. PICK d : d = [c EXCEPT !.verified = w]
  OBVIOUS
<1>12. /\ d \in Document /\ SameRuns(doc, d) /\ d.state = doc.state /\ d.isNew = doc.isNew
       /\ d.provisioned = doc.provisioned /\ d.error = doc.error /\ d.iteration = doc.iteration
       /\ d.verified = w /\ d.launched = doc.launched /\ d.seen = doc.seen
       /\ d.review = doc.review /\ d.final = doc.final /\ d.delivery = doc.delivery
  BY <1>7, <1>10, <1>11 DEF Document, SameRuns
<1>13. doc' = Stored([doc EXCEPT !.verified = Append(@, r), !.runs[Len(doc.runs)].favourable = (v # "FAIL")])
  BY <1>3, <1>4 DEF Saves
<1>14. [doc EXCEPT !.verified = Append(@, r), !.runs[Len(doc.runs)].favourable = (v # "FAIL")] = d
  BY <1>1, <1>6, <1>8, <1>9, <1>11 DEF Document
<1>15. doc' \in Document /\ Alike(d, doc') /\ doc'.state = d.state
  BY <1>12, <1>13, <1>14, StoredIs
<1>16. pc' = "start" /\ UNCHANGED <<tree, queueVars, envVars>> /\ SameRuns(doc, doc')
       /\ doc'.verified = Append(doc.verified, r)
  BY <1>3, <1>6, <1>12, <1>15 DEF Saves, Alike, SameRuns
<1>17. Keeps
  BY <1>1, <1>5, <1>12, <1>15, <1>16, NotingKeeps DEF Alike
<1>18. Alike([doc EXCEPT !.runs = d.runs, !.verified = w], doc')
  <2>1. PICK x : x = d.runs
    OBVIOUS
  <2>2. PICK e : e = [doc EXCEPT !.runs = x, !.verified = w]
    OBVIOUS
  <2>3. Alike(e, d)
    BY <1>1, <1>12, <2>1, <2>2 DEF Alike, Document
  <2> QED BY <2>1, <2>2, <2>3, <1>15, AlikeIsTransitive
<1> QED BY <1>1, <1>5, <1>12, <1>15, <1>16, <1>17, <1>18

LEMMA LookKeeps ==
  ASSUME IInv, Look
  PROVE  /\ Keeps /\ doc' \in Document /\ doc.state = "VISUAL_VERIFICATION" /\ doc'.state = "COUNCIL_REVIEW"
         /\ \E s : Alike([doc EXCEPT !.seen = s], doc')
<1>1. /\ pc # "idle" /\ doc.state \in Working /\ doc.state = "VISUAL_VERIFICATION" /\ doc \in Document
  BY WorkingAre DEF Look, IInv, CallIsOfState, TypeOK
<1>2. /\ HasRun(doc) /\ LastRun(doc).sha \in Nat /\ doc.iteration \in Nat
  BY <1>1 DEF IInv, StateIsEarned, Judging, HeadIsLast, TypeOK
<1>3. PICK v \in VisualChoices(doc) :
        Moves([doc EXCEPT !.seen =
                 Append(@, [iteration |-> doc.iteration, sha |-> LastRun(doc).sha,
                            of |-> Latest(doc.launched, doc.iteration), verdict |-> v])],
              "COUNCIL_REVIEW")
  BY DEF Look
<1>4. PICK r : r = [iteration |-> doc.iteration, sha |-> LastRun(doc).sha,
                    of |-> Latest(doc.launched, doc.iteration), verdict |-> v]
  OBVIOUS
<1>5. r \in [iteration: Nat, sha: Nat, of: Nat, verdict: VisualOutcomes \cup {"NOT_APPLICABLE"}]
  <2>1. doc.launched \in Seq([iteration: Nat, sha: Nat, verdict: RuntimeOutcomes])
    BY <1>1 DEF Document
  <2>2. Len(doc.launched) \in Nat
    BY <2>1
  <2>3. Latest(doc.launched, doc.iteration) \in Nat
    BY <2>1, <2>2, LatestIs
  <2>4. v \in VisualOutcomes \cup {"NOT_APPLICABLE"}
    BY WorkflowAssumption DEF VisualChoices
  <2> QED BY <1>2, <1>4, <2>3, <2>4
<1>6. PICK w : w = Append(doc.seen, r)
  OBVIOUS
<1>7. w \in Seq([iteration: Nat, sha: Nat, of: Nat, verdict: VisualOutcomes \cup {"NOT_APPLICABLE"}])
  <2>1. doc.seen \in Seq([iteration: Nat, sha: Nat, of: Nat, verdict: VisualOutcomes \cup {"NOT_APPLICABLE"}])
    BY <1>1 DEF Document
  <2> QED BY <2>1, <1>5, <1>6
<1>8. PICK d : d = [doc EXCEPT !.seen = w]
  OBVIOUS
<1>9. /\ d \in Document /\ d.state = doc.state /\ d.isNew = doc.isNew /\ d.provisioned = doc.provisioned
      /\ d.runs = doc.runs /\ d.iteration = doc.iteration /\ d.verified = doc.verified
      /\ d.launched = doc.launched /\ d.seen = w /\ d.delivery = doc.delivery
  BY <1>1, <1>7, <1>8 DEF Document
<1>10. Saves([d EXCEPT !.state = "COUNCIL_REVIEW"])
  BY <1>3, <1>4, <1>6, <1>8 DEF Moves
<1>11. doc' \in Document /\ Alike(d, doc') /\ doc'.state = "COUNCIL_REVIEW"
  BY <1>9, <1>10, SavedIs, StatesAre
<1>12. pc' = "start" /\ UNCHANGED <<tree, queueVars, envVars>>
  BY <1>10 DEF Saves
<1>13. Keeps
  BY <1>1, <1>6, <1>9, <1>11, <1>12, SameRunsIsReflexive, NotingKeeps DEF Alike, Judging
<1> QED BY <1>1, <1>8, <1>11, <1>13

\* A run that is asked for is of the next iteration.
LEMMA RequestingKeeps ==
  ASSUME IInv, pc # "idle", doc.state \in Working, NEW d \in Document, NEW r,
         Alike([doc EXCEPT !.review = r], d), d.state = doc.state, RequestCursorRun(d)
  PROVE  /\ Keeps
         /\ \/ \E retryable \in BOOLEAN : Rejects(retryable)
            \/ /\ doc' \in Document /\ Alike([doc EXCEPT !.review = r, !.iteration = @ + 1], doc')
               /\ doc'.state = "CURSOR_EXECUTING" /\ doc.iteration < MaxIterations
               /\ pc' = "start" /\ UNCHANGED <<tree, queueVars, envVars>>
<1>0. /\ doc \in Document /\ doc.iteration \in 0..MaxIterations /\ doc.iteration \in Nat
      /\ MaxIterations \in Nat
  BY WorkflowAssumption DEF IInv, TypeOK
<1>1. CASE ~CanRequest(d)
  <2>1. Rejects(NeedsProvisioning(d)) /\ NeedsProvisioning(d) \in BOOLEAN
    BY <1>1, <1>0 DEF RequestCursorRun, NeedsProvisioning, Document
  <2> QED BY <2>1, RejectingKeeps
<1>2. CASE CanRequest(d)
  <2>1. /\ d.isNew = doc.isNew /\ d.provisioned = doc.provisioned /\ d.error = doc.error
        /\ d.runs = doc.runs /\ d.iteration = doc.iteration /\ d.verified = doc.verified
        /\ d.launched = doc.launched /\ d.seen = doc.seen /\ d.delivery = doc.delivery
        /\ d.final = doc.final
    BY <1>0 DEF Alike, Document
  <2>2. /\ d.iteration < MaxIterations /\ ~NeedsProvisioning(d)
    BY <1>2 DEF CanRequest
  <2> PICK i \in Nat : i = doc.iteration + 1
    BY <1>0
  <2>3. PICK e : e = [d EXCEPT !.iteration = i]
    OBVIOUS
  <2>4. /\ e \in Document /\ e.isNew = doc.isNew /\ e.provisioned = doc.provisioned /\ e.error = doc.error
        /\ e.runs = doc.runs /\ e.iteration = i /\ e.verified = doc.verified
        /\ e.launched = doc.launched /\ e.seen = doc.seen /\ e.delivery = doc.delivery
        /\ e.final = doc.final /\ e.review = d.review
    BY <1>0, <2>1, <2>3 DEF Document
  <2>5. Saves([e EXCEPT !.state = "CURSOR_EXECUTING"])
    BY <1>2, <2>1, <2>3 DEF RequestCursorRun, Moves
  <2>6. doc' \in Document /\ Alike(e, doc') /\ doc'.state = "CURSOR_EXECUTING"
    BY <2>4, <2>5, SavedIs, StatesAre
  <2>7. pc' = "start" /\ UNCHANGED <<tree, queueVars, envVars>>
    BY <2>5 DEF Saves
  <2>8. SameRuns(doc, doc')
    BY <2>4, <2>6, SameRunsIsReflexive DEF Alike
  <2>9. doc.delivery.version \in Nat
    BY <1>0 DEF Document
  <2>10. EvidenceKept
    BY <1>0, <2>4, <2>6, <2>7, <2>8, <2>9, EvidenceGoesOn DEF Alike
  <2>11. StateIsEarned'
    BY <2>1, <2>2, <2>4, <2>6 DEF StateIsEarned, NeedsProvisioning, Alike, Judging, OwnerTerminal
  <2>12. doc'.iteration \in 0..MaxIterations /\ doc'.state \in Working /\ doc'.delivery = doc.delivery
    BY <1>0, <2>1, <2>2, <2>4, <2>6, WorkingAre DEF Alike
  <2>13. Keeps
    BY <2>6, <2>7, <2>10, <2>11, <2>12, SavingKeeps
  <2>14. Alike([doc EXCEPT !.review = r, !.iteration = @ + 1], doc')
    <3>1. d.review = r
      BY <1>0 DEF Alike, Document
    <3>2. PICK f : f = [doc EXCEPT !.review = r, !.iteration = @ + 1]
      OBVIOUS
    <3>3. Alike(f, e)
      BY <1>0, <2>4, <3>1, <3>2 DEF Alike, Document
    <3> QED BY <2>6, <3>2, <3>3, AlikeIsTransitive
  <2> QED BY <2>1, <2>2, <2>6, <2>7, <2>13, <2>14
<1> QED BY <1>1, <1>2

LEMMA ReviewUnchanged ==
  ASSUME NEW d \in Document
  PROVE  Alike([d EXCEPT !.review = d.review], d)
  BY DEF Document, Alike

\* A request for the saved document.
LEMMA RequestKeeps ==
  ASSUME IInv, pc # "idle", doc.state \in Working, RequestCursorRun(doc)
  PROVE  /\ Keeps
         /\ \/ \E retryable \in BOOLEAN : Rejects(retryable)
            \/ /\ doc' \in Document /\ \E r : Alike([doc EXCEPT !.review = r, !.iteration = @ + 1], doc')
               /\ doc'.state = "CURSOR_EXECUTING" /\ doc.iteration < MaxIterations
               /\ pc' = "start" /\ UNCHANGED <<tree, queueVars, envVars>>
<1>1. doc \in Document /\ Alike([doc EXCEPT !.review = doc.review], doc)
  BY ReviewUnchanged DEF IInv, TypeOK
<1> QED BY <1>1, RequestingKeeps

LEMMA AfterReviewKeeps ==
  ASSUME IInv, AfterReview
  PROVE  /\ Keeps /\ job = "COUNCIL_REVIEW" /\ doc.state \in WorksIn["COUNCIL_REVIEW"]
         /\ \/ \E retryable \in BOOLEAN : Rejects(retryable)
            \/ /\ doc' \in Document /\ \E r : Alike([doc EXCEPT !.review = r, !.iteration = @ + 1], doc')
               /\ doc'.state = "CURSOR_EXECUTING" /\ doc.iteration < MaxIterations
               /\ pc' = "start" /\ UNCHANGED <<tree, queueVars, envVars>>
            \/ /\ doc' \in Document /\ Alike(doc, doc') /\ ~Blocks(VerdictOn(doc.verified, doc.iteration))
               /\ doc.state = "COUNCIL_REVIEW" /\ doc'.state = "FINAL_VERIFICATION"
               /\ pc' = "start" /\ UNCHANGED <<tree, queueVars, envVars>>
<1>1. /\ pc # "idle" /\ doc.state \in Working /\ doc \in Document /\ doc.iteration \in 0..MaxIterations
      /\ job = "COUNCIL_REVIEW" /\ doc.state \in WorksIn["COUNCIL_REVIEW"]
  BY AtIs, StepsAre DEF AfterReview, IInv, TypeOK, Document
<1>2. CASE doc.review[doc.iteration] = "CHANGES_REQUIRED" \/ ReviewOverridden(doc)
  <2>1. PICK r : r = [doc.review EXCEPT ![doc.iteration] = "CHANGES_REQUIRED"]
    OBVIOUS
  <2>2. PICK d : d = [doc EXCEPT !.review = r]
    OBVIOUS
  <2>3. r \in [0..MaxIterations -> Decisions \cup {None}]
    BY <1>1, <2>1 DEF Document, Decisions
  <2>4. d \in Document /\ d.state = doc.state
    BY <1>1, <2>2, <2>3 DEF Document
  <2>5. RequestCursorRun(d)
    BY <1>2, <2>1, <2>2 DEF AfterReview
  <2>6. Alike([doc EXCEPT !.review = r], d)
    BY <2>2, AlikeIsReflexive
  <2> QED BY <1>1, <2>4, <2>5, <2>6, RequestingKeeps
<1>3. CASE ~(doc.review[doc.iteration] = "CHANGES_REQUIRED" \/ ReviewOverridden(doc)) /\ Legal(doc.state, "FINAL_VERIFICATION")
  <2>1. doc.state = "COUNCIL_REVIEW" /\ HasRun(doc) /\ LastRun(doc).done
    BY <1>1, <1>3, LegalIs, WorkingAre DEF IInv, StateIsEarned, Judging, Working
  <2>2. Moves(doc, "FINAL_VERIFICATION") /\ "FINAL_VERIFICATION" \in Working
    BY <1>3, WorkingAre DEF AfterReview
  <2>3. ~Blocks(VerdictOn(doc.verified, doc.iteration))
    BY <1>3 DEF ReviewOverridden
  <2> QED BY <1>1, <2>1, <2>2, <2>3, MovesKeeps DEF Moves, Saves
<1>4. CASE ~(doc.review[doc.iteration] = "CHANGES_REQUIRED" \/ ReviewOverridden(doc)) /\ ~Legal(doc.state, "FINAL_VERIFICATION")
  <2>1. Rejects(FALSE)
    BY <1>4 DEF AfterReview
  <2> QED BY <1>1, <2>1, RejectingKeeps
<1> QED BY <1>2, <1>3, <1>4

LEMMA AfterFinalKeeps ==
  ASSUME IInv, AfterFinal
  PROVE  /\ Keeps /\ job = "FINAL_VERIFICATION"
         /\ \/ \E retryable \in BOOLEAN : Rejects(retryable)
            \/ /\ doc' \in Document /\ \E r : Alike([doc EXCEPT !.review = r, !.iteration = @ + 1], doc')
               /\ doc'.state = "CURSOR_EXECUTING" /\ doc.iteration < MaxIterations
               /\ pc' = "start" /\ UNCHANGED <<tree, queueVars, envVars>>
            \/ /\ doc' \in Document /\ Alike(doc, doc') /\ doc.final.count = Len(doc.runs)
               /\ doc.state = "FINAL_VERIFICATION" /\ doc'.state = "DELIVERY_PREPARATION"
               /\ pc' = "start" /\ UNCHANGED <<tree, queueVars, envVars>>
<1>1. /\ pc # "idle" /\ doc.state \in Working /\ doc \in Document /\ job = "FINAL_VERIFICATION"
  BY AtIs, StepsAre DEF AfterFinal, IInv, TypeOK, Document
<1>2. CASE doc.final.decision = "CHANGES_REQUIRED"
  <2>1. RequestCursorRun(doc)
    BY <1>2 DEF AfterFinal
  <2> QED BY <1>1, <2>1, RequestKeeps
<1>3. CASE doc.final.decision # "CHANGES_REQUIRED" /\ GateOpen(doc) /\ Legal(doc.state, "DELIVERY_PREPARATION")
  <2>1. doc.state = "FINAL_VERIFICATION" /\ HasRun(doc) /\ LastRun(doc).done
    BY <1>1, <1>3, LegalIs, WorkingAre DEF IInv, StateIsEarned, Judging, Working
  <2>2. Moves(doc, "DELIVERY_PREPARATION") /\ "DELIVERY_PREPARATION" \in Working
    BY <1>3, WorkingAre DEF AfterFinal
  <2>3. doc.final.count = Len(doc.runs)
    BY DEF AfterFinal, FinalMatches
  <2> QED BY <1>1, <2>1, <2>2, <2>3, MovesKeeps DEF Moves, Saves
<1>4. CASE doc.final.decision # "CHANGES_REQUIRED" /\ ~(GateOpen(doc) /\ Legal(doc.state, "DELIVERY_PREPARATION"))
  <2>1. Rejects(TRUE) \/ Rejects(FALSE)
    BY <1>4 DEF AfterFinal
  <2> QED BY <1>1, <2>1, RejectingKeeps
<1> QED BY <1>2, <1>3, <1>4

LEMMA BeginReviewKeeps ==
  ASSUME IInv, BeginReview
  PROVE  Keeps /\ (UNCHANGED doc \/ \E retryable \in BOOLEAN : Rejects(retryable))
<1>1. /\ pc # "idle" /\ job = "COUNCIL_REVIEW" /\ doc.state \in WorksIn["COUNCIL_REVIEW"]
  BY AtIs, StepsAre DEF BeginReview, Document
<1>2. CASE HasRun(doc)
  <2>1. Calls("reviewing") /\ "reviewing" \in Pcs
    BY <1>2 DEF BeginReview, Pcs
  <2>2. CallIsOfState'
    BY <1>1, <1>2, <2>1 DEF IInv, CallIsOfState, Calls, queueVars, HasRun
  <2> QED BY <1>1, <2>1, <2>2, CallingKeeps DEF Calls
<1>3. CASE ~HasRun(doc)
  <2>1. Rejects(TRUE)
    BY <1>3 DEF BeginReview
  <2> QED BY <1>1, <2>1, RejectingKeeps
<1> QED BY <1>2, <1>3

-----------------------------------------------------------------------------
(* The runs of Cursor *)

LEMMA StartImplementationKeeps ==
  ASSUME IInv, StartImplementation
  PROVE  /\ Keeps /\ doc.state = "SPECIFICATION_READY"
         /\ \/ \E retryable \in BOOLEAN : Rejects(retryable)
            \/ /\ doc' \in Document /\ \E r : Alike([doc EXCEPT !.review = r, !.iteration = @ + 1], doc')
               /\ doc'.state = "CURSOR_EXECUTING" /\ doc.iteration < MaxIterations
               /\ pc' = "start" /\ UNCHANGED <<tree, queueVars, envVars>>
<1>1. pc # "idle" /\ doc.state \in Working /\ doc.state = "SPECIFICATION_READY"
  BY AtIs, AtState, StatesAre DEF StartImplementation
<1> QED BY <1>1, RequestKeeps DEF StartImplementation

\* A run that is found done has its commit: its checkpoint is saved with its result.
LEMMA ReplayCursorKeeps ==
  ASSUME IInv, ReplayCursor
  PROVE  /\ Keeps /\ doc.state = "CURSOR_EXECUTING" /\ doc'.state = "PLATFORM_VERIFICATION"
         /\ doc' \in Document /\ Alike(doc, doc') /\ HasRun(doc) /\ LastRun(doc).iteration = doc.iteration
<1>1. /\ pc # "idle" /\ doc.state \in Working /\ doc.state = "CURSOR_EXECUTING" /\ doc \in Document
  BY AtIs, AtState, StatesAre DEF ReplayCursor
<1>2. HasRun(doc) /\ LastRun(doc).iteration = doc.iteration /\ (LastRun(doc).done \/ LastRun(doc).sha = tree.head)
  BY DEF ReplayCursor, ReplayableRun
<1>3. Len(doc.runs) \in DOMAIN doc.runs /\ LastRun(doc) \in Run /\ doc.runs \in Seq(Run)
  BY <1>1, <1>2, RunsAre
<1>4. LastRun(doc).done
  <2>1. tree.head # None
    BY WorkflowAssumption DEF IInv, TypeOK
  <2> QED BY <1>2, <1>3, <2>1 DEF IInv, RunsInOrder, LastRun
<1>5. [doc EXCEPT !.runs[Len(doc.runs)].done = TRUE] = doc
  <2>1. PICK run \in Run : run = LastRun(doc)
    BY <1>3
  <2>2. [run EXCEPT !.done = TRUE] = run
    BY <1>4, <2>1 DEF Run
  <2>3. PICK s \in Seq(Run) : s = doc.runs
    BY <1>3
  <2>4. [s EXCEPT ![Len(s)] = run] = s
    BY <1>3, <2>1, <2>3 DEF LastRun
  <2>5. [doc.runs EXCEPT ![Len(doc.runs)].done = TRUE] = doc.runs
    BY <2>1, <2>2, <2>3, <2>4 DEF LastRun
  <2>6. [doc EXCEPT !.runs = doc.runs] = doc
    BY <1>1 DEF Document
  <2> QED BY <2>5, <2>6
<1>6. Moves(doc, "PLATFORM_VERIFICATION")
  BY <1>5 DEF ReplayCursor
<1>7. "PLATFORM_VERIFICATION" \in Working /\ "PLATFORM_VERIFICATION" # "CURSOR_EXECUTING"
  BY WorkingAre
<1> QED BY <1>1, <1>2, <1>4, <1>6, <1>7, MovesKeeps

\* The runs as Cursor starts: the last one is of the iteration and is not done.
LEMMA StartCursorKeeps ==
  ASSUME IInv, StartCursor
  PROVE  /\ Keeps /\ doc.state = "CURSOR_EXECUTING" /\ doc' \in Document /\ doc'.state = doc.state
         /\ doc'.iteration = IF doc.iteration = 0 THEN 1 ELSE doc.iteration
         /\ \E r, i : Alike([doc EXCEPT !.runs = r, !.iteration = i], doc')
         /\ \A k \in DOMAIN doc.runs : /\ k \in DOMAIN doc'.runs
                                       /\ doc'.runs[k] = doc.runs[k]
         /\ HasRun(doc') /\ ~LastRun(doc').done /\ LastRun(doc').iteration = doc'.iteration
<1>1. /\ pc # "idle" /\ doc.state \in Working /\ doc.state = "CURSOR_EXECUTING" /\ doc \in Document
      /\ doc.iteration \in 0..MaxIterations /\ doc.iteration \in Nat
  BY AtIs, AtState, StatesAre, WorkflowAssumption DEF StartCursor, IInv, TypeOK
<1>2. PICK i : i = IF doc.iteration = 0 THEN 1 ELSE doc.iteration
  OBVIOUS
<1>3. i \in 1..MaxIterations /\ i \in Nat /\ doc.iteration <= i
  BY <1>1, <1>2, WorkflowAssumption
<1>4. PICK s : s = StartedRuns(doc, i)
  OBVIOUS
<1>5. PICK r \in Seq(Run) : r = doc.runs
  BY <1>1, RunsAre
<1>6. /\ Len(r) \in Nat /\ DOMAIN r = 1..Len(r) /\ (\A k \in DOMAIN r : r[k] \in Run)
      /\ HasRun(doc) <=> Len(r) > 0
      /\ HasRun(doc) => Len(r) \in DOMAIN r /\ LastRun(doc) = r[Len(r)]
  BY <1>1, <1>5, RunsAre DEF LastRun
<1>7. /\ \A k \in DOMAIN r : /\ r[k].iteration \in 1..doc.iteration
                             /\ r[k].done <=> r[k].sha # None
      /\ \A k, l \in DOMAIN r : k < l => r[k].iteration < r[l].iteration
  BY <1>5 DEF IInv, RunsInOrder
<1>8. PICK new : new = [iteration |-> i, done |-> FALSE, sha |-> None, favourable |-> FALSE]
  OBVIOUS
<1>9. new \in Run /\ new.iteration = i /\ ~new.done /\ new.sha = None
  BY <1>3, <1>8 DEF Run
<1>10. \/ HasRun(doc) /\ LastRun(doc).iteration = i /\ ~LastRun(doc).done /\ s = r
       \/ s = Append(r, new) /\ (HasRun(doc) => LastRun(doc).iteration # i)
  <2>1. CASE HasRun(doc) /\ LastRun(doc).iteration = i /\ ~LastRun(doc).done
    BY <2>1, <1>4, <1>5 DEF StartedRuns
  <2>2. CASE ~(HasRun(doc) /\ LastRun(doc).iteration = i /\ ~LastRun(doc).done)
    <3>1. s = Append(r, new)
      BY <2>2, <1>4, <1>5, <1>8 DEF StartedRuns
    <3>2. HasRun(doc) => doc.iteration > 0
      BY <1>1, <1>6, <1>7
    <3>3. HasRun(doc) => i = doc.iteration
      BY <1>2, <3>2
    <3>4. ~(HasRun(doc) /\ LastRun(doc).iteration = i /\ LastRun(doc).done)
      BY <3>3 DEF StartCursor, ReplayableRun
    <3> QED BY <2>2, <3>1, <3>4
  <2> QED BY <2>1, <2>2
<1>11. /\ s \in Seq(Run) /\ Len(s) \in Nat /\ Len(s) > 0 /\ DOMAIN s = 1..Len(s)
       /\ Len(r) <= Len(s) /\ \A k \in DOMAIN r : s[k] = r[k]
       /\ s[Len(s)].iteration = i /\ ~s[Len(s)].done /\ s[Len(s)].sha = None
       /\ Len(s) \in DOMAIN r \/ Len(s) = Len(r) + 1
  <2>1. CASE HasRun(doc) /\ LastRun(doc).iteration = i /\ ~LastRun(doc).done /\ s = r
    <3>1. /\ Len(r) \in DOMAIN r /\ r[Len(r)].iteration = i /\ ~r[Len(r)].done
      BY <2>1, <1>6
    <3>2. r[Len(r)].sha = None
      BY <3>1, <1>7
    <3>3. r \in Seq(Run) /\ s = r /\ Len(r) > 0
      BY <2>1, <1>6
    <3>4. /\ Len(s) \in Nat /\ Len(s) > 0 /\ DOMAIN s = 1..Len(s) /\ Len(r) <= Len(s)
          /\ s \in Seq(Run) /\ Len(s) \in DOMAIN r
      BY <3>1, <3>3, <1>6
    <3>5. /\ s[Len(s)].iteration = i /\ ~s[Len(s)].done /\ s[Len(s)].sha = None
      BY <3>1, <3>2, <3>3
    <3> QED BY <3>3, <3>4, <3>5
  <2>2. CASE s = Append(r, new)
    <3>1. /\ Append(r, new) \in Seq(Run) /\ Len(Append(r, new)) = Len(r) + 1
          /\ DOMAIN Append(r, new) = 1..Len(r) + 1
          /\ \A k \in DOMAIN r : Append(r, new)[k] = r[k]
          /\ Append(r, new)[Len(r) + 1] = new
      BY <1>9
    <3> QED BY <2>2, <3>1, <1>6, <1>9
  <2> QED BY <2>1, <2>2, <1>10
<1>12. /\ \A k \in DOMAIN s : s[k].iteration \in 1..i /\ (s[k].done <=> s[k].sha # None)
       /\ \A k, l \in DOMAIN s : k < l => s[k].iteration < s[l].iteration
  <2>1. CASE HasRun(doc) /\ s = r
    BY <2>1, <1>1, <1>3, <1>7
  <2>2. CASE s = Append(r, new) /\ (HasRun(doc) => LastRun(doc).iteration # i)
    <3>1. Len(s) = Len(r) + 1
      BY <2>2, <1>9
    <3>2. \A k \in DOMAIN s : k \in DOMAIN r \/ k = Len(s)
      BY <3>1, <1>6, <1>11
    <3>3. \A k \in DOMAIN r : r[k].iteration < i
      <4>1. ASSUME NEW k \in DOMAIN r PROVE r[k].iteration < i
        <5>1. r[Len(r)].iteration # i /\ r[Len(r)].iteration \in 1..doc.iteration
          BY <2>2, <1>6, <1>7
        <5>2. r[Len(r)].iteration < i
          BY <5>1, <1>1, <1>3
        <5>3. k = Len(r) \/ r[k].iteration < r[Len(r)].iteration
          BY <1>6, <1>7
        <5>4. r[k].iteration \in Nat /\ r[Len(r)].iteration \in Nat
          BY <1>6 DEF Run
        <5> QED BY <5>2, <5>3, <5>4, <1>3
      <4> QED BY <4>1
    <3>4. \A k \in DOMAIN s : s[k].iteration \in 1..i /\ (s[k].done <=> s[k].sha # None)
      <4>1. ASSUME NEW k \in DOMAIN r PROVE s[k].iteration \in 1..i /\ (s[k].done <=> s[k].sha # None)
        <5>1. s[k] = r[k] /\ r[k].iteration \in 1..doc.iteration
          BY <1>7, <1>11
        <5>2. r[k].iteration \in 1..i
          BY <5>1, <1>1, <1>3
        <5> QED BY <5>1, <5>2, <1>7
      <4>2. s[Len(s)].iteration \in 1..i /\ (s[Len(s)].done <=> s[Len(s)].sha # None)
        <5>1. s[Len(s)].iteration = i /\ ~s[Len(s)].done /\ s[Len(s)].sha = None
          BY <1>11
        <5>2. i \in 1..i
          BY <1>3
        <5> QED BY <5>1, <5>2
      <4> QED BY <3>2, <4>1, <4>2
    <3>5. ASSUME NEW k \in DOMAIN s, NEW l \in DOMAIN s, k < l PROVE s[k].iteration < s[l].iteration
      <4>1. k \in DOMAIN r
        BY <3>1, <3>5, <1>6, <1>11
      <4> QED BY <4>1, <3>2, <3>3, <3>5, <1>7, <1>11
    <3> QED BY <3>4, <3>5
  <2> QED BY <2>1, <2>2, <1>10
<1>13. PICK d : d = [doc EXCEPT !.iteration = i, !.runs = s]
  OBVIOUS
<1> PICK c : c = [doc EXCEPT !.iteration = i]
  OBVIOUS
<1>a. /\ c \in Document /\ c.iteration = i /\ c.runs = doc.runs /\ c.state = doc.state /\ c.isNew = doc.isNew
      /\ c.provisioned = doc.provisioned /\ c.error = doc.error /\ c.verified = doc.verified
      /\ c.launched = doc.launched /\ c.seen = doc.seen
      /\ c.review = doc.review /\ c.final = doc.final /\ c.delivery = doc.delivery
  <2>1. doc \in Document /\ i \in Nat
    BY <1>1, <1>3
  <2> QED BY <2>1 DEF Document
<1>b. d = [c EXCEPT !.runs = s]
  BY <1>1, <1>13 DEF Document
<1>14. /\ d \in Document /\ d.iteration = i /\ d.runs = s /\ d.state = doc.state /\ d.isNew = doc.isNew
       /\ d.provisioned = doc.provisioned /\ d.error = doc.error /\ d.verified = doc.verified
       /\ d.launched = doc.launched /\ d.seen = doc.seen
       /\ d.review = doc.review /\ d.final = doc.final /\ d.delivery = doc.delivery
  <2>1. d \in Document /\ d.runs = s /\ SameButRuns(c, d)
    BY <1>a, <1>b, <1>11, RunsReplacedIs
  <2> QED BY <1>a, <2>1 DEF SameButRuns
<1>15. doc' = Stored(d)
  BY <1>2, <1>4, <1>13 DEF StartCursor
<1>16. doc' \in Document /\ Alike(d, doc') /\ doc'.state = doc.state
  BY <1>14, <1>15, StoredIs
<1>17. doc'.runs = s /\ doc'.iteration = i /\ pc' = "cursor" /\ UNCHANGED <<tree, queueVars, envVars>>
  BY <1>14, <1>16 DEF StartCursor, Alike
<1>18. /\ HasRun(doc') /\ ~LastRun(doc').done /\ LastRun(doc').iteration = doc'.iteration
  BY <1>11, <1>16, <1>17, RunsAre DEF LastRun
<1>19. RunsInOrder' /\ HeadIsLast' /\ RecordsInOrder'
  <2>1. RunsInOrder'
    BY <1>12, <1>17 DEF RunsInOrder
  <2>2. HeadIsLast' /\ RecordsInOrder'
    BY <1>14, <1>16, <1>17, <1>18 DEF HeadIsLast, RecordsInOrder, IInv, Alike
  <2> QED BY <2>1, <2>2
<1>20. \A k \in DOMAIN doc.runs : k \in DOMAIN doc'.runs /\ doc'.runs[k] = doc.runs[k]
  <2>1. ASSUME NEW k \in DOMAIN r PROVE k \in DOMAIN s /\ s[k] = r[k]
    <3>1. k \in 1..Len(r) /\ Len(r) <= Len(s) /\ Len(r) \in Nat /\ Len(s) \in Nat /\ DOMAIN s = 1..Len(s)
      BY <1>6, <1>11
    <3>2. k \in 1..Len(s)
      BY <3>1
    <3> QED BY <3>1, <3>2, <1>11
  <2> QED BY <2>1, <1>5, <1>17
<1>21. HistoryGoesOn
  <2>1. Grows(doc.verified, doc.verified) /\ Grows(doc.launched, doc.launched) /\ Grows(doc.seen, doc.seen)
    BY GrowsAlways, <1>1 DEF Document
  <2>2. doc.delivery.version \in Nat
    BY <1>1 DEF Document
  <2>3. /\ doc'.verified = doc.verified /\ doc'.launched = doc.launched /\ doc'.seen = doc.seen
        /\ doc'.delivery = doc.delivery
    BY <1>14, <1>16 DEF Alike
  <2> QED BY <1>3, <1>17, <1>20, <2>1, <2>2, <2>3 DEF HistoryGoesOn
<1>22. StateIsEarned'
  BY <1>1, <1>14, <1>16 DEF IInv, StateIsEarned, NeedsProvisioning, Alike, Judging, OwnerTerminal
<1>23. doc'.delivery = doc.delivery /\ doc'.iteration \in 0..MaxIterations
  BY <1>3, <1>14, <1>16, <1>17 DEF Alike
<1>24. Keeps
  BY <1>1, <1>16, <1>17, <1>18, <1>19, <1>21, <1>22, <1>23, SavingKeeps DEF EvidenceKept
<1>25. Alike([doc EXCEPT !.runs = s, !.iteration = i], doc')
  <2>1. PICK e : e = [doc EXCEPT !.runs = s, !.iteration = i]
    OBVIOUS
  <2>2. Alike(e, d)
    BY <1>1, <1>14, <2>1 DEF Alike, Document
  <2> QED BY <1>16, <2>1, <2>2, AlikeIsTransitive
<1> QED BY <1>1, <1>2, <1>16, <1>17, <1>18, <1>20, <1>24, <1>25

\* The checkpoint is of the last run, which is not done before it is saved.
LEMMA CheckpointKeeps ==
  ASSUME IInv, Checkpoint
  PROVE  /\ Keeps /\ UNCHANGED doc /\ tree'.head \in {tree.head, tree.head + 1}
         /\ doc.state = "CURSOR_EXECUTING" /\ HasRun(doc)
<1>1. /\ doc.state = "CURSOR_EXECUTING" /\ HasRun(doc) /\ ~LastRun(doc).done /\ job # None
      /\ LastRun(doc).iteration = doc.iteration
  BY DEF Checkpoint, IInv, CallIsOfState
<1>2. UNCHANGED <<doc, job, attempts, call, listed, faults, resumes>> /\ pc' = "committed"
  BY DEF Checkpoint, queueVars, envVars
<1>3. tree' \in [head: Nat, dirty: BOOLEAN] /\ tree'.head >= tree.head /\ tree.head \in Nat
      /\ tree'.head \in {tree.head, tree.head + 1}
  <2>1. tree \in [head: Nat, dirty: BOOLEAN] /\ tree.head \in Nat
    BY DEF IInv, TypeOK
  <2>2. CASE tree.dirty
    BY <2>1, <2>2 DEF Checkpoint
  <2>3. CASE ~tree.dirty
    BY <2>1, <2>3 DEF Checkpoint
  <2> QED BY <2>2, <2>3
<1>4. TypeOK' /\ CommandGoesOn'
  BY <1>2, <1>3 DEF IInv, TypeOK, Pcs, CommandGoesOn
<1>5. CallIsOfState'
  BY <1>1, <1>2 DEF CallIsOfState, HasRun, LastRun
<1>6. RunsInOrder' /\ HeadIsLast' /\ StateIsEarned' /\ DeliveryIsKept' /\ ReadyIsFresh'
  BY <1>1, <1>2 DEF IInv, RunsInOrder, HeadIsLast, StateIsEarned, DeliveryIsKept, ReadyIsFresh,
                    HasRun, LastRun, NeedsProvisioning, OwnerTerminal
<1>7. RecordsInOrder'
  <2>1. \A k \in DOMAIN doc.verified : doc.verified[k].sha \in Nat
    <3>1. PICK s \in Seq([iteration: Nat, sha: Nat, verdict: PlatformOutcomes]) : s = doc.verified
      BY DEF IInv, TypeOK, Document
    <3>2. \A k \in DOMAIN s : s[k] \in [iteration: Nat, sha: Nat, verdict: PlatformOutcomes]
      BY ElementsAre
    <3> QED BY <3>1, <3>2
  <2> QED BY <1>2, <1>3, <2>1 DEF IInv, RecordsInOrder
<1>8. HistoryGoesOn
  <2>1. Grows(doc.verified, doc.verified) /\ Grows(doc.launched, doc.launched) /\ Grows(doc.seen, doc.seen)
    BY GrowsAlways DEF IInv, TypeOK, Document
  <2>2. doc.iteration \in Nat /\ doc.delivery.version \in Nat
    BY DEF IInv, TypeOK, Document
  <2> QED BY <1>2, <2>1, <2>2 DEF HistoryGoesOn
<1>9. NothingStrands
  BY <1>1, <1>2 DEF NothingStrands, Stranded
<1> QED BY <1>1, <1>2, <1>3, <1>4, <1>5, <1>6, <1>7, <1>8, <1>9 DEF Keeps, IInv

LEMMA SaveCursorResultKeeps ==
  ASSUME IInv, SaveCursorResult
  PROVE  /\ Keeps /\ doc.state = "CURSOR_EXECUTING" /\ doc' \in Document /\ doc'.state = doc.state
         /\ \E r : Alike([doc EXCEPT !.runs = r], doc')
         /\ Len(doc'.runs) = Len(doc.runs)
         /\ \A k \in DOMAIN doc.runs : doc.runs[k].done => doc'.runs[k] = doc.runs[k]
<1>1. /\ doc.state = "CURSOR_EXECUTING" /\ HasRun(doc) /\ ~LastRun(doc).done /\ pc # "idle"
      /\ doc \in Document /\ doc.iteration \in Nat /\ tree.head \in Nat /\ doc.state \in Working
      /\ doc.iteration \in 0..MaxIterations
  BY WorkingAre DEF SaveCursorResult, IInv, CallIsOfState, TypeOK, Document
<1>2. PICK run : run = FinishedRun(LastRun(doc))
  OBVIOUS
<1>3. /\ run \in Run /\ run.iteration = LastRun(doc).iteration /\ run.done = TRUE /\ run.sha = tree.head
  BY <1>1, <1>2, RunsAre DEF FinishedRun, Run
<1>4. PICK s : s = [doc.runs EXCEPT ![Len(doc.runs)] = run]
  OBVIOUS
<1>5. /\ s \in Seq(Run) /\ Len(s) = Len(doc.runs) /\ DOMAIN s = DOMAIN doc.runs
      /\ \A k \in DOMAIN doc.runs : s[k] = IF k = Len(doc.runs) THEN run ELSE doc.runs[k]
  BY <1>1, <1>3, <1>4, RunChangedIs
<1>6. PICK d : d = [doc EXCEPT !.runs = s]
  OBVIOUS
<1>7. /\ d \in Document /\ d.runs = s /\ d.state = doc.state /\ d.isNew = doc.isNew
      /\ d.provisioned = doc.provisioned /\ d.error = doc.error /\ d.iteration = doc.iteration
      /\ d.verified = doc.verified /\ d.launched = doc.launched /\ d.seen = doc.seen
      /\ d.review = doc.review /\ d.final = doc.final /\ d.delivery = doc.delivery
  <2>1. d \in Document /\ d.runs = s /\ SameButRuns(doc, d)
    BY <1>1, <1>5, <1>6, RunsReplacedIs
  <2> QED BY <2>1 DEF SameButRuns
<1>8. Saves(d)
  BY <1>2, <1>4, <1>6 DEF SaveCursorResult, LastRun
<1>9. doc' \in Document /\ Alike(d, doc') /\ doc'.state = doc.state
  BY <1>7, <1>8, StoredIs DEF Saves
<1>10. /\ doc'.runs = s /\ doc'.iteration = doc.iteration /\ pc' = "start"
       /\ UNCHANGED <<tree, queueVars, envVars>>
  BY <1>7, <1>8, <1>9 DEF Saves, Alike
<1>11. DOMAIN doc.runs = 1..Len(doc.runs) /\ Len(doc.runs) \in DOMAIN doc.runs /\ doc.runs[Len(doc.runs)] = LastRun(doc)
       /\ tree.head # None
  <2>1. DOMAIN doc.runs = 1..Len(doc.runs) /\ Len(doc.runs) \in DOMAIN doc.runs
    BY <1>1, RunsAre
  <2>2. doc.runs[Len(doc.runs)] = LastRun(doc)
    BY DEF LastRun
  <2>3. tree.head # None
    BY <1>1, WorkflowAssumption
  <2> QED BY <2>1, <2>2, <2>3
<1>12. RunsInOrder'
  <2>1. RunsInOrder /\ DOMAIN doc'.runs = DOMAIN doc.runs
    BY <1>5, <1>10 DEF IInv
  <2>2. \A k \in DOMAIN doc.runs : /\ doc'.runs[k].iteration = doc.runs[k].iteration
                                   /\ doc'.runs[k].done <=> doc'.runs[k].sha # None
    <3>1. TAKE k \in DOMAIN doc.runs
    <3>2. CASE k = Len(doc.runs)
      BY <3>2, <1>3, <1>5, <1>10, <1>11
    <3>3. CASE k # Len(doc.runs)
      BY <3>3, <2>1, <1>5, <1>10 DEF RunsInOrder
    <3> QED BY <3>2, <3>3
  <2> QED BY <2>1, <2>2, <1>10 DEF RunsInOrder
<1>13. HeadIsLast' /\ RecordsInOrder'
  <2>1. HeadIsLast'
    BY <1>3, <1>5, <1>10, <1>11 DEF HeadIsLast, LastRun, HasRun
  <2>2. RecordsInOrder'
    BY <1>7, <1>9, <1>10 DEF IInv, RecordsInOrder, Alike
  <2> QED BY <2>1, <2>2
<1>14. \A k \in DOMAIN doc.runs : doc.runs[k].done => doc'.runs[k] = doc.runs[k]
  BY <1>1, <1>5, <1>10, <1>11
<1>15. HistoryGoesOn
  <2>1. Grows(doc.verified, doc.verified) /\ Grows(doc.launched, doc.launched) /\ Grows(doc.seen, doc.seen)
    BY GrowsAlways, <1>1 DEF Document
  <2>2. doc.delivery.version \in Nat
    BY <1>1 DEF Document
  <2>3. /\ doc'.verified = doc.verified /\ doc'.launched = doc.launched /\ doc'.seen = doc.seen
        /\ doc'.delivery = doc.delivery
    BY <1>7, <1>9 DEF Alike
  <2> QED BY <1>1, <1>5, <1>10, <1>14, <2>1, <2>2, <2>3 DEF HistoryGoesOn
<1>16. StateIsEarned'
  BY <1>1, <1>7, <1>9 DEF IInv, StateIsEarned, NeedsProvisioning, Alike, Judging, OwnerTerminal
<1>17. doc'.delivery = doc.delivery
  BY <1>7, <1>9 DEF Alike
<1>18. Keeps
  BY <1>1, <1>9, <1>10, <1>12, <1>13, <1>15, <1>16, <1>17, SavingKeeps DEF EvidenceKept
<1> QED BY <1>1, <1>5, <1>6, <1>9, <1>10, <1>14, <1>18

-----------------------------------------------------------------------------
(* The delivery *)

LEMMA KeyIs ==
  ASSUME NEW d \in Document, LastRun(d).sha \in Nat
  PROVE  KeyOf(d) \in Key
<1>1. d.verified \in Seq([iteration: Nat, sha: Nat, verdict: PlatformOutcomes])
  BY DEF Document
<1>2. d.launched \in Seq([iteration: Nat, sha: Nat, verdict: RuntimeOutcomes])
  BY DEF Document
<1>3. d.seen \in Seq([iteration: Nat, sha: Nat, of: Nat, verdict: VisualOutcomes \cup {"NOT_APPLICABLE"}])
  BY DEF Document
<1>4. ASSUME NEW R, NEW s \in Seq(R), NEW i PROVE Latest(s, i) \in Nat
  BY LatestIs, ElementsAre
<1>5. \A i : Latest(d.verified, i) \in Nat /\ Latest(d.launched, i) \in Nat /\ Latest(d.seen, i) \in Nat
  BY <1>1, <1>2, <1>3, <1>4
<1> QED BY <1>5 DEF KeyOf, Key

\* A delivery that is prepared is of the present evidence.
LEMMA PreparedIs ==
  ASSUME NEW d \in Document, LastRun(d).sha \in Nat, NEW status \in {"PREPARING", "READY"}
  PROVE  /\ [d EXCEPT !.delivery = Prepared(d, status)] \in Document
         /\ Prepared(d, status).key = KeyOf(d)
         /\ Prepared(d, status).version >= d.delivery.version
         /\ Prepared(d, status).status \in {status, "READY"}
         /\ Prepared(d, status).decided => d.delivery.key = KeyOf(d) /\ d.delivery.decided
<1>1. PICK D : D = [version: Nat, key: Key \cup {None},
                    status: DeliveryStatuses \cup {None}, decided: BOOLEAN]
  OBVIOUS
<1>2. d.delivery \in D /\ d.delivery.version \in Nat /\ KeyOf(d) \in Key
  BY <1>1, KeyIs DEF Document
<1>3. PICK p : p = Prepared(d, status)
  OBVIOUS
<1>4. /\ p \in D /\ p.key = KeyOf(d) /\ p.version >= d.delivery.version /\ p.status \in {status, "READY"}
      /\ p.decided => d.delivery.key = KeyOf(d) /\ d.delivery.decided
  <2>1. CASE d.delivery.key # KeyOf(d)
    <3>1. p = [version |-> d.delivery.version + 1, key |-> KeyOf(d), status |-> status, decided |-> FALSE]
      BY <2>1, <1>3 DEF Prepared
    <3> QED BY <3>1, <1>1, <1>2 DEF DeliveryStatuses
  <2>2. CASE d.delivery.key = KeyOf(d) /\ d.delivery.status = "READY"
    BY <2>2, <1>2, <1>3 DEF Prepared
  <2>3. CASE d.delivery.key = KeyOf(d) /\ d.delivery.status # "READY"
    <3>1. p = [d.delivery EXCEPT !.status = status]
      BY <2>3, <1>3 DEF Prepared
    <3>2. p \in D /\ p.key = d.delivery.key /\ p.version = d.delivery.version /\ p.status = status
          /\ p.decided = d.delivery.decided
      BY <3>1, <1>1, <1>2 DEF DeliveryStatuses
    <3> QED BY <2>3, <3>2, <1>2
  <2> QED BY <2>1, <2>2, <2>3
<1>5. [d EXCEPT !.delivery = p] \in Document
  BY <1>1, <1>4 DEF Document
<1> QED BY <1>3, <1>4, <1>5

\* The evidence that the lineage and the gate let through.
EvidenceIsFresh ==
  /\ LastRun(doc).done
  /\ Fresh(doc.verified)
  /\ doc.launched # <<>> => Fresh(doc.launched)
  /\ doc.seen # <<>> => Fresh(doc.seen)
  /\ doc.final.decision = "COMPLETE"
  /\ doc.review[LastRun(doc).iteration] = "COMPLETE"

LEMMA GateIsFresh ==
  ASSUME doc \in Document, LineageValid(doc), GateOpen(doc)
  PROVE  EvidenceIsFresh /\ HasRun(doc)
<1>1. doc.verified \in Seq([iteration: Nat, sha: Nat, verdict: PlatformOutcomes])
  BY DEF Document
<1>2. doc.launched \in Seq([iteration: Nat, sha: Nat, verdict: RuntimeOutcomes])
  BY DEF Document
<1>3. doc.seen \in Seq([iteration: Nat, sha: Nat, of: Nat, verdict: VisualOutcomes \cup {"NOT_APPLICABLE"}])
  BY DEF Document
<1>4. ASSUME NEW R, NEW s \in Seq(R), NEW i, s # <<>> PROVE Latest(s, i) > 0
  BY <1>4, LatestIs, ElementsAre
<1>5. \A i : /\ doc.verified # <<>> => Latest(doc.verified, i) > 0
             /\ doc.launched # <<>> => Latest(doc.launched, i) > 0
             /\ doc.seen # <<>> => Latest(doc.seen, i) > 0
  BY <1>1, <1>2, <1>3, <1>4
<1> QED BY <1>5 DEF EvidenceIsFresh, LineageValid, GateOpen, Fresh, FinalSha

\* The evidence of a document, which a delivery leaves as it is.
SameEvidence(d, e) ==
  /\ e.isNew = d.isNew /\ e.provisioned = d.provisioned
  /\ e.iteration = d.iteration /\ e.runs = d.runs
  /\ e.verified = d.verified /\ e.launched = d.launched /\ e.seen = d.seen
  /\ e.review = d.review /\ e.final = d.final

LEMMA SameEvidenceKeeps ==
  ASSUME IInv, doc' \in Document, SameEvidence(doc, doc'), tree'.head = tree.head,
         doc'.delivery.version >= doc.delivery.version
  PROVE  /\ RunsInOrder' /\ HeadIsLast' /\ RecordsInOrder' /\ HistoryGoesOn
         /\ HasRun(doc') = HasRun(doc) /\ LastRun(doc') = LastRun(doc) /\ KeyOf(doc') = KeyOf(doc)
         /\ EvidenceIsFresh => EvidenceIsFresh'
<1>1. RunsInOrder' /\ HeadIsLast' /\ RecordsInOrder'
  BY DEF IInv, RunsInOrder, HeadIsLast, RecordsInOrder, HasRun, LastRun, SameEvidence
<1>2. Grows(doc.verified, doc.verified) /\ Grows(doc.launched, doc.launched) /\ Grows(doc.seen, doc.seen)
  BY GrowsAlways DEF IInv, TypeOK, Document
<1>3. doc.iteration \in Nat
  BY DEF IInv, TypeOK
<1>4. HistoryGoesOn
  BY <1>2, <1>3 DEF HistoryGoesOn, SameEvidence
<1>5. HasRun(doc') = HasRun(doc) /\ LastRun(doc') = LastRun(doc) /\ KeyOf(doc') = KeyOf(doc)
  BY DEF HasRun, LastRun, KeyOf, SameEvidence
<1>6. EvidenceIsFresh => EvidenceIsFresh'
  BY DEF EvidenceIsFresh, Fresh, FinalSha, LastRun, SameEvidence
<1> QED BY <1>1, <1>4, <1>5, <1>6

\* A step at a delivery, of a worker or of a booting process.
LEMMA DeliveringKeeps ==
  ASSUME IInv, doc.state = "DELIVERY_PREPARATION", doc' \in Document, SameEvidence(doc, doc'),
         doc'.delivery.version >= doc.delivery.version,
         doc'.delivery = doc.delivery \/ doc'.delivery.status \in {"PREPARING", "READY"},
         \/ doc'.state = "DELIVERY_PREPARATION"
         \/ /\ doc'.state = "READY_FOR_OWNER_REVIEW"
            /\ LineageValid(doc) /\ GateOpen(doc) /\ doc'.delivery.key = KeyOf(doc),
         UNCHANGED <<tree, queueVars, call, listed, resumes>>, faults' \in 0..MaxFaults,
         pc' \in {"idle", "start"}, pc' # "idle" => job # None
  PROVE  Keeps
<1>1. TypeOK'
  BY DEF IInv, TypeOK, Pcs, queueVars, SameEvidence
<1>2. /\ RunsInOrder' /\ HeadIsLast' /\ RecordsInOrder' /\ HistoryGoesOn
      /\ HasRun(doc') = HasRun(doc) /\ LastRun(doc') = LastRun(doc) /\ KeyOf(doc') = KeyOf(doc)
      /\ EvidenceIsFresh => EvidenceIsFresh'
  BY SameEvidenceKeeps
<1>3. StateIsEarned'
  BY <1>2 DEF IInv, StateIsEarned, Judging, OwnerTerminal
<1>4. CallIsOfState' /\ CommandGoesOn'
  BY WorkingAre DEF CallIsOfState, IInv, CommandGoesOn, queueVars
<1>5. DeliveryIsKept'
  BY NoneAssumption DEF IInv, DeliveryIsKept, DeliveryStatuses
<1>6. ReadyIsFresh'
  BY <1>2, GateIsFresh DEF IInv, TypeOK, ReadyIsFresh, EvidenceIsFresh, OwnerTerminal
<1>7. NothingStrands
  BY WorkingAre DEF NothingStrands, Stranded, queueVars
<1> QED BY <1>1, <1>2, <1>3, <1>4, <1>5, <1>6, <1>7 DEF Keeps, IInv

\* The delivery that is prepared is of a run that is done.
LEMMA OfferIs ==
  ASSUME IInv, doc.state = "DELIVERY_PREPARATION", NEW status \in {"PREPARING", "READY"}
  PROVE  LET e == [doc EXCEPT !.delivery = Prepared(doc, status)]
         IN  /\ e \in Document /\ SameEvidence(doc, e) /\ e.state = doc.state /\ e.error = doc.error
             /\ e.delivery = Prepared(doc, status)
             /\ e.delivery.key = KeyOf(doc) /\ e.delivery.version >= doc.delivery.version
             /\ e.delivery.status \in {"PREPARING", "READY"}
<1>1. doc \in Document /\ tree.head \in Nat
  BY DEF IInv, TypeOK
<1>2. LastRun(doc).sha \in Nat
  BY <1>1 DEF IInv, StateIsEarned, Judging, HeadIsLast
<1>3. PICK p : p = Prepared(doc, status)
  OBVIOUS
<1>4. /\ [doc EXCEPT !.delivery = p] \in Document /\ p.key = KeyOf(doc)
      /\ p.version >= doc.delivery.version /\ p.status \in {"PREPARING", "READY"}
  BY <1>1, <1>2, <1>3, PreparedIs
<1>5. PICK e : e = [doc EXCEPT !.delivery = p]
  OBVIOUS
<1>6. SameEvidence(doc, e) /\ e.state = doc.state /\ e.delivery = p /\ e.error = doc.error
  BY <1>1, <1>5 DEF SameEvidence, Document
<1> QED BY <1>3, <1>4, <1>5, <1>6

\* What a delivery leaves behind, whole or not.
Delivers ==
  /\ doc' \in Document /\ SameEvidence(doc, doc')
  /\ doc'.delivery.version >= doc.delivery.version
  /\ \/ doc'.delivery = doc.delivery
     \/ \E status \in {"PREPARING", "READY"} : doc'.delivery = Prepared(doc, status)
  /\ doc'.delivery = doc.delivery \/ doc'.delivery.status \in {"PREPARING", "READY"}
  /\ \/ doc'.state = "DELIVERY_PREPARATION"
     \/ /\ doc'.state = "READY_FOR_OWNER_REVIEW"
        /\ LineageValid(doc) /\ GateOpen(doc) /\ doc'.delivery.key = KeyOf(doc)
        /\ doc'.delivery = Prepared(doc, "READY") /\ ~Refused(doc)

LEMMA HalfDeliveredIs ==
  ASSUME IInv, doc.state = "DELIVERY_PREPARATION", NEW d \in HalfDelivered(doc)
  PROVE  /\ d \in Document /\ SameEvidence(doc, d)
         /\ d.delivery.version >= doc.delivery.version
         /\ \/ d.delivery = doc.delivery
            \/ \E status \in {"PREPARING", "READY"} : d.delivery = Prepared(doc, status)
         /\ d.delivery = doc.delivery \/ d.delivery.status \in {"PREPARING", "READY"}
         /\ \/ d.state = "DELIVERY_PREPARATION"
            \/ d = Offered(doc) /\ LineageValid(doc) /\ GateOpen(doc) /\ ~Refused(doc)
<1>1. CASE d = doc
  BY <1>1 DEF IInv, TypeOK, Document, SameEvidence
<1>2. CASE \E status \in {"PREPARING", "READY"} : d = [doc EXCEPT !.delivery = Prepared(doc, status)]
  BY <1>2, OfferIs
<1>3. CASE d = Offered(doc) /\ LineageValid(doc) /\ GateOpen(doc) /\ ~Refused(doc)
  <2>1. PICK e : e = [doc EXCEPT !.delivery = Prepared(doc, "READY")]
    OBVIOUS
  <2>2. /\ e \in Document /\ SameEvidence(doc, e) /\ e.delivery = Prepared(doc, "READY")
        /\ e.delivery.key = KeyOf(doc) /\ e.delivery.version >= doc.delivery.version
        /\ e.delivery.status \in {"PREPARING", "READY"}
    BY <2>1, OfferIs
  <2>3. d = [e EXCEPT !.state = "READY_FOR_OWNER_REVIEW"]
    BY <1>3, <2>1 DEF Offered, IInv, TypeOK, Document
  <2>4. d \in Document /\ Alike(e, d)
    BY <2>2, <2>3, MovedIs, StatesAre
  <2> QED BY <1>3, <2>2, <2>4 DEF Alike, SameEvidence
<1>4. \/ d = doc
      \/ \E status \in {"PREPARING", "READY"} : d = [doc EXCEPT !.delivery = Prepared(doc, status)]
      \/ d = Offered(doc) /\ LineageValid(doc) /\ GateOpen(doc) /\ ~Refused(doc)
  <2>1. CASE ~LineageValid(doc)
    BY <2>1 DEF HalfDelivered
  <2>2. CASE LineageValid(doc) /\ ~GateOpen(doc)
    BY <2>2 DEF HalfDelivered
  <2>3. CASE LineageValid(doc) /\ GateOpen(doc)
    BY <2>3 DEF HalfDelivered
  <2> QED BY <2>1, <2>2, <2>3
<1> QED BY <1>1, <1>2, <1>3, <1>4

LEMMA OfferedIs ==
  ASSUME IInv, doc.state = "DELIVERY_PREPARATION", LineageValid(doc), GateOpen(doc), ~Refused(doc),
         NEW d, Alike(Offered(doc), d), d.state = Offered(doc).state, d \in Document
  PROVE  /\ SameEvidence(doc, d) /\ d.error = doc.error
         /\ d.delivery.version >= doc.delivery.version
         /\ d.delivery = Prepared(doc, "READY") /\ d.delivery.status \in {"PREPARING", "READY"}
         /\ d.state = "READY_FOR_OWNER_REVIEW" /\ d.delivery.key = KeyOf(doc)
<1>1. PICK e : e = [doc EXCEPT !.delivery = Prepared(doc, "READY")]
  OBVIOUS
<1>2. /\ e \in Document /\ SameEvidence(doc, e) /\ e.delivery = Prepared(doc, "READY") /\ e.error = doc.error
      /\ e.delivery.key = KeyOf(doc) /\ e.delivery.version >= doc.delivery.version
      /\ e.delivery.status \in {"PREPARING", "READY"}
  BY <1>1, OfferIs
<1>3. Offered(doc) = [e EXCEPT !.state = "READY_FOR_OWNER_REVIEW"]
  BY <1>1 DEF Offered, IInv, TypeOK, Document
<1>4. Alike(e, Offered(doc)) /\ Offered(doc).state = "READY_FOR_OWNER_REVIEW" /\ Offered(doc) \in Document
  <2>1. PICK o : o = Offered(doc)
    OBVIOUS
  <2>2. o = [e EXCEPT !.state = "READY_FOR_OWNER_REVIEW"]
    BY <1>3, <2>1
  <2>3. Alike(e, o) /\ o.state = "READY_FOR_OWNER_REVIEW" /\ o \in Document
    BY <1>2, <2>2, MovedIs, StatesAre
  <2> QED BY <2>1, <2>3
<1>5. Alike(e, d)
  BY <1>4, AlikeIsTransitive
<1> QED BY <1>2, <1>4, <1>5 DEF Alike, SameEvidence

LEMMA DeliverKeeps ==
  ASSUME IInv, Deliver
  PROVE  /\ Keeps /\ doc.state = "DELIVERY_PREPARATION"
         /\ \/ \E retryable \in BOOLEAN : Rejects(retryable)
            \/ /\ Delivers /\ doc'.error = doc.error /\ doc'.state = "READY_FOR_OWNER_REVIEW"
               /\ pc' = "start" /\ UNCHANGED <<tree, queueVars, envVars>>
<1>1. /\ pc # "idle" /\ doc.state = "DELIVERY_PREPARATION" /\ doc \in Document
  BY AtIs, AtState, StatesAre DEF Deliver
<1>2. CASE ~LineageValid(doc) \/ ~GateOpen(doc) \/ Refused(doc)
  <2>1. Rejects(TRUE) \/ Rejects(FALSE)
    BY <1>2 DEF Deliver
  <2> QED BY <1>1, <2>1, RejectingKeeps
<1>3. CASE LineageValid(doc) /\ GateOpen(doc) /\ ~Refused(doc)
  <2>1. doc' = Stored(Offered(doc)) /\ pc' = "start" /\ UNCHANGED <<tree, queueVars, envVars>>
    BY <1>3 DEF Deliver, Saves
  <2>2. Offered(doc) \in Document
    <3>1. Offered(doc) \in HalfDelivered(doc)
      BY <1>3 DEF HalfDelivered
    <3> QED BY <1>1, <3>1, HalfDeliveredIs
  <2>3. doc' \in Document /\ Alike(Offered(doc), doc') /\ doc'.state = Offered(doc).state
    BY <2>1, <2>2, StoredIs
  <2>4. Delivers /\ doc'.error = doc.error /\ doc'.state = "READY_FOR_OWNER_REVIEW"
    BY <1>1, <1>3, <2>3, OfferedIs DEF Delivers
  <2>5. job # None /\ faults' \in 0..MaxFaults
    BY <1>1, <2>1 DEF IInv, CallIsOfState, TypeOK, envVars
  <2> QED BY <1>1, <2>1, <2>4, <2>5, DeliveringKeeps DEF Delivers, envVars
<1> QED BY <1>2, <1>3

LEMMA BootDeliversKeeps ==
  ASSUME IInv, BootDelivers
  PROVE  /\ Keeps /\ doc.state = "DELIVERY_PREPARATION" /\ Delivers
         /\ doc'.error \/ (doc'.error = doc.error /\ doc'.state = "READY_FOR_OWNER_REVIEW")
         /\ UNCHANGED <<tree, queueVars, pc, call, listed, resumes>>
<1>1. /\ doc.state = "DELIVERY_PREPARATION" /\ doc \in Document /\ pc = "idle"
      /\ UNCHANGED <<tree, queueVars, pc, call, listed, resumes>>
      /\ faults' \in 0..MaxFaults
  BY WorkflowAssumption DEF BootDelivers, IInv, TypeOK, Fault
<1>2. Delivers /\ (doc'.error \/ (doc'.error = doc.error /\ doc'.state = "READY_FOR_OWNER_REVIEW"))
  <2>1. CASE LineageValid(doc) /\ GateOpen(doc) /\ ~Refused(doc) /\ doc' = Stored(Offered(doc))
    <3>1. Offered(doc) \in HalfDelivered(doc)
      BY <2>1 DEF HalfDelivered
    <3>2. Offered(doc) \in Document
      BY <1>1, <3>1, HalfDeliveredIs
    <3>3. doc' \in Document /\ Alike(Offered(doc), doc') /\ doc'.state = Offered(doc).state
      BY <2>1, <3>2, StoredIs
    <3> QED BY <1>1, <2>1, <3>3, OfferedIs DEF Delivers
  <2>2. ASSUME NEW d \in HalfDelivered(doc), doc' = Stored([d EXCEPT !.error = TRUE])
        PROVE  Delivers /\ doc'.error
    <3>1. /\ d \in Document /\ SameEvidence(doc, d)
          /\ d.delivery.version >= doc.delivery.version
          /\ \/ d.delivery = doc.delivery
             \/ \E status \in {"PREPARING", "READY"} : d.delivery = Prepared(doc, status)
          /\ d.delivery = doc.delivery \/ d.delivery.status \in {"PREPARING", "READY"}
          /\ \/ d.state = "DELIVERY_PREPARATION"
             \/ d = Offered(doc) /\ LineageValid(doc) /\ GateOpen(doc) /\ ~Refused(doc)
      BY <1>1, HalfDeliveredIs
    <3>2. PICK e : e = [d EXCEPT !.error = TRUE]
      OBVIOUS
    <3>3. e \in Document /\ SameEvidence(d, e) /\ e.delivery = d.delivery /\ e.state = d.state /\ e.error
      BY <3>1, <3>2 DEF Document, SameEvidence
    <3>4. doc' \in Document /\ Alike(e, doc') /\ doc'.state = e.state
      BY <2>2, <3>2, <3>3, StoredIs
    <3>5. SameEvidence(doc, doc') /\ doc'.delivery = d.delivery /\ doc'.error
      BY <3>1, <3>3, <3>4 DEF SameEvidence, Alike
    <3>6. CASE d.state = "DELIVERY_PREPARATION"
      BY <3>1, <3>3, <3>4, <3>5, <3>6 DEF Delivers
    <3>7. CASE d = Offered(doc) /\ LineageValid(doc) /\ GateOpen(doc) /\ ~Refused(doc)
      <4>1. /\ d.delivery = Prepared(doc, "READY") /\ d.state = "READY_FOR_OWNER_REVIEW"
            /\ d.delivery.key = KeyOf(doc)
        BY <1>1, <3>1, <3>7, OfferedIs, AlikeIsReflexive
      <4> QED BY <3>1, <3>3, <3>4, <3>5, <3>7, <4>1 DEF Delivers
    <3> QED BY <3>1, <3>5, <3>6, <3>7
  <2> QED BY <2>1, <2>2 DEF BootDelivers
<1> QED BY <1>1, <1>2, DeliveringKeeps DEF Delivers, queueVars

-----------------------------------------------------------------------------
(* The owner *)

\* A command that is accepted changes the state and the standing of the delivery.
LEMMA RetryKeeps ==
  ASSUME IInv, Retry
  PROVE  /\ Keeps /\ doc.state = "FAILED" /\ doc'.state \in Working /\ doc' \in Document
         /\ SameEvidence(doc, doc') /\ UNCHANGED tree
<1>1. /\ doc.state = "FAILED" /\ doc \in Document /\ call = None /\ call' = "enqueue"
      /\ UNCHANGED <<tree, job, attempts, pc, listed, faults>>
      /\ resumes' \in 0..MaxResumes
  BY WorkflowAssumption DEF Retry, Command, Resumes, IInv, TypeOK, queueVars
<1>2. PICK to : to = ResumeTarget(doc)
  OBVIOUS
<1>3. /\ to \in Working
      /\ to \in Judging => HasRun(doc) /\ LastRun(doc).done
      /\ to = "CURSOR_EXECUTING" => ~NeedsProvisioning(doc)
  BY <1>2, WorkingAre DEF ResumeTarget, Judging
<1>4. PICK d : d = [doc EXCEPT !.error = FALSE, !.failedIn = None, !.state = to]
  OBVIOUS
<1>5. d \in Document /\ SameEvidence(doc, d) /\ d.state = to /\ d.delivery = doc.delivery
  BY <1>1, <1>3, <1>4 DEF Document, Working, SameEvidence
<1>6. doc' = Stored(d)
  BY <1>2, <1>4 DEF Retry
<1>7. doc' \in Document /\ SameEvidence(doc, doc') /\ doc'.state = to /\ doc'.delivery = doc.delivery
  BY <1>5, <1>6, StoredIs DEF Alike, SameEvidence
<1>8. doc.delivery.version \in Nat
  BY <1>1 DEF Document
<1>9. /\ RunsInOrder' /\ HeadIsLast' /\ RecordsInOrder' /\ HistoryGoesOn
      /\ HasRun(doc') = HasRun(doc) /\ LastRun(doc') = LastRun(doc)
  BY <1>1, <1>7, <1>8, SameEvidenceKeeps
<1>10. TypeOK'
  BY <1>1, <1>7 DEF IInv, TypeOK, SameEvidence, CommandSteps
<1>11. StateIsEarned'
  BY <1>3, <1>7, <1>9, WorkingAre DEF StateIsEarned, NeedsProvisioning, SameEvidence, OwnerTerminal
<1>12. CallIsOfState'
  <2>1. pc \in {"idle", "start"} /\ (pc # "idle" => job # None)
    BY <1>1, WorkingAre DEF IInv, CallIsOfState, TypeOK, Pcs, WorksIn
  <2> QED BY <1>1, <2>1 DEF CallIsOfState
<1>13. DeliveryIsKept' /\ CommandGoesOn' /\ ReadyIsFresh'
  BY <1>1, <1>3, <1>7, WorkingAre
     DEF IInv, DeliveryIsKept, CommandGoesOn, ReadyIsFresh, OwnerTerminal
<1>14. NothingStrands
  BY <1>1, NoneAssumption DEF NothingStrands, Stranded, CommandSteps
<1> QED BY <1>1, <1>3, <1>7, <1>9, <1>10, <1>11, <1>12, <1>13, <1>14 DEF Keeps, IInv

\* A worker that executes a job of a project that is offered only looks at it.
LEMMA IdleWhileOffered ==
  ASSUME IInv, doc.state \notin Working
  PROVE  pc \in {"idle", "start"} /\ (pc # "idle" => job # None)
  BY WorkingAre DEF IInv, CallIsOfState, TypeOK, Pcs, WorksIn

LEMMA RequestChangesKeeps ==
  ASSUME IInv, RequestChanges
  PROVE  /\ Keeps /\ doc.state = "READY_FOR_OWNER_REVIEW" /\ doc'.state = "OWNER_CHANGES_REQUESTED"
         /\ doc' \in Document /\ SameEvidence(doc, doc') /\ doc'.error = doc.error
         /\ doc'.delivery.status = "SUPERSEDED" /\ UNCHANGED <<tree, job, attempts, pc, listed>>
<1>1. /\ doc.state = "READY_FOR_OWNER_REVIEW" /\ doc \in Document /\ call = None /\ call' = "interpret"
      /\ UNCHANGED <<tree, job, attempts, pc, listed, faults>>
      /\ resumes' \in 0..MaxResumes
  BY WorkflowAssumption DEF RequestChanges, Decidable, Command, Resumes, IInv, TypeOK, queueVars
<1>2. PICK p : p = [doc.delivery EXCEPT !.status = "SUPERSEDED", !.decided = TRUE]
  OBVIOUS
<1>3. /\ p \in [version: Nat, key: Key \cup {None}, status: DeliveryStatuses \cup {None}, decided: BOOLEAN]
      /\ p.version = doc.delivery.version /\ p.status = "SUPERSEDED" /\ p.key = doc.delivery.key
  BY <1>1, <1>2 DEF Document, DeliveryStatuses
<1>4. PICK c \in Nat : c = doc.cycles + 1
  BY <1>1 DEF Document
<1>5. PICK d : d = [doc EXCEPT !.state = "OWNER_CHANGES_REQUESTED", !.delivery = p, !.cycles = c, !.pending = TRUE]
  OBVIOUS
<1>6. /\ d \in Document /\ SameEvidence(doc, d) /\ d.state = "OWNER_CHANGES_REQUESTED" /\ d.delivery = p
      /\ d.error = doc.error
  <2>1. PICK f : f = [doc EXCEPT !.state = "OWNER_CHANGES_REQUESTED", !.delivery = p]
    OBVIOUS
  <2>2. f \in Document /\ f.state = "OWNER_CHANGES_REQUESTED" /\ f.delivery = p /\ f.error = doc.error
    <3>1. "OWNER_CHANGES_REQUESTED" \in States
      BY StatesAre
    <3>2. f \in Document
      BY <1>1, <1>3, <2>1, <3>1 DEF Document
    <3>3. f.state = "OWNER_CHANGES_REQUESTED" /\ f.delivery = p /\ f.error = doc.error
      BY <1>1, <2>1 DEF Document
    <3> QED BY <3>2, <3>3
  <2>3. SameEvidence(doc, f)
    BY <1>1, <2>1 DEF Document, SameEvidence
  <2>4. d = [f EXCEPT !.cycles = c, !.pending = TRUE]
    BY <1>1, <1>5, <2>1 DEF Document
  <2>5. d \in Document /\ d.state = f.state /\ d.delivery = p /\ d.error = f.error
    BY <1>4, <2>2, <2>4 DEF Document
  <2>6. SameEvidence(doc, d)
    BY <2>2, <2>3, <2>4 DEF Document, SameEvidence
  <2> QED BY <2>2, <2>5, <2>6
<1>7. doc' = Stored(d)
  BY <1>1, <1>2, <1>4, <1>5 DEF RequestChanges, Document
<1>8. /\ doc' \in Document /\ SameEvidence(doc, doc') /\ doc'.state = "OWNER_CHANGES_REQUESTED"
      /\ doc'.delivery = p /\ doc'.error = doc.error
  BY <1>6, <1>7, StoredIs DEF Alike, SameEvidence
<1>9. /\ RunsInOrder' /\ HeadIsLast' /\ RecordsInOrder' /\ HistoryGoesOn
      /\ HasRun(doc') = HasRun(doc) /\ LastRun(doc') = LastRun(doc)
  <2>1. doc'.delivery.version >= doc.delivery.version
    <3>1. doc.delivery.version \in Nat
      BY <1>1 DEF Document
    <3> QED BY <1>3, <1>8, <3>1
  <2>2. tree'.head = tree.head
    BY <1>1
  <2> QED BY <1>8, <2>1, <2>2, SameEvidenceKeeps
<1>10. TypeOK'
  BY <1>1, <1>8 DEF IInv, TypeOK, SameEvidence, CommandSteps
<1>11. StateIsEarned'
  BY <1>8 DEF StateIsEarned, Judging, OwnerTerminal
<1>12. CallIsOfState'
  <2>1. pc \in {"idle", "start"} /\ (pc # "idle" => job # None)
    BY <1>1, WorkingAre, IdleWhileOffered
  <2> QED BY <1>1, <2>1 DEF CallIsOfState
<1>13. DeliveryIsKept' /\ CommandGoesOn' /\ ReadyIsFresh'
  BY <1>1, <1>3, <1>8, NoneAssumption
     DEF DeliveryIsKept, CommandGoesOn, ReadyIsFresh, OwnerTerminal, DeliveryStatuses
<1>14. NothingStrands
  BY <1>1, NoneAssumption DEF NothingStrands, Stranded, CommandSteps
<1> QED BY <1>1, <1>3, <1>8, <1>9, <1>10, <1>11, <1>12, <1>13, <1>14 DEF Keeps, IInv

\* The steps from one state of the owner's to the next.
LEMMA ClosingKeeps ==
  ASSUME IInv, doc.state \in OwnerTerminal, doc' \in Document, SameEvidence(doc, doc'),
         doc'.state \in {"OWNER_APPROVED", "DONE"},
         doc'.delivery.key = doc.delivery.key, doc'.delivery.version = doc.delivery.version,
         doc'.delivery.status = None => doc.delivery.status = None /\ doc'.delivery.decided = doc.delivery.decided,
         UNCHANGED <<tree, queueVars, pc, listed, faults, resumes>>,
         call' \in {"close", None}, call' = "close" => doc'.state = "OWNER_APPROVED"
  PROVE  Keeps
<1>1. doc \in Document /\ doc.delivery.version \in Nat
  BY DEF IInv, TypeOK, Document
<1>2. /\ RunsInOrder' /\ HeadIsLast' /\ RecordsInOrder' /\ HistoryGoesOn
      /\ HasRun(doc') = HasRun(doc) /\ LastRun(doc') = LastRun(doc) /\ KeyOf(doc') = KeyOf(doc)
      /\ EvidenceIsFresh => EvidenceIsFresh'
  BY <1>1, SameEvidenceKeeps
<1>3. TypeOK'
  BY DEF IInv, TypeOK, SameEvidence, queueVars, CommandSteps
<1>4. StateIsEarned'
  BY <1>2 DEF IInv, StateIsEarned, OwnerTerminal
<1>5. CallIsOfState'
  <2>1. pc \in {"idle", "start"} /\ (pc # "idle" => job # None)
    BY WorkingAre, IdleWhileOffered DEF OwnerTerminal
  <2> QED BY <2>1 DEF CallIsOfState, queueVars
<1>6. DeliveryIsKept'
  BY DEF IInv, DeliveryIsKept
<1>7. CommandGoesOn'
  BY NoneAssumption DEF CommandGoesOn, CommandSteps
<1>8. ReadyIsFresh'
  BY <1>2 DEF IInv, ReadyIsFresh, EvidenceIsFresh
<1>9. NothingStrands
  BY WorkingAre DEF NothingStrands, Stranded
<1> QED BY <1>2, <1>3, <1>4, <1>5, <1>6, <1>7, <1>8, <1>9 DEF Keeps, IInv

LEMMA ApproveKeeps ==
  ASSUME IInv, Approve
  PROVE  /\ Keeps /\ doc.state = "READY_FOR_OWNER_REVIEW" /\ doc'.state = "OWNER_APPROVED"
         /\ doc' \in Document /\ SameEvidence(doc, doc') /\ doc'.error = doc.error
         /\ doc'.delivery.status = "APPROVED" /\ UNCHANGED <<tree, job, attempts, pc, listed>>
<1>1. /\ doc.state = "READY_FOR_OWNER_REVIEW" /\ doc \in Document /\ call' = "close"
      /\ UNCHANGED <<tree, queueVars, pc, listed, faults, resumes>>
  BY DEF Approve, Decidable, IInv, TypeOK
<1>2. PICK p : p = [doc.delivery EXCEPT !.status = "APPROVED", !.decided = TRUE]
  OBVIOUS
<1>3. /\ p \in [version: Nat, key: Key \cup {None}, status: DeliveryStatuses \cup {None}, decided: BOOLEAN]
      /\ p.version = doc.delivery.version /\ p.status = "APPROVED" /\ p.key = doc.delivery.key
  BY <1>1, <1>2 DEF Document, DeliveryStatuses
<1>4. PICK d : d = [doc EXCEPT !.state = "OWNER_APPROVED", !.delivery = p]
  OBVIOUS
<1>5. /\ d \in Document /\ SameEvidence(doc, d) /\ d.state = "OWNER_APPROVED" /\ d.delivery = p
      /\ d.error = doc.error
  <2>1. d \in Document /\ d.state = "OWNER_APPROVED" /\ d.delivery = p /\ d.error = doc.error
    <3>1. "OWNER_APPROVED" \in States
      BY StatesAre
    <3>2. d \in Document
      BY <1>1, <1>3, <1>4, <3>1 DEF Document
    <3>3. d.state = "OWNER_APPROVED" /\ d.delivery = p /\ d.error = doc.error
      BY <1>1, <1>4 DEF Document
    <3> QED BY <3>2, <3>3
  <2>2. SameEvidence(doc, d)
    BY <1>1, <1>4 DEF Document, SameEvidence
  <2> QED BY <2>1, <2>2
<1>6. doc' = Stored(d)
  BY <1>1, <1>2, <1>4 DEF Approve, Document
<1>7. /\ doc' \in Document /\ SameEvidence(doc, doc') /\ doc'.state = "OWNER_APPROVED"
      /\ doc'.delivery = p /\ doc'.error = doc.error
  BY <1>5, <1>6, StoredIs DEF Alike, SameEvidence
<1>8. p.status # None
  BY <1>3, NoneAssumption DEF DeliveryStatuses
<1>9. Keeps
  BY <1>1, <1>3, <1>7, <1>8, ClosingKeeps DEF OwnerTerminal
<1> QED BY <1>1, <1>3, <1>7, <1>9 DEF queueVars

LEMMA CloseKeeps ==
  ASSUME IInv, Close
  PROVE  /\ Keeps /\ doc.state = "OWNER_APPROVED" /\ doc'.state = "DONE"
         /\ doc' \in Document /\ Alike(doc, doc') /\ UNCHANGED <<tree, job, attempts, pc, listed>>
<1>1. /\ doc.state = "OWNER_APPROVED" /\ doc \in Document
      /\ UNCHANGED <<tree, queueVars, pc, listed, faults, resumes>>
  BY DEF Close, Continue, IInv, TypeOK, CommandGoesOn
<1>2. doc' = Stored([doc EXCEPT !.state = "DONE"]) /\ call' = None
  BY <1>1, LegalIs, StatesAre DEF Close, Continue
<1>3. PICK d : d = [doc EXCEPT !.state = "DONE"]
  OBVIOUS
<1>4. d \in Document /\ Alike(doc, d) /\ d.state = "DONE"
  BY <1>1, <1>3, MovedIs, StatesAre
<1>5. doc' \in Document /\ Alike(doc, doc') /\ doc'.state = "DONE"
  BY <1>2, <1>3, <1>4, StoredIs, AlikeIsTransitive
<1>6. SameEvidence(doc, doc') /\ doc'.delivery = doc.delivery
  BY <1>5 DEF Alike, SameEvidence
<1>7. None # "close"
  BY NoneAssumption DEF CommandSteps
<1>8. Keeps
  BY <1>1, <1>2, <1>5, <1>6, <1>7, ClosingKeeps DEF OwnerTerminal
<1> QED BY <1>1, <1>5, <1>8 DEF queueVars

LEMMA InterpretKeeps ==
  ASSUME IInv, Interpret
  PROVE  /\ Keeps /\ UNCHANGED <<tree, job, attempts, pc, listed>>
         /\ \/ UNCHANGED doc
            \/ /\ doc' \in Document /\ Alike(doc, doc') /\ doc'.state = "COUNCIL_DISCOVERY"
               /\ doc.state \in {"IDEA_SUBMITTED", "OWNER_CHANGES_REQUESTED", "FAILED"}
<1>1. /\ call = "interpret" /\ doc \in Document /\ doc.state \in States
      /\ UNCHANGED <<tree, job, attempts, pc, listed, faults, resumes>>
  BY DEF Interpret, Continue, IInv, TypeOK, Document, queueVars
<1>2. CASE Legal(doc.state, "COUNCIL_DISCOVERY")
  <2>1. doc.state \in {"IDEA_SUBMITTED", "OWNER_CHANGES_REQUESTED", "FAILED"}
    BY <1>1, <1>2, LegalIs
  <2>2. doc' = Stored([doc EXCEPT !.state = "COUNCIL_DISCOVERY"]) /\ call' = "enqueue"
    BY <1>2 DEF Interpret, Continue
  <2>3. PICK d : d = [doc EXCEPT !.state = "COUNCIL_DISCOVERY"]
    OBVIOUS
  <2>4. d \in Document /\ Alike(doc, d) /\ d.state = "COUNCIL_DISCOVERY"
    BY <1>1, <2>3, MovedIs, StatesAre
  <2>5. doc' \in Document /\ Alike(doc, doc') /\ doc'.state = "COUNCIL_DISCOVERY"
    BY <2>2, <2>3, <2>4, StoredIs, AlikeIsTransitive
  <2>6. EvidenceKept
    BY <1>1, <2>5, AlikeKeepsEvidence
  <2>7. TypeOK'
    BY <1>1, <2>2, <2>5 DEF IInv, TypeOK, Alike, CommandSteps
  <2>8. StateIsEarned'
    BY <2>5 DEF StateIsEarned, Judging, OwnerTerminal
  <2>9. CallIsOfState'
    <3>1. HasRun(doc') = HasRun(doc)
      BY <2>5 DEF Alike, HasRun
    <3>2. "COUNCIL_DISCOVERY" \in WorksIn["COUNCIL_REVIEW"] /\ "COUNCIL_DISCOVERY" \in WorksIn["FINAL_VERIFICATION"]
      BY WorkingAre DEF WorksIn, Verifying
    <3> QED BY <1>1, <2>1, <2>5, <3>1, <3>2 DEF IInv, CallIsOfState
  <2>10. DeliveryIsKept' /\ CommandGoesOn' /\ ReadyIsFresh'
    BY <2>1, <2>2, <2>5 DEF IInv, DeliveryIsKept, CommandGoesOn, ReadyIsFresh, OwnerTerminal, Alike
  <2>11. NothingStrands
    BY <2>2, NoneAssumption DEF NothingStrands, Stranded, CommandSteps
  <2> QED BY <1>1, <2>1, <2>5, <2>6, <2>7, <2>8, <2>9, <2>10, <2>11 DEF Keeps, IInv, EvidenceKept
<1>3. CASE ~Legal(doc.state, "COUNCIL_DISCOVERY")
  <2>1. UNCHANGED doc /\ call' = None
    BY <1>3 DEF Interpret, Continue
  <2>2. TypeOK' /\ CallIsOfState' /\ CommandGoesOn'
    BY <1>1, <2>1, NoneAssumption DEF IInv, TypeOK, CallIsOfState, CommandGoesOn, CommandSteps
  <2>3. job = None => doc.state \notin Working
    BY <1>1, <1>3, LegalIs DEF IInv, CommandGoesOn
  <2>4. NothingStrands
    BY <1>1, <2>1, <2>3 DEF NothingStrands, Stranded
  <2> QED BY <1>1, <2>1, <2>2, <2>4, QuietKeeps
<1> QED BY <1>2, <1>3

-----------------------------------------------------------------------------
(* The queue, the crashes and the boots *)

LEMMA NextJobIs ==
  ASSUME NEW d \in Document
  PROVE  /\ d.state \in Working => NextJob(d) \in JobTypes /\ NextJob(d) # None
         /\ d.state \notin Working => NextJob(d) = None
<1>1. ASSUME d.state \in Working PROVE NextJob(d) \in JobTypes
  BY <1>1, WorkingAre, JobTypesAre DEF NextJob, JobOf
<1>2. None \notin JobTypes
  BY NoneAssumption
<1> QED BY <1>1, <1>2 DEF NextJob

LEMMA ClaimKeeps ==
  ASSUME IInv, Claim
  PROVE  Keeps
<1>1. /\ pc = "idle" /\ job # None /\ pc' = "start" /\ UNCHANGED <<doc, tree, job, call, listed, faults, resumes>>
      /\ attempts' \in Nat
  BY WorkflowAssumption DEF Claim, envVars, IInv, TypeOK
<1>2. TypeOK' /\ CallIsOfState' /\ CommandGoesOn'
  BY <1>1 DEF IInv, TypeOK, Pcs, CallIsOfState, CommandGoesOn
<1>3. NothingStrands
  BY <1>1 DEF NothingStrands, Stranded
<1> QED BY <1>1, <1>2, <1>3, QuietKeeps

\* A job that completes is followed by the next one as long as there is work.
LEMMA HandOffKeeps ==
  ASSUME IInv, HandOff
  PROVE  Keeps
<1>1. /\ doc \in Document /\ pc' = "idle" /\ job' = NextJob(doc) /\ attempts' = 0
      /\ UNCHANGED <<doc, tree, call, listed, faults, resumes>>
  BY DEF HandOff, envVars, IInv, TypeOK
<1>2. TypeOK'
  BY <1>1, NextJobIs, WorkflowAssumption DEF IInv, TypeOK, Pcs
<1>3. CallIsOfState'
  BY <1>1 DEF CallIsOfState
<1>4. CommandGoesOn'
  BY <1>1, NextJobIs DEF IInv, CommandGoesOn
<1>5. NothingStrands
  BY <1>1, NextJobIs DEF NothingStrands, Stranded
<1> QED BY <1>1, <1>2, <1>3, <1>4, <1>5, QuietKeeps

\* The calls that take long.
LEMMA BeginningKeeps ==
  ASSUME IInv,
         BeginDiscovery \/ BeginProvisioning \/ CursorReturns \/ BeginVerification \/ BeginRuntime
           \/ BeginVisual \/ BeginFinal
  PROVE  Keeps /\ UNCHANGED <<doc, tree, job, attempts, call, listed, faults, resumes>>
<1>1. \E where \in Pcs : Calls(where)
  BY DEF BeginDiscovery, BeginProvisioning, CursorReturns, BeginVerification, BeginRuntime, BeginVisual,
         BeginFinal, Pcs
<1>2. UNCHANGED <<doc, tree, job, attempts, call, listed, faults, resumes>>
  BY <1>1 DEF Calls, queueVars, envVars
<1>3. pc # "idle" /\ job # None
  BY DEF BeginDiscovery, BeginProvisioning, CursorReturns, BeginVerification, BeginRuntime, BeginVisual,
         BeginFinal, At, IInv, CallIsOfState
<1>4. CallIsOfState'
  <2>1. CASE BeginDiscovery
    <3>1. pc' = "discovering" /\ doc.state = "COUNCIL_DISCOVERY" /\ job = "COUNCIL_DISCOVERY"
      BY <2>1, AtState, StatesAre DEF BeginDiscovery, Calls
    <3> QED BY <1>2, <1>3, <3>1 DEF CallIsOfState
  <2>2. CASE BeginProvisioning
    <3>1. pc' = "provisioning" /\ doc.state = "PROJECT_PROVISIONING"
      BY <2>2 DEF BeginProvisioning, Calls
    <3> QED BY <1>2, <1>3, <3>1 DEF CallIsOfState
  <2>3. CASE CursorReturns
    <3>1. pc' = "postflight" /\ pc = "cursor"
      BY <2>3 DEF CursorReturns, Calls
    <3> QED BY <1>2, <1>3, <3>1 DEF IInv, CallIsOfState, HasRun, LastRun
  <2>4. CASE BeginVerification
    <3>1. pc' = "verifying" /\ doc.state = "PLATFORM_VERIFICATION"
      BY <2>4, AtState, StatesAre DEF BeginVerification, Calls
    <3> QED BY <1>2, <1>3, <3>1 DEF CallIsOfState
  <2>5. CASE BeginRuntime
    <3>1. pc' = "launching" /\ doc.state = "RUNTIME_VERIFICATION"
      BY <2>5, AtState, StatesAre DEF BeginRuntime, Calls
    <3> QED BY <1>2, <1>3, <3>1 DEF CallIsOfState
  <2>6. CASE BeginVisual
    <3>1. pc' = "looking" /\ doc.state = "VISUAL_VERIFICATION"
      BY <2>6, AtState, StatesAre DEF BeginVisual, Calls
    <3> QED BY <1>2, <1>3, <3>1 DEF CallIsOfState
  <2>7. CASE BeginFinal
    <3>1. pc' = "judging" /\ At("final")
      BY <2>7 DEF BeginFinal, Calls
    <3>2. /\ job = "FINAL_VERIFICATION"
          /\ doc.state \in WorksIn["FINAL_VERIFICATION"] \ {"DELIVERY_PREPARATION"}
      BY <3>1, AtIs, StepsAre DEF Document
    <3> QED BY <1>2, <1>3, <3>1, <3>2 DEF CallIsOfState
  <2> QED BY <2>1, <2>2, <2>3, <2>4, <2>5, <2>6, <2>7
<1> QED BY <1>1, <1>2, <1>3, <1>4, CallingKeeps

LEMMA CursorEditsKeeps ==
  ASSUME IInv, CursorEdits
  PROVE  Keeps /\ UNCHANGED <<doc, job, attempts, call, listed, faults, resumes>> /\ tree'.head = tree.head
<1>1. /\ UNCHANGED <<doc, job, attempts, pc, call, listed, faults, resumes>>
      /\ tree' \in [head: Nat, dirty: BOOLEAN] /\ tree'.head = tree.head
  BY DEF CursorEdits, queueVars, envVars, IInv, TypeOK
<1>2. TypeOK' /\ CallIsOfState' /\ CommandGoesOn'
  BY <1>1 DEF IInv, TypeOK, CallIsOfState, CommandGoesOn, HasRun, LastRun
<1>3. NothingStrands
  BY <1>1 DEF NothingStrands, Stranded
<1> QED BY <1>1, <1>2, <1>3, QuietKeeps

\* A row that is inserted is of a project that has no other one.
LEMMA EnqueueKeeps ==
  ASSUME IInv, Enqueue
  PROVE  Keeps
<1>1. /\ doc \in Document /\ call' = None /\ UNCHANGED <<doc, tree, pc, listed, faults, resumes>>
      /\ \/ job = None /\ job' = NextJob(doc) /\ attempts' = 0
         \/ job # None /\ UNCHANGED <<job, attempts>>
  BY DEF Enqueue, Inserts, queueVars, IInv, TypeOK
<1>2. TypeOK'
  BY <1>1, NextJobIs, WorkflowAssumption DEF IInv, TypeOK
<1>3. CallIsOfState' /\ CommandGoesOn'
  BY <1>1, NoneAssumption DEF IInv, CallIsOfState, CommandGoesOn, CommandSteps, HasRun, LastRun
<1>4. NothingStrands
  BY <1>1, NextJobIs DEF NothingStrands, Stranded
<1> QED BY <1>1, <1>2, <1>3, <1>4, QuietKeeps

LEMMA ReconcileKeeps ==
  ASSUME IInv, Reconcile
  PROVE  Keeps
<1>1. /\ listed # None /\ listed' = None /\ UNCHANGED <<doc, tree, pc, call, faults, resumes>>
      /\ \/ job = None /\ job' = listed /\ attempts' = 0
         \/ job # None /\ UNCHANGED <<job, attempts>>
  BY DEF Reconcile, Inserts, queueVars
<1>2. TypeOK'
  BY <1>1, WorkflowAssumption DEF IInv, TypeOK
<1>3. CallIsOfState' /\ CommandGoesOn'
  BY <1>1 DEF IInv, CallIsOfState, CommandGoesOn, HasRun, LastRun
<1>4. NothingStrands
  BY <1>1 DEF NothingStrands, Stranded
<1> QED BY <1>1, <1>2, <1>3, <1>4, QuietKeeps

LEMMA ErrorKeeps ==
  ASSUME IInv, Error
  PROVE  Keeps
<1>1. faults' \in 0..MaxFaults
  BY WorkflowAssumption DEF Error, Fault, IInv, TypeOK
<1> QED BY <1>1, ThrowingKeeps DEF Error

LEMMA CrashKeeps ==
  ASSUME IInv, Crash
  PROVE  Keeps
<1>1. /\ pc' = "idle" /\ UNCHANGED <<doc, tree, job, attempts, call, listed, resumes>>
      /\ faults' \in 0..MaxFaults
  BY WorkflowAssumption DEF Crash, Fault, queueVars, IInv, TypeOK
<1>2. TypeOK' /\ CallIsOfState' /\ CommandGoesOn'
  BY <1>1 DEF IInv, TypeOK, Pcs, CallIsOfState, CommandGoesOn
<1>3. NothingStrands
  BY <1>1 DEF NothingStrands, Stranded
<1> QED BY <1>1, <1>2, <1>3, QuietKeeps

\* Only here may a project be left with nobody to go on with it.
LEMMA ApiCrashKeeps ==
  ASSUME IInv, ApiCrash
  PROVE  Keeps
<1>1. /\ call' = None /\ UNCHANGED <<doc, tree, job, attempts, pc, listed, resumes>>
      /\ faults' \in 0..MaxFaults
  BY WorkflowAssumption DEF ApiCrash, Fault, queueVars, IInv, TypeOK
<1>2. TypeOK' /\ CallIsOfState' /\ CommandGoesOn'
  BY <1>1, NoneAssumption DEF IInv, TypeOK, CallIsOfState, CommandGoesOn, CommandSteps, HasRun, LastRun
<1> QED BY <1>1, <1>2, QuietKeeps DEF NothingStrands

LEMMA BootKeeps ==
  ASSUME IInv, Boot
  PROVE  Keeps
<1>1. /\ UNCHANGED <<doc, tree, job, attempts, pc, call, resumes>> /\ listed = None /\ listed' = NextJob(doc)
      /\ faults' \in 0..MaxFaults /\ doc \in Document /\ doc.state \in Working
  BY WorkflowAssumption DEF Boot, Fault, queueVars, IInv, TypeOK, BootResumable
<1>2. TypeOK' /\ CallIsOfState' /\ CommandGoesOn'
  BY <1>1, NextJobIs DEF IInv, TypeOK, CallIsOfState, CommandGoesOn, HasRun, LastRun
<1>3. NothingStrands
  BY <1>1 DEF NothingStrands, Stranded
<1> QED BY <1>1, <1>2, <1>3, QuietKeeps

LEMMA StutterKeeps ==
  ASSUME IInv, UNCHANGED vars
  PROVE  Keeps
<1>1. TypeOK' /\ CallIsOfState' /\ CommandGoesOn'
  BY DEF vars, IInv, TypeOK, CallIsOfState, CommandGoesOn, HasRun, LastRun
<1>2. NothingStrands
  BY DEF vars, NothingStrands, Stranded
<1> QED BY <1>1, <1>2, QuietKeeps DEF vars

-----------------------------------------------------------------------------
(* The invariant *)

LEMMA NewDocumentIs ==
  ASSUME NEW new \in BOOLEAN
  PROVE  /\ NewDocument(new) \in Document
         /\ NewDocument(new).state = "IDEA_SUBMITTED" /\ NewDocument(new).runs = <<>>
         /\ NewDocument(new).verified = <<>> /\ NewDocument(new).iteration = 0
         /\ NewDocument(new).delivery = NoDelivery /\ ~NewDocument(new).error
<1>1. <<>> \in Seq([iteration: Nat, done: BOOLEAN, sha: Nat \cup {None}, favourable: BOOLEAN])
      /\ <<>> \in Seq([iteration: Nat, sha: Nat, verdict: PlatformOutcomes])
      /\ <<>> \in Seq([iteration: Nat, sha: Nat, verdict: RuntimeOutcomes])
      /\ <<>> \in Seq([iteration: Nat, sha: Nat, of: Nat, verdict: VisualOutcomes \cup {"NOT_APPLICABLE"}])
  OBVIOUS
<1>2. NoDelivery \in [version: Nat, key: Key \cup {None}, status: DeliveryStatuses \cup {None}, decided: BOOLEAN]
  BY DEF NoDelivery
<1>3. [count |-> 0, decision |-> None] \in [count: Nat, decision: Decisions \cup {None}]
  OBVIOUS
<1>4. [i \in 0..MaxIterations |-> None] \in [0..MaxIterations -> Decisions \cup {None}]
  OBVIOUS
<1>5. "IDEA_SUBMITTED" \in States
  BY StatesAre
<1> QED BY <1>1, <1>2, <1>3, <1>4, <1>5 DEF NewDocument, Document

LEMMA InitIsGood ==
  ASSUME Init
  PROVE  IInv
<1>1. PICK new \in BOOLEAN : doc = NewDocument(new)
  BY WorkflowAssumption DEF Init
<1>2. /\ doc \in Document /\ doc.state = "IDEA_SUBMITTED" /\ doc.runs = <<>>
      /\ doc.verified = <<>> /\ doc.iteration = 0 /\ doc.delivery = NoDelivery
  BY <1>1, NewDocumentIs
<1>3. TypeOK
  BY <1>2, WorkflowAssumption DEF Init, TypeOK, CommandSteps, Pcs
<1>4. RunsInOrder /\ HeadIsLast /\ RecordsInOrder
  BY <1>2 DEF RunsInOrder, HeadIsLast, RecordsInOrder, HasRun
<1>5. StateIsEarned /\ CallIsOfState /\ ReadyIsFresh
  BY <1>2 DEF Init, StateIsEarned, CallIsOfState, ReadyIsFresh, Judging, OwnerTerminal
<1>6. DeliveryIsKept /\ CommandGoesOn
  BY <1>2, NoneAssumption DEF Init, DeliveryIsKept, CommandGoesOn, NoDelivery, DeliveryStatuses
<1> QED BY <1>3, <1>4, <1>5, <1>6 DEF IInv

LEMMA StepKeeps ==
  ASSUME IInv, [Next]_vars
  PROVE  Keeps
<1>1. CASE Work
  <2>1. CASE Discovery
    BY <2>1, EnterDiscoveryKeeps, RecoverSpecKeeps, BeginningKeeps, DiscoverKeeps DEF Discovery
  <2>2. CASE Provisioning
    BY <2>2, SkipProvisioningKeeps, EnterProvisioningKeeps, BeginningKeeps, ProvisionKeeps DEF Provisioning
  <2>3. CASE Implementation
    BY <2>3, StartImplementationKeeps, ReplayCursorKeeps, StartCursorKeeps, BeginningKeeps, CheckpointKeeps,
       SaveCursorResultKeeps DEF Implementation
  <2>4. CASE Verification
    BY <2>4, ReuseVerificationKeeps, ReplayVerificationKeeps, BeginningKeeps, VerifyKeeps, ReplayRuntimeKeeps,
       LaunchKeeps, ReplayVisualKeeps, LookKeeps DEF Verification
  <2>5. CASE Judgement
    BY <2>5, BeginReviewKeeps, CouncilReviewKeeps, AfterReviewKeeps, BeginningKeeps, FinalVerifyKeeps,
       AfterFinalKeeps, DeliverKeeps DEF Judgement
  <2> QED BY <1>1, <2>1, <2>2, <2>3, <2>4, <2>5, ClaimKeeps, HandOffKeeps DEF Work
<1>2. CASE CursorEdits
  BY <1>2, CursorEditsKeeps
<1>3. CASE Retry \/ RequestChanges \/ Approve
  BY <1>3, RetryKeeps, RequestChangesKeeps, ApproveKeeps
<1>4. CASE Api
  BY <1>4, InterpretKeeps, CloseKeeps, EnqueueKeeps, ReconcileKeeps DEF Api
<1>5. CASE Error \/ Crash \/ ApiCrash \/ Boot \/ BootDelivers
  BY <1>5, ErrorKeeps, CrashKeeps, ApiCrashKeeps, BootKeeps, BootDeliversKeeps
<1>6. CASE UNCHANGED vars
  BY <1>6, StutterKeeps
<1> QED BY <1>1, <1>2, <1>3, <1>4, <1>5, <1>6 DEF Next

\* The inductive invariant holds of every reachable state, for any verdicts,
\* owner, faults and bounds.
THEOREM Invariant == Spec => []IInv
<1>1. Init => IInv
  BY InitIsGood
<1>2. IInv /\ [Next]_vars => IInv'
  BY StepKeeps DEF Keeps
<1> QED BY <1>1, <1>2, PTL DEF Spec

\* The document always has the shape the store gives it, the iteration is
\* within MAX_AUTONOMOUS_ITERATIONS and a row within JOB_MAX_ATTEMPTS.
THEOREM TypeCorrect == Spec => []TypeOK
<1>1. IInv => TypeOK
  BY DEF IInv
<1> QED BY <1>1, Invariant, PTL

\* Whatever was resumed, reused or replayed on the way, an offer rests on the
\* records, the review, the final verification and the key of its own commit
\* (validateEvidenceLineage, canCompleteAutonomousWork).
THEOREM FreshReady == Spec => []ReadyIsFresh
<1>1. IInv => ReadyIsFresh
  BY DEF IInv
<1> QED BY <1>1, Invariant, PTL

\* No iteration has two finished Cursor runs: what Cursor has done is found
\* again after crashes, errors and retries (finishOrReplayCursor).
THEOREM RunsOnce == Spec => []IterationsRunOnce
<1>1. ASSUME IInv PROVE IterationsRunOnce
  <2>1. doc \in Document
    BY <1>1 DEF IInv, TypeOK
  <2>2. \A k \in DOMAIN doc.runs : k \in Nat /\ doc.runs[k].iteration \in Nat
    BY <2>1, RunsAre DEF Run
  <2> QED BY <1>1, <2>2 DEF IInv, RunsInOrder, IterationsRunOnce
<1>2. IInv => IterationsRunOnce
  BY <1>1
<1> QED BY <1>2, Invariant, PTL

\* Cursor is at work on a new project only once its foundation was made,
\* whichever way the project came to it (finishProvisioning, resumeTargetAfterFailure).
THEOREM FoundationFirst == Spec => []CursorNeedsFoundation
<1>1. IInv => CursorNeedsFoundation
  BY DEF IInv, CallIsOfState, StateIsEarned, NeedsProvisioning, CursorNeedsFoundation
<1> QED BY <1>1, Invariant, PTL

\* No step loses or rewrites a finished run, a record, an iteration or a
\* version of the delivery: the handlers append, or replace the unfinished run.
THEOREM HistoryKept == Spec => HistoryIsKept
<1>1. IInv /\ [Next]_vars => [HistoryGoesOn]_vars
  BY StepKeeps DEF Keeps
<1> QED BY <1>1, Invariant, PTL DEF Spec, HistoryIsKept

\* No step but the death of the API in the middle of a command leaves a project
\* that has work to do without a row, a command or a boot that goes on with it
\* (completeAndHandoff, enqueue, recoverOnBoot).
THEOREM WorkNotStranded == Spec => NoStrandedWork
<1>1. IInv /\ [Next]_vars => [NothingStrands]_vars
  BY StepKeeps DEF Keeps
<1> QED BY <1>1, Invariant, PTL DEF Spec, NoStrandedWork

-----------------------------------------------------------------------------
(* Without retries *)

NoRetry == "retry" \notin Owner

Early == {"IDEA_SUBMITTED", "COUNCIL_DISCOVERY", "OWNER_CHANGES_REQUESTED"}

\* The last run is the one of this iteration and the platform has verified its commit.
IsVerified == HasRun(doc) /\ LastRun(doc).done /\ LastRun(doc).iteration = doc.iteration /\ Fresh(doc.verified)

IsAccepted == ~Blocks(VerdictOn(doc.verified, doc.iteration))

\* Every record is of a run that is done.
RecordsAreOfRuns ==
  \A k \in DOMAIN doc.verified : \E l \in DOMAIN doc.runs :
    /\ doc.runs[l].done
    /\ doc.runs[l].iteration = doc.verified[k].iteration
    /\ doc.runs[l].sha = doc.verified[k].sha

\* Without an error the project is where its stages have led it, and the job
\* it has is one that does not skip a stage.
Straight ==
  /\ doc.state # "FAILED"
  /\ RecordsAreOfRuns
  /\ job = None /\ doc.state \in Working => doc.state \in Early
  /\ doc.state \in {"SPECIFICATION_READY", "PROJECT_PROVISIONING", "PLATFORM_VERIFICATION"} =>
       job \notin {"COUNCIL_REVIEW", "FINAL_VERIFICATION"}
  /\ doc.state \in Early =>
       IsVerified \/ (doc.runs = <<>> /\ {job, listed} \subseteq {None, "COUNCIL_DISCOVERY"})
  /\ doc.state = "PLATFORM_VERIFICATION" => LastRun(doc).iteration = doc.iteration
  /\ doc.state \in (Judging \ {"PLATFORM_VERIFICATION"}) \cup OwnerTerminal => IsVerified
  /\ doc.state \in {"FINAL_VERIFICATION", "DELIVERY_PREPARATION"} => IsAccepted
  /\ doc.delivery.status \in {"PREPARING", "READY"} => ~doc.delivery.decided
  /\ doc.state = "DELIVERY_PREPARATION" => doc.final.count = Len(doc.runs)

StraightInv ==
  /\ ~doc.error => Straight
  /\ ReadyIsVerified /\ ReadyIsJudged /\ ReadyIsDecidable

LEMMA SameEvidenceCarries ==
  ASSUME IInv, doc' \in Document, SameRuns(doc, doc'), doc'.iteration = doc.iteration,
         doc'.verified = doc.verified, tree'.head = tree.head
  PROVE  /\ IsVerified => IsVerified'
         /\ IsAccepted => IsAccepted'
         /\ RecordsAreOfRuns => RecordsAreOfRuns'
         /\ HasRun(doc') <=> HasRun(doc)
         /\ Len(doc'.runs) = Len(doc.runs)
         /\ doc.runs = <<>> => doc'.runs = <<>>
         /\ HasRun(doc) => LastRun(doc').iteration = LastRun(doc).iteration
<1>1. /\ HasRun(doc') <=> HasRun(doc)
      /\ HasRun(doc) => LastRun(doc').done = LastRun(doc).done /\ LastRun(doc').sha = LastRun(doc).sha
                        /\ LastRun(doc').iteration = LastRun(doc).iteration
  <2>1. doc'.iteration >= doc.iteration
    <3>1. doc.iteration \in Nat
      BY DEF IInv, TypeOK
    <3> QED BY <3>1
  <2>2. SameRuns(doc, doc') /\ tree'.head = tree.head
    OBVIOUS
  <2> QED BY <2>1, <2>2, SameRunsKeep
<1>2. IsVerified => IsVerified'
  BY <1>1 DEF IsVerified, Fresh, FinalSha
<1>3. IsAccepted => IsAccepted'
  BY DEF IsAccepted
<1>4. DOMAIN doc'.runs = DOMAIN doc.runs
  BY RunsAre DEF SameRuns, IInv, TypeOK
<1>5. RecordsAreOfRuns => RecordsAreOfRuns'
  BY <1>4 DEF RecordsAreOfRuns, SameRuns
<1> QED BY <1>1, <1>2, <1>3, <1>5 DEF HasRun, SameRuns

\* A stage that is left for a later one, or worked on.
LEMMA GoingStraight ==
  ASSUME IInv, StraightInv, doc' \in Document, SameRuns(doc, doc'), doc'.iteration = doc.iteration,
         doc'.verified = doc.verified, doc'.delivery = doc.delivery, doc'.error = doc.error,
         UNCHANGED <<tree, job, listed>>, job # None, doc.state \in Working, doc'.state \in Working,
         ~doc.error =>
           /\ doc'.state \in {"SPECIFICATION_READY", "PROJECT_PROVISIONING", "PLATFORM_VERIFICATION"} =>
                job \notin {"COUNCIL_REVIEW", "FINAL_VERIFICATION"}
           /\ doc'.state \in Early => doc.state \in Early
           /\ doc'.state = "PLATFORM_VERIFICATION" => LastRun(doc).iteration = doc.iteration /\ HasRun(doc)
           /\ doc'.state \in Judging \ {"PLATFORM_VERIFICATION"} => IsVerified
           /\ doc'.state \in {"FINAL_VERIFICATION", "DELIVERY_PREPARATION"} => IsAccepted
           /\ doc'.state = "DELIVERY_PREPARATION" => doc'.final.count = Len(doc.runs)
  PROVE  StraightInv'
<1>1. /\ IsVerified => IsVerified'
      /\ IsAccepted => IsAccepted'
      /\ RecordsAreOfRuns => RecordsAreOfRuns'
      /\ HasRun(doc') <=> HasRun(doc)
      /\ Len(doc'.runs) = Len(doc.runs)
      /\ doc.runs = <<>> => doc'.runs = <<>>
      /\ HasRun(doc) => LastRun(doc').iteration = LastRun(doc).iteration
  BY SameEvidenceCarries
<1>2. doc'.state \notin OwnerTerminal \cup {"FAILED"}
  BY WorkingAre DEF OwnerTerminal
<1>3. ASSUME ~doc'.error PROVE Straight'
  <2>1. Straight /\ ~doc.error
    BY <1>3 DEF StraightInv
  <2>2. doc'.state \in Early =>
          IsVerified' \/ (doc'.runs = <<>> /\ {job', listed'} \subseteq {None, "COUNCIL_DISCOVERY"})
    BY <1>1, <2>1 DEF Straight
  <2> QED BY <1>1, <1>2, <2>1, <2>2 DEF Straight
<1> QED BY <1>2, <1>3 DEF StraightInv, ReadyIsVerified, ReadyIsJudged, ReadyIsDecidable, OwnerTerminal

\* While Cursor is at work only its finished runs matter.
LEMMA CursorIsStraight ==
  ASSUME IInv, StraightInv, doc'.state = "CURSOR_EXECUTING", job' # None,
         doc'.delivery = doc.delivery, doc'.error = doc.error,
         RecordsAreOfRuns => RecordsAreOfRuns'
  PROVE  StraightInv'
<1>1. ASSUME ~doc'.error PROVE Straight'
  BY <1>1 DEF StraightInv, Straight, Early, Judging, OwnerTerminal
<1> QED BY <1>1 DEF StraightInv, ReadyIsVerified, ReadyIsJudged, ReadyIsDecidable, OwnerTerminal

\* Where the document is left alone only the job can go astray.
LEMMA QuietIsStraight ==
  ASSUME IInv, StraightInv, UNCHANGED doc,
         Straight =>
           /\ job' = None /\ doc.state \in Working => doc.state \in Early
           /\ doc.state \in {"SPECIFICATION_READY", "PROJECT_PROVISIONING", "PLATFORM_VERIFICATION"} =>
                job' \notin {"COUNCIL_REVIEW", "FINAL_VERIFICATION"}
           /\ doc.state \in Early /\ {job, listed} \subseteq {None, "COUNCIL_DISCOVERY"} =>
                {job', listed'} \subseteq {None, "COUNCIL_DISCOVERY"}
  PROVE  StraightInv'
<1>1. /\ IsVerified' <=> IsVerified
      /\ IsAccepted' <=> IsAccepted
      /\ RecordsAreOfRuns' <=> RecordsAreOfRuns
  BY DEF IsVerified, IsAccepted, RecordsAreOfRuns, Fresh, FinalSha
<1>2. ASSUME ~doc'.error PROVE Straight'
  <2>1. Straight
    BY <1>2 DEF StraightInv
  <2> QED BY <1>1, <2>1 DEF Straight
<1> QED BY <1>2 DEF StraightInv, ReadyIsVerified, ReadyIsJudged, ReadyIsDecidable, Fresh, FinalSha

LEMMA SameJobIsStraight ==
  ASSUME IInv, StraightInv, UNCHANGED <<doc, job, listed>>
  PROVE  StraightInv'
<1>1. Straight =>
        /\ job' = None /\ doc.state \in Working => doc.state \in Early
        /\ doc.state \in {"SPECIFICATION_READY", "PROJECT_PROVISIONING", "PLATFORM_VERIFICATION"} =>
             job' \notin {"COUNCIL_REVIEW", "FINAL_VERIFICATION"}
  BY DEF Straight
<1> QED BY <1>1, QuietIsStraight

\* What is offered remains so whoever looks at it.
LEMMA OfferStays ==
  ASSUME StraightInv, SameEvidence(doc, doc'), doc'.state \in OwnerTerminal, doc.state \in OwnerTerminal,
         doc'.state = "READY_FOR_OWNER_REVIEW" => doc.state = "READY_FOR_OWNER_REVIEW" /\ doc'.delivery = doc.delivery
  PROVE  ReadyIsVerified' /\ ReadyIsJudged' /\ ReadyIsDecidable'
<1>1. LastRun(doc') = LastRun(doc) /\ KeyOf(doc') = KeyOf(doc)
  BY DEF LastRun, KeyOf, SameEvidence
<1>2. ReadyIsVerified'
  BY <1>1 DEF StraightInv, ReadyIsVerified, Fresh, FinalSha, SameEvidence
<1>3. ReadyIsJudged'
  BY DEF StraightInv, ReadyIsJudged, SameEvidence
<1>4. ReadyIsDecidable'
  BY <1>1 DEF StraightInv, ReadyIsDecidable, Decidable
<1> QED BY <1>2, <1>3, <1>4

LEMMA ThrowingIsStraight ==
  ASSUME IInv, StraightInv, pc # "idle", NEW retryable \in BOOLEAN, Throws(retryable), UNCHANGED listed
  PROVE  StraightInv'
<1>1. CASE retryable /\ attempts < MaxAttempts
  <2>1. UNCHANGED <<doc, job, listed>>
    BY <1>1 DEF Throws, queueVars
  <2> QED BY <2>1, SameJobIsStraight
<1>2. CASE ~(retryable /\ attempts < MaxAttempts)
  <2>1. doc' = FailedDocument(doc) /\ doc \in Document
    BY <1>2 DEF Throws, IInv, TypeOK
  <2>2. /\ doc' \in Document /\ doc'.error = TRUE
        /\ doc.state \in Working => doc'.state = "FAILED"
        /\ doc.state \notin Working => doc'.state = doc.state
        /\ Alike([doc EXCEPT !.error = TRUE], doc')
    BY <2>1, FailedIs
  <2>3. PICK e : e = [doc EXCEPT !.error = TRUE]
    OBVIOUS
  <2>4. SameEvidence(doc, doc') /\ doc'.delivery = doc.delivery
    BY <2>1, <2>2, <2>3 DEF Alike, SameEvidence, Document
  <2>5. CASE doc'.state \in OwnerTerminal
    <3>1. doc'.state = doc.state
      BY <2>2, <2>5 DEF OwnerTerminal
    <3> QED BY <2>2, <2>4, <2>5, <3>1, OfferStays DEF StraightInv
  <2>6. CASE doc'.state \notin OwnerTerminal
    BY <2>2, <2>6 DEF StraightInv, ReadyIsVerified, ReadyIsJudged, ReadyIsDecidable, OwnerTerminal
  <2> QED BY <2>5, <2>6
<1> QED BY <1>1, <1>2

LEMMA RejectingIsStraight ==
  ASSUME IInv, StraightInv, pc # "idle", NEW retryable \in BOOLEAN, Rejects(retryable)
  PROVE  StraightInv'
  BY ThrowingIsStraight DEF Rejects, envVars

LEMMA MovingIsStraight ==
  ASSUME IInv, StraightInv, pc # "idle", doc' \in Document, Alike(doc, doc'),
         UNCHANGED <<tree, job, listed>>, doc.state \in Working, doc'.state \in Working,
         ~doc.error =>
           /\ doc'.state \in {"SPECIFICATION_READY", "PROJECT_PROVISIONING", "PLATFORM_VERIFICATION"} =>
                job \notin {"COUNCIL_REVIEW", "FINAL_VERIFICATION"}
           /\ doc'.state \in Early => doc.state \in Early
           /\ doc'.state = "PLATFORM_VERIFICATION" => LastRun(doc).iteration = doc.iteration /\ HasRun(doc)
           /\ doc'.state \in Judging \ {"PLATFORM_VERIFICATION"} => IsVerified
           /\ doc'.state \in {"FINAL_VERIFICATION", "DELIVERY_PREPARATION"} => IsAccepted
           /\ doc'.state = "DELIVERY_PREPARATION" => doc.final.count = Len(doc.runs)
  PROVE  StraightInv'
<1>1. SameRuns(doc, doc') /\ job # None
  BY SameRunsIsReflexive DEF Alike, IInv, CallIsOfState
<1> QED BY <1>1, GoingStraight DEF Alike

\* A save of anything but runs and records, in the state it finds.
LEMMA NotingIsStraight ==
  ASSUME IInv, StraightInv, pc # "idle", doc' \in Document, SameRuns(doc, doc'), doc'.iteration = doc.iteration,
         doc'.verified = doc.verified, doc'.delivery = doc.delivery, doc'.error = doc.error,
         UNCHANGED <<tree, job, listed>>, doc.state \in Working, doc'.state = doc.state,
         doc'.final = doc.final \/ doc.state # "DELIVERY_PREPARATION"
  PROVE  StraightInv'
<1>1. job # None
  BY DEF IInv, CallIsOfState
<1>2. doc.state = "PLATFORM_VERIFICATION" => HasRun(doc)
  BY DEF IInv, StateIsEarned, Judging
<1>3. doc.state \in Judging \ {"PLATFORM_VERIFICATION"} =>
        doc.state \in (Judging \ {"PLATFORM_VERIFICATION"}) \cup OwnerTerminal
  OBVIOUS
<1> QED BY <1>1, <1>2, <1>3, GoingStraight DEF StraightInv, Straight

LEMMA DiscoveryIsStraight ==
  ASSUME IInv, StraightInv, Discovery
  PROVE  StraightInv'
<1>1. CASE EnterDiscovery
  <2>1. doc.state \in Early /\ pc # "idle" /\ UNCHANGED <<tree, job, listed>>
    BY <1>1, AtIs, AtState, StatesAre DEF EnterDiscovery, Early, Moves, Saves, queueVars, envVars
  <2>2. doc' \in Document /\ Alike(doc, doc') /\ doc'.state = "COUNCIL_DISCOVERY"
    BY <1>1, EnterDiscoveryKeeps
  <2> QED BY <2>1, <2>2, MovingIsStraight, WorkingAre DEF Early, Judging
<1>2. CASE RecoverSpec
  <2>1. pc # "idle" /\ UNCHANGED <<tree, job, listed>> /\ doc.state = "COUNCIL_DISCOVERY" /\ job = "COUNCIL_DISCOVERY"
    BY <1>2, AtIs, AtState, StatesAre DEF RecoverSpec, Moves, Saves, queueVars, envVars
  <2>2. doc' \in Document /\ Alike(doc, doc') /\ doc'.state = "SPECIFICATION_READY"
    BY <1>2, RecoverSpecKeeps
  <2> QED BY <2>1, <2>2, MovingIsStraight, WorkingAre DEF Early, Judging
<1>3. CASE Discover
  <2>1. pc # "idle" /\ UNCHANGED <<tree, job, listed>> /\ doc.state = "COUNCIL_DISCOVERY" /\ job = "COUNCIL_DISCOVERY"
    BY <1>3 DEF Discover, Moves, Saves, queueVars, envVars, IInv, CallIsOfState
  <2>2. doc' \in Document /\ Alike(doc, doc') /\ doc'.state = "SPECIFICATION_READY"
    BY <1>3, DiscoverKeeps
  <2> QED BY <2>1, <2>2, MovingIsStraight, WorkingAre DEF Early, Judging
<1>4. CASE BeginDiscovery
  BY <1>4, BeginningKeeps, SameJobIsStraight
<1> QED BY <1>1, <1>2, <1>3, <1>4 DEF Discovery

LEMMA ProvisioningIsStraight ==
  ASSUME IInv, StraightInv, Provisioning
  PROVE  StraightInv'
<1>1. CASE SkipProvisioning
  <2>1. pc # "idle" /\ UNCHANGED <<tree, job, listed>>
    BY <1>1, AtIs DEF SkipProvisioning, Moves, Saves, queueVars, envVars
  <2>2. doc' \in Document /\ Alike(doc, doc') /\ doc'.state = "CURSOR_EXECUTING"
    BY <1>1, SkipProvisioningKeeps
  <2>3. doc.state \in Working
    BY <1>1, SkipProvisioningKeeps, WorkingAre
  <2> QED BY <2>1, <2>2, <2>3, MovingIsStraight, WorkingAre DEF Early, Judging
<1>2. CASE EnterProvisioning
  <2>1. /\ pc # "idle" /\ UNCHANGED <<tree, job, listed>> /\ doc.state = "SPECIFICATION_READY"
        /\ job \notin {"COUNCIL_REVIEW", "FINAL_VERIFICATION"}
    BY <1>2, AtIs, StepsAre DEF EnterProvisioning, Moves, Saves, queueVars, envVars, Document
  <2>2. doc' \in Document /\ Alike(doc, doc') /\ doc'.state = "PROJECT_PROVISIONING"
    BY <1>2, EnterProvisioningKeeps
  <2> QED BY <2>1, <2>2, MovingIsStraight, WorkingAre DEF Early, Judging
<1>3. CASE Provision
  <2>1. pc # "idle" /\ UNCHANGED <<tree, job, listed>> /\ doc \in Document
    BY <1>3 DEF Provision, Saves, queueVars, envVars, IInv, TypeOK
  <2>2. /\ doc' \in Document /\ doc'.state = "PROJECT_PROVISIONING" /\ doc.state = "PROJECT_PROVISIONING"
        /\ Alike([doc EXCEPT !.provisioned = TRUE], doc')
    BY <1>3, ProvisionKeeps
  <2>3. PICK e : e = [doc EXCEPT !.provisioned = TRUE]
    OBVIOUS
  <2>4. /\ doc'.runs = doc.runs /\ doc'.iteration = doc.iteration /\ doc'.verified = doc.verified
        /\ doc'.delivery = doc.delivery /\ doc'.error = doc.error /\ doc'.final = doc.final
    BY <2>1, <2>2, <2>3 DEF Alike, Document
  <2> QED BY <2>1, <2>2, <2>4, SameRunsIsReflexive, NotingIsStraight, WorkingAre
<1>4. CASE BeginProvisioning
  BY <1>4, BeginningKeeps, SameJobIsStraight
<1> QED BY <1>1, <1>2, <1>3, <1>4 DEF Provisioning

LEMMA RecordsStay ==
  ASSUME doc'.runs = doc.runs, doc'.verified = doc.verified
  PROVE  RecordsAreOfRuns => RecordsAreOfRuns'
<1>1. ASSUME RecordsAreOfRuns, NEW k \in DOMAIN doc'.verified
      PROVE  \E l \in DOMAIN doc'.runs : /\ doc'.runs[l].done
                                         /\ doc'.runs[l].iteration = doc'.verified[k].iteration
                                         /\ doc'.runs[l].sha = doc'.verified[k].sha
  <2>1. k \in DOMAIN doc.verified
    OBVIOUS
  <2>2. PICK l \in DOMAIN doc.runs : /\ doc.runs[l].done
                                    /\ doc.runs[l].iteration = doc.verified[k].iteration
                                    /\ doc.runs[l].sha = doc.verified[k].sha
    BY <1>1, <2>1 DEF RecordsAreOfRuns
  <2> QED BY <2>2
<1> QED BY <1>1 DEF RecordsAreOfRuns

\* A request for another iteration, or its refusal.
LEMMA RequestIsStraight ==
  ASSUME IInv, StraightInv, pc # "idle",
         \/ \E retryable \in BOOLEAN : Rejects(retryable)
         \/ /\ doc' \in Document /\ \E r : Alike([doc EXCEPT !.review = r, !.iteration = @ + 1], doc')
            /\ doc'.state = "CURSOR_EXECUTING" /\ UNCHANGED <<tree, queueVars, envVars>>
  PROVE  StraightInv'
<1>1. CASE \E retryable \in BOOLEAN : Rejects(retryable)
  BY <1>1, RejectingIsStraight
<1>2. ASSUME NEW r, Alike([doc EXCEPT !.review = r, !.iteration = @ + 1], doc'), doc'.state = "CURSOR_EXECUTING",
             UNCHANGED <<tree, queueVars, envVars>>
      PROVE  StraightInv'
  <2>1. doc \in Document
    BY DEF IInv, TypeOK
  <2>2. PICK e : e = [doc EXCEPT !.review = r, !.iteration = @ + 1]
    OBVIOUS
  <2>3. /\ doc'.runs = doc.runs /\ doc'.verified = doc.verified
        /\ doc'.delivery = doc.delivery /\ doc'.error = doc.error
    BY <1>2, <2>1, <2>2 DEF Alike, Document
  <2>4. RecordsAreOfRuns => RecordsAreOfRuns'
    BY <2>3, RecordsStay
  <2>5. job' # None
    BY <1>2 DEF queueVars, IInv, CallIsOfState
  <2> QED BY <1>2, <2>3, <2>4, <2>5, CursorIsStraight
<1> QED BY <1>1, <1>2

LEMMA ImplementationIsStraight ==
  ASSUME IInv, StraightInv, Implementation
  PROVE  StraightInv'
<1>1. CASE StartImplementation
  <2>1. pc # "idle"
    BY <1>1, AtIs, StatesAre DEF StartImplementation
  <2> QED BY <1>1, <2>1, StartImplementationKeeps, RequestIsStraight
<1>2. CASE ReplayCursor
  <2>1. /\ pc # "idle" /\ UNCHANGED <<tree, job, listed>>
        /\ job \notin {"COUNCIL_REVIEW", "FINAL_VERIFICATION"}
    BY <1>2, AtIs, StepsAre, StatesAre DEF ReplayCursor, Moves, Saves, queueVars, envVars, Document
  <2>2. /\ doc' \in Document /\ Alike(doc, doc') /\ doc'.state = "PLATFORM_VERIFICATION"
        /\ doc.state = "CURSOR_EXECUTING" /\ HasRun(doc) /\ LastRun(doc).iteration = doc.iteration
    BY <1>2, ReplayCursorKeeps
  <2> QED BY <2>1, <2>2, MovingIsStraight, WorkingAre DEF Early, Judging
<1>3. CASE StartCursor
  <2>1. doc \in Document /\ job' # None
    BY <1>3, AtIs, StatesAre DEF StartCursor, queueVars, IInv, CallIsOfState
  <2>2. PICK r, i : Alike([doc EXCEPT !.runs = r, !.iteration = i], doc')
    BY <1>3, StartCursorKeeps
  <2>3. PICK e : e = [doc EXCEPT !.runs = r, !.iteration = i]
    OBVIOUS
  <2>4. /\ doc'.verified = doc.verified /\ doc'.delivery = doc.delivery /\ doc'.error = doc.error
    BY <2>1, <2>2, <2>3 DEF Alike, Document
  <2>5. /\ doc'.state = "CURSOR_EXECUTING"
        /\ \A k \in DOMAIN doc.runs : k \in DOMAIN doc'.runs /\ doc'.runs[k] = doc.runs[k]
    BY <1>3, StartCursorKeeps
  <2>6. RecordsAreOfRuns => RecordsAreOfRuns'
    BY <2>4, <2>5 DEF RecordsAreOfRuns
  <2> QED BY <2>1, <2>4, <2>5, <2>6, CursorIsStraight
<1>4. CASE SaveCursorResult
  <2>1. doc \in Document /\ job' # None
    BY <1>4 DEF SaveCursorResult, Saves, queueVars, IInv, CallIsOfState, TypeOK
  <2>2. PICK r : Alike([doc EXCEPT !.runs = r], doc')
    BY <1>4, SaveCursorResultKeeps
  <2>3. PICK e : e = [doc EXCEPT !.runs = r]
    OBVIOUS
  <2>4. /\ doc'.verified = doc.verified /\ doc'.delivery = doc.delivery /\ doc'.error = doc.error
    BY <2>1, <2>2, <2>3 DEF Alike, Document
  <2>5. /\ doc'.state = "CURSOR_EXECUTING" /\ doc' \in Document /\ Len(doc'.runs) = Len(doc.runs)
        /\ \A k \in DOMAIN doc.runs : doc.runs[k].done => doc'.runs[k] = doc.runs[k]
    BY <1>4, SaveCursorResultKeeps
  <2>6. DOMAIN doc'.runs = DOMAIN doc.runs
    BY <2>1, <2>5, RunsAre
  <2>7. RecordsAreOfRuns => RecordsAreOfRuns'
    BY <2>4, <2>5, <2>6 DEF RecordsAreOfRuns
  <2> QED BY <2>1, <2>4, <2>5, <2>7, CursorIsStraight
<1>5. CASE CursorReturns
  BY <1>5, BeginningKeeps, SameJobIsStraight
<1>6. CASE Checkpoint
  BY <1>6, CheckpointKeeps, SameJobIsStraight DEF Checkpoint, queueVars, envVars
<1> QED BY <1>1, <1>2, <1>3, <1>4, <1>5, <1>6 DEF Implementation

\* A record that passed on the commit of the last run makes the latest one
\* be of that commit: no older run of another iteration is taken for it.
LEMMA ReusedIsFresh ==
  ASSUME IInv, RecordsAreOfRuns, HasRun(doc), LastRun(doc).done, ReusableVerification(doc)
  PROVE  Fresh(doc.verified)
<1>1. PICK k \in DOMAIN doc.verified : doc.verified[k].sha = LastRun(doc).sha
  BY DEF ReusableVerification
<1>a. PICK R : R = [iteration: Nat, sha: Nat, verdict: PlatformOutcomes]
  OBVIOUS
<1>2. PICK s \in Seq(R) : s = doc.verified
  BY <1>a DEF IInv, TypeOK, Document
<1>3. PICK i : i = LastRun(doc).iteration
  OBVIOUS
<1>4. PICK n : n = Latest(s, i)
  OBVIOUS
<1>5. /\ Len(s) \in Nat /\ DOMAIN s = 1..Len(s) /\ (\A l \in DOMAIN s : s[l] \in R)
      /\ n \in 0..Len(s) /\ (n = 0 <=> s = <<>>)
      /\ \A l \in DOMAIN s : s[l].iteration = i => l <= n /\ s[n].iteration = i
      /\ (\A l \in DOMAIN s : s[l].iteration # i) => n = Len(s)
  BY <1>4, ElementsAre, LatestIs
<1>6. n > 0 /\ n \in DOMAIN s
  <2>1. k \in DOMAIN s
    BY <1>2
  <2>2. Len(s) \in Nat /\ DOMAIN s = 1..Len(s)
    BY <1>5
  <2>3. n \in 0..Len(s) /\ (n = 0 <=> s = <<>>)
    BY <1>5
  <2>4. s # <<>>
    <3>1. s = <<>> => Len(s) = 0
      OBVIOUS
    <3>2. Len(s) # 0
      BY <2>1, <2>2
    <3> QED BY <3>1, <3>2
  <2> QED BY <2>2, <2>3, <2>4
<1>7. s[n].sha = LastRun(doc).sha
  <2>1. CASE \E l \in DOMAIN s : s[l].iteration = i
    <3>1. s[n].iteration = i
      BY <2>1, <1>5
    <3>2. PICK l \in DOMAIN doc.runs : doc.runs[l].iteration = s[n].iteration /\ doc.runs[l].sha = s[n].sha
      BY <1>2, <1>6 DEF RecordsAreOfRuns
    <3>3. /\ Len(doc.runs) \in DOMAIN doc.runs /\ DOMAIN doc.runs = 1..Len(doc.runs) /\ Len(doc.runs) \in Nat
          /\ \A m \in DOMAIN doc.runs : doc.runs[m].iteration \in Nat
      BY RunsAre DEF IInv, TypeOK, Run
    <3>4. l = Len(doc.runs)
      <4>1. l < Len(doc.runs) => doc.runs[l].iteration < doc.runs[Len(doc.runs)].iteration
        BY <3>3 DEF IInv, RunsInOrder
      <4>2. doc.runs[l].iteration = doc.runs[Len(doc.runs)].iteration
        BY <3>1, <3>2, <1>3 DEF LastRun
      <4> QED BY <3>3, <4>1, <4>2
    <3> QED BY <3>2, <3>4 DEF LastRun
  <2>2. CASE \A l \in DOMAIN s : s[l].iteration # i
    <3>1. n = Len(s) /\ k \in DOMAIN s
      BY <2>2, <1>2, <1>5
    <3>2. k = n \/ s[k].sha <= s[n].sha
      <4>1. k = n \/ k < n
        BY <3>1, <1>5
      <4> QED BY <4>1, <3>1, <1>2, <1>6 DEF IInv, RecordsInOrder
    <3>3. s[n].sha <= tree.head /\ LastRun(doc).sha = tree.head
      BY <1>2, <1>6 DEF IInv, RecordsInOrder, HeadIsLast
    <3>4. s[n].sha \in Nat /\ tree.head \in Nat
      BY <1>a, <1>5, <1>6 DEF IInv, TypeOK
    <3> QED BY <1>1, <1>2, <3>2, <3>3, <3>4
  <2> QED BY <2>1, <2>2
<1> QED BY <1>2, <1>3, <1>4, <1>6, <1>7 DEF Fresh, FinalSha

LEMMA VerifiedInPlace ==
  ASSUME IInv, Straight, doc.state = "PLATFORM_VERIFICATION", Fresh(doc.verified)
  PROVE  IsVerified
  BY DEF IInv, StateIsEarned, Judging, Straight, IsVerified

\* A record added for the last run is of it.
LEMMA RecordAdded ==
  ASSUME IInv, doc' \in Document, RecordsAreOfRuns, SameRuns(doc, doc'), HasRun(doc), LastRun(doc).done,
         NEW r, r.sha = LastRun(doc).sha, r.iteration = LastRun(doc).iteration,
         doc'.verified = Append(doc.verified, r)
  PROVE  RecordsAreOfRuns'
<1>1. /\ DOMAIN doc'.runs = DOMAIN doc.runs /\ Len(doc.runs) \in DOMAIN doc.runs
  BY RunsAre DEF SameRuns, IInv, TypeOK
<1>2. PICK R : R = [iteration: Nat, sha: Nat, verdict: PlatformOutcomes]
  OBVIOUS
<1>3. PICK s \in Seq(R) : s = doc.verified
  BY <1>2 DEF IInv, TypeOK, Document
<1>4. /\ DOMAIN Append(s, r) = 1..Len(s) + 1 /\ DOMAIN s = 1..Len(s) /\ Len(s) \in Nat
      /\ \A k \in DOMAIN s : Append(s, r)[k] = s[k]
      /\ Append(s, r)[Len(s) + 1] = r
  OBVIOUS
<1>5. \A k \in DOMAIN Append(s, r) : k \in DOMAIN s \/ k = Len(s) + 1
  BY <1>4
<1>6. ASSUME NEW k \in DOMAIN doc'.verified
      PROVE  \E l \in DOMAIN doc'.runs : /\ doc'.runs[l].done
                                         /\ doc'.runs[l].iteration = doc'.verified[k].iteration
                                         /\ doc'.runs[l].sha = doc'.verified[k].sha
  <2>1. CASE k \in DOMAIN s
    <3>1. doc'.verified[k] = doc.verified[k] /\ k \in DOMAIN doc.verified
      BY <1>3, <1>4, <2>1
    <3>2. PICK l \in DOMAIN doc.runs : /\ doc.runs[l].done
                                      /\ doc.runs[l].iteration = doc.verified[k].iteration
                                      /\ doc.runs[l].sha = doc.verified[k].sha
      BY <3>1 DEF RecordsAreOfRuns
    <3> QED BY <1>1, <3>1, <3>2 DEF SameRuns
  <2>2. CASE k = Len(s) + 1
    <3>1. doc'.verified[k] = r
      BY <1>3, <1>4, <2>2
    <3> QED BY <1>1, <3>1 DEF SameRuns, LastRun
  <2> QED BY <1>3, <1>5, <2>1, <2>2
<1> QED BY <1>6 DEF RecordsAreOfRuns

LEMMA VerifyIsStraight ==
  ASSUME IInv, StraightInv, Verify
  PROVE  StraightInv'
<1>1. /\ doc.state = "PLATFORM_VERIFICATION" /\ doc'.state = "PLATFORM_VERIFICATION"
      /\ doc' \in Document /\ SameRuns(doc, doc') /\ doc \in Document
  BY VerifyKeeps DEF IInv, TypeOK
<1>2. PICK r \in [iteration: Nat, sha: Nat, verdict: PlatformOutcomes] :
        /\ r.sha = LastRun(doc).sha /\ r.iteration = doc.iteration
        /\ doc'.verified = Append(doc.verified, r)
  BY VerifyKeeps
<1>3. PICK q : \E v : Alike([doc EXCEPT !.runs = q, !.verified = v], doc')
  BY VerifyKeeps
<1>4. PICK v : Alike([doc EXCEPT !.runs = q, !.verified = v], doc')
  BY <1>3
<1>5. PICK e : e = [doc EXCEPT !.runs = q, !.verified = v]
  OBVIOUS
<1>6. doc'.iteration = doc.iteration /\ doc'.delivery = doc.delivery /\ doc'.error = doc.error
  BY <1>1, <1>4, <1>5 DEF Alike, Document
<1>7. job # None /\ UNCHANGED <<tree, job, listed>>
  BY DEF Verify, Saves, queueVars, envVars, IInv, CallIsOfState
<1>8. HasRun(doc) /\ LastRun(doc).done
  BY <1>1 DEF IInv, StateIsEarned, Judging
<1>9. ASSUME ~doc'.error PROVE Straight'
  <2>1. Straight
    BY <1>6, <1>9 DEF StraightInv
  <2>2. LastRun(doc).iteration = doc.iteration
    BY <1>1, <2>1 DEF Straight
  <2>3. LastRun(doc').iteration = LastRun(doc).iteration
    <3>1. doc'.iteration >= doc.iteration
      <4>1. doc.iteration \in Nat
        BY DEF IInv, TypeOK
      <4> QED BY <1>6, <4>1
    <3>2. tree'.head = tree.head
      BY <1>7
    <3> QED BY <1>1, <1>8, <3>1, <3>2, SameRunsKeep
  <2>4. RecordsAreOfRuns'
    BY <1>1, <1>2, <1>8, <2>1, <2>2, RecordAdded DEF Straight
  <2> QED BY <1>1, <1>6, <1>7, <2>1, <2>2, <2>3, <2>4 DEF Straight, Early, OwnerTerminal
<1> QED BY <1>1, <1>9 DEF StraightInv, ReadyIsVerified, ReadyIsJudged, ReadyIsDecidable, OwnerTerminal

LEMMA VerificationIsStraight ==
  ASSUME IInv, StraightInv, Verification
  PROVE  StraightInv'
<1>1. CASE ReuseVerification
  <2>1. doc \in Document /\ job # None /\ UNCHANGED <<tree, job, listed>> /\ ReusableVerification(doc)
    BY <1>1, AtIs, StatesAre DEF ReuseVerification, Moves, Saves, queueVars, envVars, IInv, CallIsOfState
  <2>2. /\ doc.state = "PLATFORM_VERIFICATION" /\ doc'.state = "RUNTIME_VERIFICATION" /\ doc' \in Document
        /\ SameRuns(doc, doc')
    BY <1>1, ReuseVerificationKeeps
  <2>3. PICK q : Alike([doc EXCEPT !.runs = q], doc')
    BY <1>1, ReuseVerificationKeeps
  <2>4. PICK e : e = [doc EXCEPT !.runs = q]
    OBVIOUS
  <2>5. /\ doc'.iteration = doc.iteration /\ doc'.verified = doc.verified
        /\ doc'.delivery = doc.delivery /\ doc'.error = doc.error
    BY <2>1, <2>3, <2>4 DEF Alike, Document
  <2>6. ~doc.error => IsVerified
    <3>1. HasRun(doc) /\ LastRun(doc).done
      BY <2>2 DEF IInv, StateIsEarned, Judging
    <3>2. ~doc.error => Straight /\ RecordsAreOfRuns
      BY DEF StraightInv, Straight
    <3> QED BY <2>1, <2>2, <3>1, <3>2, ReusedIsFresh, VerifiedInPlace
  <2> QED BY <2>1, <2>2, <2>5, <2>6, GoingStraight, WorkingAre DEF Early
<1>2. CASE ReplayVerification
  <2>1. pc # "idle" /\ UNCHANGED <<tree, job, listed>> /\ ExistingVerification(doc)
    BY <1>2, AtIs, StatesAre DEF ReplayVerification, Moves, Saves, queueVars, envVars
  <2>2. /\ doc' \in Document /\ Alike(doc, doc') /\ doc.state = "PLATFORM_VERIFICATION"
        /\ doc'.state \in {"COUNCIL_REVIEW", "RUNTIME_VERIFICATION"}
    BY <1>2, ReplayVerificationKeeps DEF AfterPlatform
  <2>3. ~doc.error => IsVerified
    <3>1. HasRun(doc) /\ LastRun(doc).done /\ LastRun(doc).sha = tree.head /\ tree.head \in Nat
      BY <2>2 DEF IInv, StateIsEarned, Judging, HeadIsLast, TypeOK
    <3>2. LastRun(doc).sha # None
      BY <3>1, WorkflowAssumption
    <3>3. ASSUME ~doc.error PROVE IsVerified
      <4>1. Straight /\ LastRun(doc).iteration = doc.iteration
        BY <2>2, <3>3 DEF StraightInv, Straight
      <4>2. Fresh(doc.verified)
        BY <2>1, <3>2, <4>1 DEF ExistingVerification, IsCurrent, Fresh, FinalSha
      <4> QED BY <2>2, <4>1, <4>2, VerifiedInPlace
    <3> QED BY <3>3
  <2> QED BY <2>1, <2>2, <2>3, MovingIsStraight, WorkingAre DEF Early
<1>3. CASE Verify
  BY <1>3, VerifyIsStraight
<1>4. CASE ReplayRuntime \/ ReplayVisual
  <2>1. pc # "idle" /\ UNCHANGED <<tree, job, listed>>
    BY <1>4, AtIs, StatesAre DEF ReplayRuntime, ReplayVisual, Moves, Saves, queueVars, envVars
  <2>2. /\ doc' \in Document /\ Alike(doc, doc') /\ doc.state \in {"RUNTIME_VERIFICATION", "VISUAL_VERIFICATION"}
        /\ doc'.state \in {"COUNCIL_REVIEW", "VISUAL_VERIFICATION"}
    BY <1>4, ReplayRuntimeKeeps, ReplayVisualKeeps
  <2>3. ~doc.error => IsVerified
    BY <2>2 DEF StraightInv, Straight, Judging
  <2> QED BY <2>1, <2>2, <2>3, MovingIsStraight, WorkingAre DEF Early
<1>5. CASE Launch
  <2>1. pc # "idle" /\ UNCHANGED <<tree, job, listed>> /\ doc \in Document
    BY <1>5 DEF Launch, Saves, queueVars, envVars, IInv, TypeOK
  <2>2. doc' \in Document /\ doc'.state = "RUNTIME_VERIFICATION" /\ doc.state = "RUNTIME_VERIFICATION"
    BY <1>5, LaunchKeeps
  <2>3. PICK l : Alike([doc EXCEPT !.launched = l], doc')
    BY <1>5, LaunchKeeps
  <2>4. PICK e : e = [doc EXCEPT !.launched = l]
    OBVIOUS
  <2>5. /\ doc'.runs = doc.runs /\ doc'.iteration = doc.iteration /\ doc'.verified = doc.verified
        /\ doc'.delivery = doc.delivery /\ doc'.error = doc.error /\ doc'.final = doc.final
    BY <2>1, <2>3, <2>4 DEF Alike, Document
  <2> QED BY <2>1, <2>2, <2>5, SameRunsIsReflexive, NotingIsStraight, WorkingAre
<1>6. CASE Look
  <2>1. job # None /\ UNCHANGED <<tree, job, listed>> /\ doc \in Document
    BY <1>6 DEF Look, Moves, Saves, queueVars, envVars, IInv, CallIsOfState, TypeOK
  <2>2. doc' \in Document /\ doc.state = "VISUAL_VERIFICATION" /\ doc'.state = "COUNCIL_REVIEW"
    BY <1>6, LookKeeps
  <2>3. PICK s : Alike([doc EXCEPT !.seen = s], doc')
    BY <1>6, LookKeeps
  <2>4. PICK e : e = [doc EXCEPT !.seen = s]
    OBVIOUS
  <2>5. /\ doc'.runs = doc.runs /\ doc'.iteration = doc.iteration /\ doc'.verified = doc.verified
        /\ doc'.delivery = doc.delivery /\ doc'.error = doc.error
    BY <2>1, <2>3, <2>4 DEF Alike, Document
  <2>6. ~doc.error => IsVerified
    BY <2>2 DEF StraightInv, Straight, Judging
  <2> QED BY <2>1, <2>2, <2>5, <2>6, SameRunsIsReflexive, GoingStraight, WorkingAre DEF Early
<1>7. CASE BeginVerification \/ BeginRuntime \/ BeginVisual
  BY <1>7, BeginningKeeps, SameJobIsStraight
<1> QED BY <1>1, <1>2, <1>3, <1>4, <1>5, <1>6, <1>7 DEF Verification

LEMMA AcceptedIsPassed ==
  ASSUME IInv, IsVerified, IsAccepted
  PROVE  VerdictOn(doc.verified, LastRun(doc).iteration) \in {"PASS", "PARTIAL"}
<1>1. PICK R : R = [iteration: Nat, sha: Nat, verdict: PlatformOutcomes]
  OBVIOUS
<1>2. PICK s \in Seq(R) : s = doc.verified
  BY <1>1 DEF IInv, TypeOK, Document
<1>3. PICK n : n = Latest(s, doc.iteration)
  OBVIOUS
<1>4. n > 0 /\ LastRun(doc).iteration = doc.iteration
  BY <1>2, <1>3 DEF IsVerified, Fresh
<1>5. n \in DOMAIN s
  <2>1. n \in 0..Len(s)
    BY <1>3, LatestIs
  <2>2. DOMAIN s = 1..Len(s) /\ Len(s) \in Nat
    BY ElementsAre
  <2> QED BY <1>4, <2>1, <2>2
<1>6. s[n].verdict \in PlatformOutcomes
  <2>1. s[n] \in R
    BY <1>5, ElementsAre
  <2> QED BY <1>1, <2>1
<1>7. VerdictOn(doc.verified, doc.iteration) = s[n].verdict
  <2>1. n # 0
    BY <1>4
  <2> QED BY <2>1, <1>2, <1>3 DEF VerdictOn
<1> QED BY <1>4, <1>6, <1>7 DEF IsAccepted, Blocks, PlatformOutcomes

\* An offer is of work that was verified, accepted and judged, and nobody has
\* decided on its row.
LEMMA DeliveringIsStraight ==
  ASSUME IInv, StraightInv, doc.state = "DELIVERY_PREPARATION", Delivers, UNCHANGED <<tree, job, listed>>,
         doc'.error \/ (doc'.error = doc.error /\ doc'.state = "READY_FOR_OWNER_REVIEW")
  PROVE  StraightInv'
<1>1. CASE doc'.state = "DELIVERY_PREPARATION"
  BY <1>1 DEF StraightInv, ReadyIsVerified, ReadyIsJudged, ReadyIsDecidable, OwnerTerminal
<1>2. CASE doc'.state = "READY_FOR_OWNER_REVIEW"
  <2>1. /\ doc \in Document /\ doc' \in Document /\ SameEvidence(doc, doc')
        /\ GateOpen(doc) /\ doc'.delivery = Prepared(doc, "READY") /\ ~Refused(doc)
    BY <1>2 DEF Delivers, IInv, TypeOK
  <2>2. ~doc.error /\ Straight
    BY <2>1 DEF GateOpen, StraightInv
  <2>3. IsVerified /\ IsAccepted /\ doc.final.count = Len(doc.runs) /\ RecordsAreOfRuns
    BY <2>2 DEF Straight, Judging
  <2>4. /\ doc'.runs = doc.runs /\ doc'.verified = doc.verified /\ doc'.iteration = doc.iteration
        /\ doc'.final = doc.final /\ LastRun(doc') = LastRun(doc) /\ KeyOf(doc') = KeyOf(doc)
    BY <2>1 DEF SameEvidence, LastRun, KeyOf
  <2>5. Fresh(doc.verified) => Fresh(doc.verified)'
    BY <2>4 DEF Fresh, FinalSha
  <2>6. IsVerified'
    BY <2>3, <2>4, <2>5 DEF IsVerified, HasRun
  <2>7. VerdictOn(doc'.verified, LastRun(doc').iteration) \in {"PASS", "PARTIAL"}
    BY <2>3, <2>4, AcceptedIsPassed
  <2>8. LastRun(doc).sha \in Nat
    <3>1. HasRun(doc) /\ LastRun(doc).done
      BY <2>3 DEF IsVerified
    <3> QED BY <3>1 DEF IInv, HeadIsLast, TypeOK
  <2>9. /\ doc'.delivery.key = KeyOf(doc) /\ doc'.delivery.status = "READY"
        /\ doc'.delivery.decided => doc.delivery.key = KeyOf(doc) /\ doc.delivery.decided
    <3>1. /\ Prepared(doc, "READY").key = KeyOf(doc) /\ Prepared(doc, "READY").status \in {"READY"}
          /\ Prepared(doc, "READY").decided => doc.delivery.key = KeyOf(doc) /\ doc.delivery.decided
      BY <2>1, <2>8, PreparedIs
    <3> QED BY <2>1, <3>1
  <2>10. ~doc'.delivery.decided
    <3>1. SUFFICES ASSUME doc.delivery.key = KeyOf(doc), doc.delivery.decided
                   PROVE  FALSE
      BY <2>9
    <3>2. doc.delivery.status \in DeliveryStatuses \cup {None}
      BY <2>1 DEF Document
    <3>3. doc.delivery.status \notin {"SUPERSEDED", "APPROVED", None}
      BY <2>1, <3>1 DEF Refused, IInv, DeliveryIsKept
    <3>4. doc.delivery.status \notin {"PREPARING", "READY"}
      BY <2>2, <3>1 DEF Straight
    <3> QED BY <3>2, <3>3, <3>4 DEF DeliveryStatuses
  <2>11. ReadyIsVerified' /\ ReadyIsJudged' /\ ReadyIsDecidable'
    BY <1>2, <2>3, <2>4, <2>6, <2>7, <2>9, <2>10
       DEF ReadyIsVerified, ReadyIsJudged, ReadyIsDecidable, Decidable, IsVerified
  <2>12. RecordsAreOfRuns'
    BY <2>3, <2>4, RecordsStay
  <2>13. Straight'
    BY <1>2, <2>6, <2>10, <2>12, WorkingAre DEF Straight, Early, Judging
  <2> QED BY <2>11, <2>13 DEF StraightInv
<1> QED BY <1>1, <1>2 DEF Delivers

LEMMA JudgementIsStraight ==
  ASSUME IInv, StraightInv, Judgement
  PROVE  StraightInv'
<1>1. CASE BeginReview
  <2>1. pc # "idle"
    BY <1>1 DEF BeginReview, At
  <2>2. CASE Calls("reviewing")
    BY <2>2, SameJobIsStraight DEF Calls, queueVars, envVars
  <2> QED BY <1>1, <2>1, <2>2, RejectingIsStraight DEF BeginReview
<1>2. CASE CouncilReview
  <2>1. pc # "idle" /\ UNCHANGED <<tree, job, listed>> /\ doc \in Document
    BY <1>2 DEF CouncilReview, Saves, queueVars, envVars, IInv, TypeOK
  <2>2. doc' \in Document /\ doc'.state = doc.state /\ doc.state \in Working
    BY <1>2, CouncilReviewKeeps
  <2>3. PICK r : Alike([doc EXCEPT !.review = r], doc')
    BY <1>2, CouncilReviewKeeps
  <2>4. PICK e : e = [doc EXCEPT !.review = r]
    OBVIOUS
  <2>5. /\ doc'.runs = doc.runs /\ doc'.iteration = doc.iteration /\ doc'.verified = doc.verified
        /\ doc'.delivery = doc.delivery /\ doc'.error = doc.error /\ doc'.final = doc.final
    BY <2>1, <2>3, <2>4 DEF Alike, Document
  <2> QED BY <2>1, <2>2, <2>5, SameRunsIsReflexive, NotingIsStraight
<1>3. CASE AfterReview
  <2>1. pc # "idle"
    BY <1>3 DEF AfterReview, At
  <2>2. CASE /\ doc' \in Document /\ Alike(doc, doc') /\ ~Blocks(VerdictOn(doc.verified, doc.iteration))
             /\ doc.state = "COUNCIL_REVIEW" /\ doc'.state = "FINAL_VERIFICATION"
             /\ pc' = "start" /\ UNCHANGED <<tree, queueVars, envVars>>
    <3>1. ~doc.error => IsVerified /\ IsAccepted
      BY <2>2 DEF StraightInv, Straight, Judging, IsAccepted
    <3>2. UNCHANGED <<tree, job, listed>>
      BY <2>2 DEF queueVars, envVars
    <3> QED BY <2>1, <2>2, <3>1, <3>2, MovingIsStraight, WorkingAre DEF Early
  <2> QED BY <1>3, <2>1, <2>2, AfterReviewKeeps, RequestIsStraight
<1>4. CASE BeginFinal
  BY <1>4, BeginningKeeps, SameJobIsStraight
<1>5. CASE FinalVerify
  <2>1. pc # "idle" /\ UNCHANGED <<tree, job, listed>> /\ doc \in Document
    BY <1>5 DEF FinalVerify, Saves, queueVars, envVars, IInv, TypeOK
  <2>2. doc' \in Document /\ doc'.state = doc.state /\ doc.state \in Working \ {"DELIVERY_PREPARATION"}
    BY <1>5, FinalVerifyKeeps
  <2>3. PICK f : Alike([doc EXCEPT !.final = f], doc')
    BY <1>5, FinalVerifyKeeps
  <2>4. PICK e : e = [doc EXCEPT !.final = f]
    OBVIOUS
  <2>5. /\ doc'.runs = doc.runs /\ doc'.iteration = doc.iteration /\ doc'.verified = doc.verified
        /\ doc'.delivery = doc.delivery /\ doc'.error = doc.error
    BY <2>1, <2>3, <2>4 DEF Alike, Document
  <2> QED BY <2>1, <2>2, <2>5, SameRunsIsReflexive, NotingIsStraight
<1>6. CASE AfterFinal
  <2>1. pc # "idle"
    BY <1>6 DEF AfterFinal, At
  <2>2. CASE /\ doc' \in Document /\ Alike(doc, doc') /\ doc.final.count = Len(doc.runs)
             /\ doc.state = "FINAL_VERIFICATION" /\ doc'.state = "DELIVERY_PREPARATION"
             /\ pc' = "start" /\ UNCHANGED <<tree, queueVars, envVars>>
    <3>1. ~doc.error => IsVerified /\ IsAccepted
      BY <2>2 DEF StraightInv, Straight, Judging
    <3>2. UNCHANGED <<tree, job, listed>>
      BY <2>2 DEF queueVars, envVars
    <3> QED BY <2>1, <2>2, <3>1, <3>2, MovingIsStraight, WorkingAre DEF Early
  <2> QED BY <1>6, <2>1, <2>2, AfterFinalKeeps, RequestIsStraight
<1>7. CASE Deliver
  <2>1. pc # "idle"
    BY <1>7 DEF Deliver, At
  <2>2. CASE Delivers /\ doc'.error = doc.error /\ doc'.state = "READY_FOR_OWNER_REVIEW"
             /\ pc' = "start" /\ UNCHANGED <<tree, queueVars, envVars>>
    BY <1>7, <2>2, DeliverKeeps, DeliveringIsStraight DEF queueVars, envVars
  <2> QED BY <1>7, <2>1, <2>2, DeliverKeeps, RejectingIsStraight
<1> QED BY <1>1, <1>2, <1>3, <1>4, <1>5, <1>6, <1>7 DEF Judgement

\* The commands of the owner.
LEMMA OwnerIsStraight ==
  ASSUME IInv, StraightInv, RequestChanges \/ Approve \/ Interpret \/ Close
  PROVE  StraightInv'
<1>0. doc \in Document
  BY DEF IInv, TypeOK
<1>1. CASE RequestChanges \/ Approve \/ Close
  <2>1. /\ doc.state \in OwnerTerminal /\ SameEvidence(doc, doc') /\ doc'.error = doc.error
        /\ doc'.state \in {"OWNER_CHANGES_REQUESTED", "OWNER_APPROVED", "DONE"}
        /\ doc'.delivery.status \in {"PREPARING", "READY"} => doc'.delivery = doc.delivery
        /\ UNCHANGED <<tree, job, listed>>
    BY <1>1, RequestChangesKeeps, ApproveKeeps, CloseKeeps DEF OwnerTerminal, Alike, SameEvidence
  <2>2. LastRun(doc') = LastRun(doc) /\ doc'.runs = doc.runs /\ doc'.verified = doc.verified
        /\ doc'.iteration = doc.iteration
    BY <2>1 DEF LastRun, SameEvidence
  <2>3. IsVerified => IsVerified'
    BY <2>2 DEF IsVerified, HasRun, Fresh, FinalSha
  <2>4. RecordsAreOfRuns => RecordsAreOfRuns'
    BY <2>2, RecordsStay
  <2>5. ASSUME ~doc'.error PROVE Straight'
    <3>1. Straight
      BY <2>1, <2>5 DEF StraightInv
    <3>2. IsVerified'
      BY <2>1, <2>3, <3>1 DEF Straight
    <3> QED BY <2>1, <2>4, <3>1, <3>2, WorkingAre DEF Straight, Early, Judging, OwnerTerminal
  <2>6. CASE doc'.state \in OwnerTerminal
    BY <2>1, <2>5, <2>6, OfferStays DEF StraightInv
  <2>7. CASE doc'.state \notin OwnerTerminal
    BY <2>5, <2>7 DEF StraightInv, ReadyIsVerified, ReadyIsJudged, ReadyIsDecidable, OwnerTerminal
  <2> QED BY <2>6, <2>7
<1>2. CASE Interpret /\ UNCHANGED doc
  BY <1>2, InterpretKeeps, SameJobIsStraight
<1>3. CASE Interpret /\ ~UNCHANGED doc
  <2>1. /\ UNCHANGED <<tree, job, listed>> /\ doc' \in Document /\ Alike(doc, doc')
        /\ doc'.state = "COUNCIL_DISCOVERY"
        /\ doc.state \in {"IDEA_SUBMITTED", "OWNER_CHANGES_REQUESTED", "FAILED"}
    BY <1>3, InterpretKeeps
  <2>2. /\ doc'.runs = doc.runs /\ doc'.verified = doc.verified /\ doc'.iteration = doc.iteration
        /\ doc'.error = doc.error /\ doc'.delivery = doc.delivery
    BY <2>1 DEF Alike
  <2>3. IsVerified => IsVerified'
    BY <2>1, <2>2 DEF IsVerified, HasRun, LastRun, Fresh, FinalSha
  <2>4. RecordsAreOfRuns => RecordsAreOfRuns'
    BY <2>2, RecordsStay
  <2>5. ASSUME ~doc'.error PROVE Straight'
    <3>1. Straight
      BY <2>2, <2>5 DEF StraightInv
    <3>2. doc.state \in Early
      BY <2>1, <3>1 DEF Straight, Early
    <3>3. IsVerified' \/ (doc'.runs = <<>> /\ {job', listed'} \subseteq {None, "COUNCIL_DISCOVERY"})
      BY <2>1, <2>2, <2>3, <3>1, <3>2 DEF Straight
    <3> QED BY <2>1, <2>2, <2>4, <3>1, <3>3 DEF Straight, Early, Judging, OwnerTerminal
  <2> QED BY <2>1, <2>5 DEF StraightInv, ReadyIsVerified, ReadyIsJudged, ReadyIsDecidable, OwnerTerminal
<1> QED BY <1>1, <1>2, <1>3

LEMMA NextJobGoesOn ==
  ASSUME NEW d \in Document
  PROVE  /\ d.state \in Early => NextJob(d) = "COUNCIL_DISCOVERY"
         /\ NextJob(d) \in {"COUNCIL_REVIEW", "FINAL_VERIFICATION"} =>
              d.state \in {"COUNCIL_REVIEW", "FINAL_VERIFICATION"}
<1>1. d.state \in Early => NextJob(d) = "COUNCIL_DISCOVERY"
  BY WorkingAre DEF Early, NextJob, JobOf
<1>2. CASE d.state \in Working
  BY <1>1, <1>2, WorkingAre DEF NextJob, JobOf
<1>3. CASE d.state \notin Working
  BY <1>1, <1>3, NoneAssumption, JobTypesAre DEF NextJob
<1> QED BY <1>1, <1>2, <1>3

\* The queue: a job that is inserted is the next one of its stage, or one that
\* a boot has planned for a project without a specification of its own.
LEMMA QueueIsStraight ==
  ASSUME IInv, StraightInv, Claim \/ HandOff \/ Enqueue \/ Reconcile \/ Boot
  PROVE  StraightInv'
<1>0. doc \in Document
  BY DEF IInv, TypeOK
<1>1. CASE Claim
  BY <1>1, SameJobIsStraight DEF Claim, envVars
<1>2. CASE HandOff
  <2>1. UNCHANGED <<doc, listed>> /\ job' = NextJob(doc)
    BY <1>2 DEF HandOff, envVars
  <2>2. job' = None => doc.state \notin Working
    BY <1>0, <2>1, NextJobIs
  <2> QED BY <1>0, <2>1, <2>2, NextJobGoesOn, QuietIsStraight
<1>3. CASE Enqueue
  <2>1. /\ UNCHANGED <<doc, listed>>
        /\ \/ job = None /\ job' = NextJob(doc)
           \/ job # None /\ job' = job
    BY <1>3 DEF Enqueue, Inserts, queueVars
  <2>2. NextJob(doc) = None => doc.state \notin Working
    BY <1>0, NextJobIs
  <2>3. Straight =>
          /\ job' = None /\ doc.state \in Working => doc.state \in Early
          /\ doc.state \in {"SPECIFICATION_READY", "PROJECT_PROVISIONING", "PLATFORM_VERIFICATION"} =>
               job' \notin {"COUNCIL_REVIEW", "FINAL_VERIFICATION"}
    BY <1>0, <2>1, <2>2, NextJobGoesOn DEF Straight
  <2> QED BY <1>0, <2>1, <2>3, NextJobGoesOn, QuietIsStraight
<1>4. CASE Reconcile
  <2>1. /\ UNCHANGED doc /\ listed' = None /\ listed # None
        /\ \/ job = None /\ job' = listed
           \/ job # None /\ job' = job
    BY <1>4 DEF Reconcile, Inserts, queueVars
  <2>2. Straight =>
          /\ job' = None /\ doc.state \in Working => doc.state \in Early
          /\ doc.state \in {"SPECIFICATION_READY", "PROJECT_PROVISIONING", "PLATFORM_VERIFICATION"} =>
               job' \notin {"COUNCIL_REVIEW", "FINAL_VERIFICATION"}
    BY <2>1, WorkingAre DEF Straight, Early
  <2> QED BY <2>1, <2>2, QuietIsStraight
<1>5. CASE Boot
  <2>1. UNCHANGED <<doc, job>> /\ listed' = NextJob(doc)
    BY <1>5 DEF Boot, queueVars
  <2>2. Straight =>
          /\ job' = None /\ doc.state \in Working => doc.state \in Early
          /\ doc.state \in {"SPECIFICATION_READY", "PROJECT_PROVISIONING", "PLATFORM_VERIFICATION"} =>
               job' \notin {"COUNCIL_REVIEW", "FINAL_VERIFICATION"}
    BY <2>1 DEF Straight
  <2> QED BY <1>0, <2>1, <2>2, NextJobGoesOn, QuietIsStraight
<1> QED BY <1>1, <1>2, <1>3, <1>4, <1>5

LEMMA InitIsStraight ==
  ASSUME Init
  PROVE  StraightInv
<1>1. PICK new \in BOOLEAN : doc = NewDocument(new)
  BY WorkflowAssumption DEF Init
<1>2. /\ doc.state = "IDEA_SUBMITTED" /\ doc.runs = <<>> /\ doc.verified = <<>> /\ doc.delivery = NoDelivery
  BY <1>1, NewDocumentIs
<1>3. DOMAIN doc.verified = {}
  BY <1>2
<1>4. job = None /\ listed = None
  BY DEF Init
<1>5. Straight
  BY <1>2, <1>3, <1>4 DEF Straight, RecordsAreOfRuns, Early, Judging, OwnerTerminal, NoDelivery
<1> QED BY <1>2, <1>5 DEF StraightInv, ReadyIsVerified, ReadyIsJudged, ReadyIsDecidable, OwnerTerminal

LEMMA StepIsStraight ==
  ASSUME NoRetry, IInv, StraightInv, [Next]_vars
  PROVE  StraightInv'
<1>1. CASE Work
  BY <1>1, QueueIsStraight, DiscoveryIsStraight, ProvisioningIsStraight, ImplementationIsStraight,
     VerificationIsStraight, JudgementIsStraight DEF Work
<1>2. CASE CursorEdits
  BY <1>2, CursorEditsKeeps, SameJobIsStraight
<1>3. CASE Retry
  BY <1>3 DEF Retry, Command, NoRetry
<1>4. CASE RequestChanges \/ Approve \/ Api
  BY <1>4, OwnerIsStraight, QueueIsStraight DEF Api
<1>5. CASE Error
  <2>1. PICK retryable \in BOOLEAN : Throws(retryable)
    BY <1>5 DEF Error
  <2> QED BY <1>5, <2>1, ThrowingIsStraight DEF Error
<1>6. CASE Crash \/ ApiCrash \/ UNCHANGED vars
  BY <1>6, SameJobIsStraight DEF Crash, ApiCrash, queueVars, vars
<1>7. CASE Boot
  BY <1>7, QueueIsStraight
<1>8. CASE BootDelivers
  BY <1>8, BootDeliversKeeps, DeliveringIsStraight DEF queueVars
<1> QED BY <1>1, <1>2, <1>3, <1>4, <1>5, <1>6, <1>7, <1>8 DEF Next

\* Where the owner never retries, a project without an error is where its stages
\* have led it.
THEOREM StraightInvariant ==
  ASSUME NoRetry
  PROVE  Spec => []StraightInv
<1>1. Init => StraightInv
  BY InitIsStraight
<1>2. IInv /\ StraightInv /\ [Next]_vars => StraightInv'
  BY StepIsStraight
<1> QED BY <1>1, <1>2, Invariant, PTL DEF Spec

\* Where the owner never retries, what is offered passed platform verification
\* on the commit that is offered: finishReview lets no council overrule the platform.
THEOREM ReadyVerified ==
  ASSUME NoRetry
  PROVE  Spec => []ReadyIsVerified
<1>1. StraightInv => ReadyIsVerified
  BY DEF StraightInv
<1> QED BY <1>1, StraightInvariant, PTL

\* Where the owner never retries, the final verification that lets a result
\* through has seen its last Cursor run (finishFinal).
THEOREM ReadyJudged ==
  ASSUME NoRetry
  PROVE  Spec => []ReadyIsJudged
<1>1. StraightInv => ReadyIsJudged
  BY DEF StraightInv
<1> QED BY <1>1, StraightInvariant, PTL

\* Where the owner never retries, an offer can be decided on: its delivery is
\* current and no earlier decision refers to its row (persistPhase9).
THEOREM ReadyDecidable ==
  ASSUME NoRetry
  PROVE  Spec => []ReadyIsDecidable
<1>1. StraightInv => ReadyIsDecidable
  BY DEF StraightInv
<1> QED BY <1>1, StraightInvariant, PTL

\* Where the owner never retries, the council reviews and judges only a finished
\* run whose commit the platform has verified, whatever stale jobs are left over.
THEOREM ReviewAfterVerification ==
  ASSUME NoRetry
  PROVE  Spec => []ReviewFollowsVerification
<1>1. ASSUME IInv, StraightInv, pc \in {"reviewing", "judging"}, ~doc.error
      PROVE  IsVerified
  <2>1. Straight
    BY <1>1 DEF StraightInv
  <2>2. doc.state \in {"SPECIFICATION_READY", "PROJECT_PROVISIONING"} => FALSE
    BY <1>1, <2>1 DEF IInv, CallIsOfState, Straight
  <2> QED BY <1>1, <2>1, <2>2, WorkingAre DEF IInv, CallIsOfState, Straight, WorksIn, Verifying, Early, Judging, HasRun
<1>2. IInv /\ StraightInv => ReviewFollowsVerification
  BY <1>1 DEF ReviewFollowsVerification, IsVerified
<1> QED BY <1>2, Invariant, StraightInvariant, PTL

-----------------------------------------------------------------------------
(* The promise to the owner *)

\* What Workflow promises of its steps: all of Autonomy but its fairness.
PromisedSafely == Promised!Init /\ [][Promised!Next]_(Promised!vars)

OfferOf == IF doc.state \in OwnerTerminal THEN FinalSha ELSE None

LEMMA ShownStays ==
  ASSUME UNCHANGED <<Phase, doc.iteration, tree.head, Proven, OfferOf>>
  PROVE  UNCHANGED Promised!vars
  BY DEF Promised!vars, OfferOf

LEMMA PhaseIs ==
  /\ Phase = "working" <=> doc.state \in Working
  /\ Phase = "offered" <=> doc.state = "READY_FOR_OWNER_REVIEW"
  /\ Phase = "failed" <=> doc.state = "FAILED"
  /\ doc.state \in {"OWNER_APPROVED", "DONE"} => Phase = "accepted"
  BY WorkingAre DEF Phase

LEMMA SameVerdictsProve ==
  ASSUME doc'.verified = doc.verified
  PROVE  Proven' = Proven
  BY DEF Proven

\* Where the document and the head stay nothing is shown.
LEMMA QuietMaps ==
  ASSUME UNCHANGED doc, tree'.head = tree.head
  PROVE  UNCHANGED Promised!vars
<1>1. Phase' = Phase /\ OfferOf' = OfferOf /\ Proven' = Proven
  BY SameVerdictsProve DEF Phase, OfferOf, FinalSha
<1> QED BY <1>1, ShownStays

\* Of the work nothing is shown but iterations, commits and verdicts.
LEMMA WorkingMaps ==
  ASSUME doc.state \in Working, doc'.state \in Working,
         doc'.iteration = doc.iteration, tree'.head = tree.head, doc'.verified = doc.verified
  PROVE  UNCHANGED Promised!vars
<1>1. Phase' = Phase
  BY DEF Phase
<1>2. OfferOf' = None /\ OfferOf = None
  BY DEF OfferOf, Working
<1> QED BY <1>1, <1>2, SameVerdictsProve, ShownStays

LEMMA AlikeMaps ==
  ASSUME doc.state \in Working, doc'.state \in Working, Alike(doc, doc'), UNCHANGED tree
  PROVE  UNCHANGED Promised!vars
  BY WorkingMaps DEF Alike

\* A further iteration.
LEMMA IteratingMaps ==
  ASSUME doc.state \in Working, doc'.state \in Working, doc.iteration < MaxIterations,
         doc'.iteration = doc.iteration + 1, tree'.head = tree.head, doc'.verified = doc.verified
  PROVE  Promised!Next
<1>1. Phase' = Phase /\ Phase = "working"
  BY PhaseIs DEF Phase
<1>2. OfferOf' = None /\ OfferOf = None
  BY DEF OfferOf, Working
<1>3. Promised!Iterate
  BY <1>1, <1>2, SameVerdictsProve DEF Promised!Iterate, OfferOf
<1> QED BY <1>3 DEF Promised!Next

\* A project that fails had not been offered.
LEMMA ThrowingMaps ==
  ASSUME IInv, pc # "idle", NEW retryable \in BOOLEAN, Throws(retryable), UNCHANGED tree
  PROVE  Promised!Next \/ UNCHANGED Promised!vars
<1>1. CASE UNCHANGED doc
  BY <1>1, QuietMaps
<1>2. CASE doc' = FailedDocument(doc)
  <2>1. doc \in Document
    BY DEF IInv, TypeOK
  <2>2. /\ doc' \in Document
        /\ doc.state \in Working => doc'.state = "FAILED"
        /\ doc.state \notin Working => doc'.state = doc.state
        /\ Alike([doc EXCEPT !.error = TRUE], doc')
    BY <1>2, <2>1, FailedIs
  <2>3. PICK e : e = [doc EXCEPT !.error = TRUE]
    OBVIOUS
  <2>4. doc'.runs = doc.runs /\ doc'.verified = doc.verified /\ doc'.iteration = doc.iteration
    BY <2>1, <2>2, <2>3 DEF Alike, Document
  <2>5. CASE doc.state \in Working
    <3>1. Phase = "working" /\ Phase' = "failed"
      BY <2>2, <2>5, WorkingAre DEF Phase
    <3>2. OfferOf = None /\ OfferOf' = None
      BY <2>2, <2>5 DEF OfferOf, OwnerTerminal, Working
    <3>3. Promised!Fail
      BY <2>4, <3>1, <3>2, SameVerdictsProve DEF Promised!Fail, OfferOf
    <3> QED BY <3>3 DEF Promised!Next
  <2>6. CASE doc.state \notin Working
    <3>1. Phase' = Phase /\ OfferOf' = OfferOf
      BY <2>2, <2>4, <2>6 DEF Phase, OfferOf, FinalSha, LastRun
    <3> QED BY <2>4, <3>1, SameVerdictsProve, ShownStays
  <2> QED BY <2>5, <2>6
<1> QED BY <1>1, <1>2 DEF Throws

LEMMA RequestMaps ==
  ASSUME IInv, pc # "idle", doc.state \in Working,
         \/ \E retryable \in BOOLEAN : Rejects(retryable)
         \/ /\ doc' \in Document /\ \E r : Alike([doc EXCEPT !.review = r, !.iteration = @ + 1], doc')
            /\ doc'.state = "CURSOR_EXECUTING" /\ doc.iteration < MaxIterations
            /\ pc' = "start" /\ UNCHANGED <<tree, queueVars, envVars>>
  PROVE  Promised!Next \/ UNCHANGED Promised!vars
<1>1. ASSUME NEW retryable \in BOOLEAN, Rejects(retryable)
      PROVE  Promised!Next \/ UNCHANGED Promised!vars
  BY <1>1, ThrowingMaps DEF Rejects
<1>2. ASSUME NEW r, Alike([doc EXCEPT !.review = r, !.iteration = @ + 1], doc'),
             doc'.state = "CURSOR_EXECUTING", doc.iteration < MaxIterations, UNCHANGED tree
      PROVE  Promised!Next
  <2>1. doc \in Document
    BY DEF IInv, TypeOK
  <2>2. PICK e : e = [doc EXCEPT !.review = r, !.iteration = @ + 1]
    OBVIOUS
  <2>3. doc'.verified = doc.verified /\ doc'.iteration = doc.iteration + 1
    BY <1>2, <2>1, <2>2 DEF Alike, Document
  <2> QED BY <1>2, <2>3, IteratingMaps, WorkingAre
<1> QED BY <1>1, <1>2

\* A commit is made in an iteration that was begun.
LEMMA CheckpointMaps ==
  ASSUME IInv, Checkpoint
  PROVE  Promised!Next \/ UNCHANGED Promised!vars
<1>1. UNCHANGED doc /\ tree'.head \in {tree.head, tree.head + 1} /\ doc.state = "CURSOR_EXECUTING" /\ HasRun(doc)
  BY CheckpointKeeps
<1>2. CASE tree'.head = tree.head + 1
  <2>1. Phase' = Phase /\ Phase = "working" /\ OfferOf' = OfferOf /\ Proven' = Proven
    BY <1>1, PhaseIs, WorkingAre, SameVerdictsProve DEF Phase, OfferOf, FinalSha
  <2>2. doc.iteration > 0
    <3>1. doc \in Document /\ doc.iteration \in Nat
      BY DEF IInv, TypeOK, Document
    <3>2. Len(doc.runs) \in DOMAIN doc.runs
      BY <1>1, <3>1, RunsAre
    <3>3. doc.runs[Len(doc.runs)].iteration \in 1..doc.iteration
      BY <3>2 DEF IInv, RunsInOrder
    <3> QED BY <3>1, <3>3
  <2>3. Promised!Implement
    BY <1>1, <1>2, <2>1, <2>2 DEF Promised!Implement, OfferOf
  <2> QED BY <2>3 DEF Promised!Next
<1> QED BY <1>1, <1>2, QuietMaps

LEMMA StartCursorMaps ==
  ASSUME IInv, StartCursor
  PROVE  Promised!Next \/ UNCHANGED Promised!vars
<1>1. doc \in Document /\ UNCHANGED tree
  BY DEF StartCursor, IInv, TypeOK
<1>2. /\ doc.state = "CURSOR_EXECUTING" /\ doc'.state = doc.state
      /\ doc'.iteration = IF doc.iteration = 0 THEN 1 ELSE doc.iteration
  BY StartCursorKeeps
<1>3. PICK r, i : Alike([doc EXCEPT !.runs = r, !.iteration = i], doc')
  BY StartCursorKeeps
<1>4. PICK e : e = [doc EXCEPT !.runs = r, !.iteration = i]
  OBVIOUS
<1>5. doc'.verified = doc.verified
  BY <1>1, <1>3, <1>4 DEF Alike, Document
<1>6. CASE doc.iteration = 0
  <2>1. doc'.iteration = doc.iteration + 1 /\ doc.iteration < MaxIterations
    BY <1>2, <1>6, WorkflowAssumption
  <2> QED BY <1>1, <1>2, <1>5, <2>1, IteratingMaps, WorkingAre
<1>7. CASE doc.iteration # 0
  BY <1>1, <1>2, <1>5, <1>7, WorkingMaps, WorkingAre
<1> QED BY <1>6, <1>7

\* Only a commit that passes becomes proven, and it is the head.
LEMMA VerifyMaps ==
  ASSUME IInv, Verify
  PROVE  Promised!Next \/ UNCHANGED Promised!vars
<1>1. /\ doc.state = "PLATFORM_VERIFICATION" /\ doc'.state = "PLATFORM_VERIFICATION"
      /\ doc \in Document /\ UNCHANGED tree
  BY VerifyKeeps DEF Verify, Saves, IInv, TypeOK
<1>2. PICK r \in [iteration: Nat, sha: Nat, verdict: PlatformOutcomes] :
        r.sha = tree.head /\ doc'.verified = Append(doc.verified, r)
  BY VerifyKeeps
<1>3. PICK q : \E v : Alike([doc EXCEPT !.runs = q, !.verified = v], doc')
  BY VerifyKeeps
<1>4. PICK v : Alike([doc EXCEPT !.runs = q, !.verified = v], doc')
  BY <1>3
<1>5. PICK e : e = [doc EXCEPT !.runs = q, !.verified = v]
  OBVIOUS
<1>6. doc'.iteration = doc.iteration
  BY <1>1, <1>4, <1>5 DEF Alike, Document
<1>7. Phase' = Phase /\ Phase = "working" /\ OfferOf' = None /\ OfferOf = None
  BY <1>1, PhaseIs, WorkingAre DEF Phase, OfferOf, OwnerTerminal
<1>8. PICK R : R = [iteration: Nat, sha: Nat, verdict: PlatformOutcomes]
  OBVIOUS
<1>9. PICK s \in Seq(R) : s = doc.verified
  BY <1>1, <1>8 DEF Document
<1>10. /\ DOMAIN Append(s, r) = 1..Len(s) + 1 /\ DOMAIN s = 1..Len(s) /\ Len(s) \in Nat
       /\ \A k \in DOMAIN s : Append(s, r)[k] = s[k]
       /\ Append(s, r)[Len(s) + 1] = r
  OBVIOUS
<1>11. DOMAIN Append(s, r) = DOMAIN s \cup {Len(s) + 1}
  BY <1>10
<1>12. Proven' = Proven \cup IF Blocks(r.verdict) THEN {} ELSE {tree.head}
  <2>1. PICK t : t = Append(s, r)
    OBVIOUS
  <2>2. PICK n : n = Len(s) + 1
    OBVIOUS
  <2>3. DOMAIN t = DOMAIN s \cup {n} /\ (\A k \in DOMAIN s : t[k] = s[k]) /\ t[n] = r
    BY <1>10, <1>11, <2>1, <2>2
  <2>4. Proven = {s[k].sha : k \in {l \in DOMAIN s : ~Blocks(s[l].verdict)}}
    BY <1>9 DEF Proven
  <2>5. Proven' = {t[k].sha : k \in {l \in DOMAIN t : ~Blocks(t[l].verdict)}}
    BY <1>2, <1>9, <2>1 DEF Proven
  <2>6. CASE Blocks(r.verdict)
    BY <2>3, <2>4, <2>5, <2>6
  <2>7. CASE ~Blocks(r.verdict)
    BY <1>2, <2>3, <2>4, <2>5, <2>7
  <2> QED BY <2>6, <2>7
<1>13. CASE Blocks(r.verdict)
  BY <1>1, <1>6, <1>7, <1>12, <1>13, ShownStays
<1>14. CASE ~Blocks(r.verdict)
  <2>1. Promised!Prove
    BY <1>1, <1>6, <1>7, <1>12, <1>14 DEF Promised!Prove, OfferOf
  <2> QED BY <2>1 DEF Promised!Next
<1> QED BY <1>13, <1>14

LEMMA AcceptedIsProven ==
  ASSUME IInv, IsVerified, IsAccepted
  PROVE  LastRun(doc).sha = tree.head /\ tree.head \in Proven
<1>1. LastRun(doc).sha = tree.head
  BY DEF IInv, HeadIsLast, IsVerified
<1>2. PICK R : R = [iteration: Nat, sha: Nat, verdict: PlatformOutcomes]
  OBVIOUS
<1>3. PICK s \in Seq(R) : s = doc.verified
  BY <1>2 DEF IInv, TypeOK, Document
<1>4. PICK n : n = Latest(s, doc.iteration)
  OBVIOUS
<1>5. n > 0 /\ s[n].sha = tree.head
  BY <1>1, <1>3, <1>4 DEF IsVerified, Fresh, FinalSha
<1>6. n \in DOMAIN s
  <2>1. n \in 0..Len(s)
    BY <1>4, LatestIs
  <2>2. DOMAIN s = 1..Len(s) /\ Len(s) \in Nat
    BY ElementsAre
  <2> QED BY <1>5, <2>1, <2>2
<1>7. ~Blocks(s[n].verdict)
  <2>1. n # 0
    BY <1>5
  <2> QED BY <2>1, <1>3, <1>4 DEF IsAccepted, VerdictOn
<1> QED BY <1>1, <1>3, <1>5, <1>6, <1>7 DEF Proven

\* What is offered is the newest commit, and it is proven.
LEMMA DeliveringMaps ==
  ASSUME IInv, StraightInv, doc.state = "DELIVERY_PREPARATION", Delivers, UNCHANGED tree
  PROVE  Promised!Next \/ UNCHANGED Promised!vars
<1>1. /\ doc'.iteration = doc.iteration /\ doc'.verified = doc.verified /\ doc'.runs = doc.runs
  BY DEF Delivers, SameEvidence
<1>2. CASE doc'.state = "DELIVERY_PREPARATION"
  BY <1>1, <1>2, WorkingMaps, WorkingAre
<1>3. CASE doc'.state = "READY_FOR_OWNER_REVIEW" /\ GateOpen(doc)
  <2>1. IsVerified /\ IsAccepted
    BY <1>3 DEF GateOpen, StraightInv, Straight, Judging
  <2>2. LastRun(doc).sha = tree.head /\ tree.head \in Proven
    BY <2>1, AcceptedIsProven
  <2>3. Phase = "working" /\ Phase' = "offered"
    BY <1>3, WorkingAre DEF Phase
  <2>4. OfferOf' = tree.head
    BY <1>1, <1>3, <2>2 DEF OfferOf, OwnerTerminal, FinalSha, LastRun
  <2>5. Promised!Offer
    BY <1>1, <2>2, <2>3, <2>4, SameVerdictsProve DEF Promised!Offer, OfferOf
  <2> QED BY <2>5 DEF Promised!Next
<1> QED BY <1>2, <1>3 DEF Delivers

LEMMA OwnerMaps ==
  ASSUME IInv, RequestChanges \/ Approve \/ Interpret \/ Close
  PROVE  Promised!Next \/ UNCHANGED Promised!vars
<1>1. CASE RequestChanges
  <2>1. /\ doc.state = "READY_FOR_OWNER_REVIEW" /\ doc'.state = "OWNER_CHANGES_REQUESTED"
        /\ SameEvidence(doc, doc') /\ UNCHANGED tree
    BY <1>1, RequestChangesKeeps
  <2>2. Phase = "offered" /\ Phase' = "working" /\ OfferOf' = None
    BY <2>1, WorkingAre DEF Phase, OfferOf, OwnerTerminal
  <2>3. doc'.iteration = doc.iteration /\ doc'.verified = doc.verified
    BY <2>1 DEF SameEvidence
  <2>4. Promised!RequestChanges
    BY <2>1, <2>2, <2>3, SameVerdictsProve DEF Promised!RequestChanges, OfferOf
  <2> QED BY <2>4 DEF Promised!Next
<1>2. CASE Approve \/ Close
  <2>1. /\ \/ doc.state = "READY_FOR_OWNER_REVIEW" /\ doc'.state = "OWNER_APPROVED"
           \/ doc.state = "OWNER_APPROVED" /\ doc'.state = "DONE"
        /\ doc'.runs = doc.runs /\ doc'.iteration = doc.iteration /\ doc'.verified = doc.verified
        /\ UNCHANGED tree
    BY <1>2, ApproveKeeps, CloseKeeps DEF SameEvidence, Alike
  <2>2. OfferOf' = OfferOf
    BY <2>1 DEF OfferOf, OwnerTerminal, FinalSha, LastRun
  <2>3. CASE doc.state = "READY_FOR_OWNER_REVIEW"
    <3>1. Phase = "offered" /\ Phase' = "accepted"
      BY <2>1, <2>3, WorkingAre DEF Phase
    <3>2. Promised!Accept
      BY <2>1, <2>2, <3>1, SameVerdictsProve DEF Promised!Accept, OfferOf
    <3> QED BY <3>2 DEF Promised!Next
  <2>4. CASE doc.state = "OWNER_APPROVED"
    <3>1. Phase' = Phase
      BY <2>1, <2>4, WorkingAre DEF Phase
    <3> QED BY <2>1, <2>2, <3>1, SameVerdictsProve, ShownStays
  <2> QED BY <2>1, <2>3, <2>4
<1>3. CASE Interpret
  <2>1. CASE UNCHANGED doc
    BY <1>3, <2>1, InterpretKeeps, QuietMaps
  <2>2. CASE /\ Alike(doc, doc') /\ doc'.state = "COUNCIL_DISCOVERY" /\ UNCHANGED tree
             /\ doc.state \in {"IDEA_SUBMITTED", "OWNER_CHANGES_REQUESTED"}
    BY <2>2, AlikeMaps, WorkingAre
  <2>3. CASE /\ Alike(doc, doc') /\ doc'.state = "COUNCIL_DISCOVERY" /\ UNCHANGED tree
             /\ doc.state = "FAILED"
    <3>1. Phase = "failed" /\ Phase' = "working" /\ OfferOf = None /\ OfferOf' = None
      BY <2>3, WorkingAre DEF Phase, OfferOf, OwnerTerminal
    <3>2. doc'.iteration = doc.iteration /\ doc'.verified = doc.verified
      BY <2>3 DEF Alike
    <3>3. Promised!Retry
      BY <2>3, <3>1, <3>2, SameVerdictsProve DEF Promised!Retry, OfferOf
    <3> QED BY <3>3 DEF Promised!Next
  <2> QED BY <1>3, <2>1, <2>2, <2>3, InterpretKeeps
<1> QED BY <1>1, <1>2, <1>3

\* The work that shows nothing.
LEMMA SilentWorkMaps ==
  ASSUME IInv,
         \/ Discovery \/ Provisioning \/ ReplayCursor \/ SaveCursorResult
         \/ ReuseVerification \/ ReplayVerification \/ ReplayRuntime \/ Launch \/ ReplayVisual \/ Look
         \/ CouncilReview \/ FinalVerify
         \/ CursorReturns \/ BeginVerification \/ BeginRuntime \/ BeginVisual \/ BeginFinal
  PROVE  UNCHANGED Promised!vars
<1>0. doc \in Document
  BY DEF IInv, TypeOK
<1>1. CASE EnterDiscovery \/ RecoverSpec \/ Discover
  <2>1. UNCHANGED tree /\ Alike(doc, doc') /\ doc'.state \in Working
    BY <1>1, EnterDiscoveryKeeps, RecoverSpecKeeps, DiscoverKeeps, WorkingAre
       DEF EnterDiscovery, RecoverSpec, Discover, Moves, Saves
  <2>2. doc.state \in Working
    BY <1>1, AtIs, DiscoverKeeps, WorkingAre DEF EnterDiscovery, RecoverSpec
  <2> QED BY <2>1, <2>2, AlikeMaps
<1>2. CASE SkipProvisioning \/ EnterProvisioning \/ ReplayCursor
  <2>1. UNCHANGED tree /\ Alike(doc, doc') /\ doc'.state \in Working /\ doc.state \in Working
    BY <1>2, SkipProvisioningKeeps, EnterProvisioningKeeps, ReplayCursorKeeps, WorkingAre
       DEF SkipProvisioning, EnterProvisioning, ReplayCursor, Moves, Saves
  <2> QED BY <2>1, AlikeMaps
<1>3. CASE ReplayVerification \/ ReplayRuntime \/ ReplayVisual
  <2>1. UNCHANGED tree /\ Alike(doc, doc') /\ doc'.state \in Working /\ doc.state \in Working
    BY <1>3, ReplayVerificationKeeps, ReplayRuntimeKeeps, ReplayVisualKeeps, WorkingAre
       DEF ReplayVerification, ReplayRuntime, ReplayVisual, Moves, Saves, AfterPlatform
  <2> QED BY <2>1, AlikeMaps
<1>4. CASE Provision \/ Launch \/ CouncilReview \/ FinalVerify
  <2>1. UNCHANGED tree /\ doc'.state \in Working /\ doc.state \in Working
    BY <1>4, ProvisionKeeps, LaunchKeeps, CouncilReviewKeeps, FinalVerifyKeeps, WorkingAre
       DEF Provision, Launch, CouncilReview, FinalVerify, Saves
  <2>2. doc'.iteration = doc.iteration /\ doc'.verified = doc.verified
    <3>1. CASE Provision
      <4>1. PICK e : e = [doc EXCEPT !.provisioned = TRUE]
        OBVIOUS
      <4> QED BY <1>0, <3>1, <4>1, ProvisionKeeps DEF Alike, Document
    <3>2. CASE Launch
      <4>1. PICK l : Alike([doc EXCEPT !.launched = l], doc')
        BY <3>2, LaunchKeeps
      <4>2. PICK e : e = [doc EXCEPT !.launched = l]
        OBVIOUS
      <4> QED BY <1>0, <4>1, <4>2 DEF Alike, Document
    <3>3. CASE CouncilReview
      <4>1. PICK r : Alike([doc EXCEPT !.review = r], doc')
        BY <3>3, CouncilReviewKeeps
      <4>2. PICK e : e = [doc EXCEPT !.review = r]
        OBVIOUS
      <4> QED BY <1>0, <4>1, <4>2 DEF Alike, Document
    <3>4. CASE FinalVerify
      <4>1. PICK f : Alike([doc EXCEPT !.final = f], doc')
        BY <3>4, FinalVerifyKeeps
      <4>2. PICK e : e = [doc EXCEPT !.final = f]
        OBVIOUS
      <4> QED BY <1>0, <4>1, <4>2 DEF Alike, Document
    <3> QED BY <1>4, <3>1, <3>2, <3>3, <3>4
  <2> QED BY <2>1, <2>2, WorkingMaps
<1>5. CASE SaveCursorResult \/ ReuseVerification
  <2>1. UNCHANGED tree /\ doc'.state \in Working /\ doc.state \in Working
    BY <1>5, SaveCursorResultKeeps, ReuseVerificationKeeps, WorkingAre
       DEF SaveCursorResult, ReuseVerification, Moves, Saves
  <2>2. PICK q : Alike([doc EXCEPT !.runs = q], doc')
    BY <1>5, SaveCursorResultKeeps, ReuseVerificationKeeps
  <2>3. PICK e : e = [doc EXCEPT !.runs = q]
    OBVIOUS
  <2>4. doc'.iteration = doc.iteration /\ doc'.verified = doc.verified
    BY <1>0, <2>2, <2>3 DEF Alike, Document
  <2> QED BY <2>1, <2>4, WorkingMaps
<1>6. CASE Look
  <2>1. UNCHANGED tree /\ doc'.state \in Working /\ doc.state \in Working
    BY <1>6, LookKeeps, WorkingAre DEF Look, Moves, Saves
  <2>2. PICK q : Alike([doc EXCEPT !.seen = q], doc')
    BY <1>6, LookKeeps
  <2>3. PICK e : e = [doc EXCEPT !.seen = q]
    OBVIOUS
  <2>4. doc'.iteration = doc.iteration /\ doc'.verified = doc.verified
    BY <1>0, <2>2, <2>3 DEF Alike, Document
  <2> QED BY <2>1, <2>4, WorkingMaps
<1>7. CASE \/ BeginDiscovery \/ BeginProvisioning \/ CursorReturns
           \/ BeginVerification \/ BeginRuntime \/ BeginVisual \/ BeginFinal
  BY <1>7, BeginningKeeps, QuietMaps
<1> QED BY <1>1, <1>2, <1>3, <1>4, <1>5, <1>6, <1>7 DEF Discovery, Provisioning

LEMMA WorkMaps ==
  ASSUME IInv, StraightInv, Work
  PROVE  Promised!Next \/ UNCHANGED Promised!vars
<1>1. CASE Claim \/ HandOff
  BY <1>1, QuietMaps DEF Claim, HandOff
<1>2. CASE Discovery \/ Provisioning
  BY <1>2, SilentWorkMaps
<1>3. CASE Implementation
  <2>1. CASE StartImplementation
    <3>1. pc # "idle" /\ doc.state \in Working
      BY <2>1, AtIs, StatesAre DEF StartImplementation
    <3> QED BY <2>1, <3>1, StartImplementationKeeps, RequestMaps
  <2> QED BY <1>3, <2>1, SilentWorkMaps, StartCursorMaps, CheckpointMaps DEF Implementation
<1>4. CASE Verification
  BY <1>4, SilentWorkMaps, VerifyMaps DEF Verification
<1>5. CASE Judgement
  <2>1. CASE BeginReview
    <3>1. pc # "idle"
      BY <2>1 DEF BeginReview, At
    <3>2. CASE Calls("reviewing")
      BY <3>2, QuietMaps DEF Calls
    <3>3. CASE Rejects(TRUE)
      BY <3>1, <3>3, ThrowingMaps DEF Rejects
    <3> QED BY <2>1, <3>2, <3>3 DEF BeginReview
  <2>2. CASE AfterReview \/ AfterFinal
    <3>1. pc # "idle" /\ doc.state \in Working
      BY <2>2, AtIs DEF AfterReview, AfterFinal
    <3>2. CASE Alike(doc, doc') /\ doc'.state \in {"FINAL_VERIFICATION", "DELIVERY_PREPARATION"} /\ UNCHANGED tree
      BY <3>1, <3>2, AlikeMaps, WorkingAre
    <3> QED BY <2>2, <3>1, <3>2, AfterReviewKeeps, AfterFinalKeeps, RequestMaps
  <2>3. CASE Deliver
    <3>1. pc # "idle"
      BY <2>3 DEF Deliver, At
    <3>2. CASE Delivers /\ UNCHANGED tree
      BY <2>3, <3>2, DeliverKeeps, DeliveringMaps
    <3>3. ASSUME NEW retryable \in BOOLEAN, Rejects(retryable)
          PROVE  Promised!Next \/ UNCHANGED Promised!vars
      BY <3>1, <3>3, ThrowingMaps DEF Rejects
    <3> QED BY <2>3, <3>2, <3>3, DeliverKeeps
  <2> QED BY <1>5, <2>1, <2>2, <2>3, SilentWorkMaps DEF Judgement
<1> QED BY <1>1, <1>2, <1>3, <1>4, <1>5 DEF Work

LEMMA StepMaps ==
  ASSUME NoRetry, IInv, StraightInv, [Next]_vars
  PROVE  [Promised!Next]_(Promised!vars)
<1>1. CASE Work
  BY <1>1, WorkMaps
<1>2. CASE CursorEdits
  BY <1>2, CursorEditsKeeps, QuietMaps
<1>3. CASE Retry
  BY <1>3 DEF Retry, Command, NoRetry
<1>4. CASE RequestChanges \/ Approve \/ Interpret \/ Close
  BY <1>4, OwnerMaps
<1>5. CASE Enqueue \/ Reconcile \/ Crash \/ ApiCrash \/ Boot \/ UNCHANGED vars
  BY <1>5, QuietMaps DEF Enqueue, Reconcile, Crash, ApiCrash, Boot, vars
<1>6. CASE Error
  <2>1. PICK retryable \in BOOLEAN : Throws(retryable)
    BY <1>6 DEF Error
  <2> QED BY <1>6, <2>1, ThrowingMaps DEF Error
<1>7. CASE BootDelivers
  BY <1>7, BootDeliversKeeps, DeliveringMaps
<1> QED BY <1>1, <1>2, <1>3, <1>4, <1>5, <1>6, <1>7 DEF Next, Api

LEMMA InitMaps ==
  ASSUME Init
  PROVE  Promised!Init
<1>1. PICK new \in BOOLEAN : doc = NewDocument(new)
  BY WorkflowAssumption DEF Init
<1>2. doc.state = "IDEA_SUBMITTED" /\ doc.verified = <<>> /\ doc.iteration = 0
  BY <1>1, NewDocumentIs
<1>3. Phase = "working" /\ OfferOf = None
  BY <1>2, WorkingAre DEF Phase, OfferOf, OwnerTerminal
<1>4. Proven = {}
  <2>1. DOMAIN doc.verified = {}
    BY <1>2
  <2> QED BY <2>1 DEF Proven
<1>5. tree.head = 1
  BY DEF Init
<1> QED BY <1>2, <1>3, <1>4, <1>5 DEF Promised!Init, OfferOf

\* Where the owner never retries, every step of the workflow is one that
\* Autonomy promises, or shows nothing: no offer without a proof of the newest
\* commit, and nothing changes while it is offered.
THEOREM PromiseKept ==
  ASSUME NoRetry
  PROVE  Spec => PromisedSafely
<1>1. Init => Promised!Init
  BY InitMaps
<1>2. IInv /\ StraightInv /\ [Next]_vars => [Promised!Next]_(Promised!vars)
  BY StepMaps
<1> QED BY <1>1, <1>2, Invariant, StraightInvariant, PTL DEF Spec, PromisedSafely
=============================================================================
