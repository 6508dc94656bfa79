---------------------------- MODULE OwnerReview ----------------------------
(***************************************************************************)
(* The owner's review of deliveries, with everything that saves the        *)
(* project at that time: the worker, and the requests an API process       *)
(* serves side by side (server.js).  A request or a job loads the document, *)
(* awaits this or that, and saves the whole of it; what such a save leaves *)
(* in each table is what this module is about (storage/durable-store.js,   *)
(* delivery/store.js), with the lock of owner decisions                    *)
(* (delivery/decisions.js).                                                *)
(*                                                                         *)
(* The work between two deliveries is one job in discovery and one in      *)
(* implementation, and always gives a new commit.                          *)
(***************************************************************************)
EXTENDS Naturals

CONSTANTS
  None,         \* null
  Requests,     \* requests to the API; each is made once
  Worker,       \* the worker process
  Kinds,        \* the routes that are requested, a subset of RequestKinds
  MaxVersions,  \* bound: how many deliveries the project gets
  MaxCrashes    \* bound: how often a process dies

RequestKinds == { "view",     \* GET project: finishes its delivery
                  "approve", "changes",
                  "open",     \* POST review-session
                  "stop",     \* POST review-sessions/stop
                  "read" }    \* POST notifications/read

ASSUME ReviewAssumption ==
  /\ None \notin Requests /\ Worker \notin Requests /\ Worker # None
  /\ Kinds \subseteq RequestKinds
  /\ MaxVersions \in Nat \ {0} /\ MaxCrashes \in Nat

Actors == Requests \cup {Worker}
Versions == 1..MaxVersions

VARIABLES
  db,       \* the tables of the project
  act,      \* what each request and the worker is doing
  lock,     \* the request that holds the project's lock
  crashes   \* crashes so far

vars == <<db, act, lock, crashes>>

-----------------------------------------------------------------------------
(* Documents and tables *)

Targets ==
  [ DELIVERY_PREPARATION |-> {"READY_FOR_OWNER_REVIEW"},
    READY_FOR_OWNER_REVIEW |-> {"OWNER_APPROVED", "OWNER_CHANGES_REQUESTED"},
    OWNER_CHANGES_REQUESTED |-> {"COUNCIL_DISCOVERY"},
    COUNCIL_DISCOVERY |-> {"CURSOR_EXECUTING"},
    CURSOR_EXECUTING |-> {"DELIVERY_PREPARATION"},
    OWNER_APPROVED |-> {"DONE"},
    DONE |-> {} ]

Legal(from, to) == to \in Targets[from]

\* version: of the evidence, hence the delivery it belongs to.  row: the
\* deliveries, by the evidence that makes their key, with the actor that made
\* up their id.  notes: the ids of the deliveries that have a notification.
Document ==
  [ state: DOMAIN Targets,
    version: Versions,
    row: [Versions -> [id: Actors \cup {None}, status: {"NONE", "READY", "SUPERSEDED", "APPROVED"}]],
    current: Versions \cup {None},
    review: [Versions -> {"NONE", "APPROVED", "CHANGES_REQUESTED"}],
    notes: SUBSET (Versions \X Actors),
    session: {"NONE", "ACTIVE", "STOPPED"} ]

NewDocument ==
  [ state |-> "DELIVERY_PREPARATION", version |-> 1,
    row |-> [v \in Versions |-> [id |-> None, status |-> "NONE"]],
    current |-> None,
    review |-> [v \in Versions |-> "NONE"],
    notes |-> {}, session |-> "NONE" ]

Exists(d, v) == d.row[v].status # "NONE"

\* The row a delivery is saved in has the id it was inserted with.
StoredRow(d, v) ==
  IF ~Exists(d, v) THEN db.row[v]
  ELSE IF Exists(db, v) THEN [d.row[v] EXCEPT !.id = db.row[v].id]
  ELSE d.row[v]

\* shouldSkipPhase9Persist.
SkipsDeliveries(d) == d.state = "CURSOR_EXECUTING"

\* Mutant: owner_notifications has no foreign key.
AcceptsAnyNote(d) == TRUE

\* The foreign key of owner_notifications: the delivery has a row of that id.
Accepts(d) == SkipsDeliveries(d) \/ \A n \in d.notes : StoredRow(d, n[1]).id = n[2]

\* DurableStore.save: one transaction.  The row of the project is overwritten,
\* and what the document has of the other tables; runs and records, which make
\* the version, are never deleted, a decision is never replaced.
Saved(d) ==
  LET version == IF d.version > db.version THEN d.version ELSE db.version
  IN  IF SkipsDeliveries(d)
      THEN [db EXCEPT !.state = d.state, !.version = version]
      ELSE [ state |-> d.state, version |-> version,
             row |-> [v \in Versions |-> StoredRow(d, v)],
             current |-> IF \E v \in Versions : Exists(d, v) THEN d.current ELSE db.current,
             review |-> [v \in Versions |-> IF db.review[v] # "NONE" THEN db.review[v] ELSE d.review[v]],
             notes |-> db.notes \cup d.notes,
             session |-> IF d.session = "NONE" THEN db.session ELSE d.session ]

-----------------------------------------------------------------------------
(* Loading *)

Pcs == {"idle", "waiting", "reading", "loading", "holding", "done", "dead"}

Idle(kind) == [kind |-> kind, pc |-> "idle", doc |-> NewDocument, torn |-> FALSE]

Init ==
  /\ db = NewDocument
  /\ act = [a \in Actors |-> Idle(IF a = Worker THEN "work" ELSE "view")]
  /\ lock = None
  /\ crashes = 0

Goes(a, pc) == act' = [act EXCEPT ![a].pc = pc]

\* What an actor forgets when it is done.
Forgets(a) ==
  act' = [act EXCEPT ![a] = [Idle(act[a].kind) EXCEPT !.pc = IF a = Worker THEN "idle" ELSE "done",
                                                      !.torn = act[a].torn]]

\* Mutant: the lock is kept when the request is done.
EndsLocked(a) == Forgets(a) /\ UNCHANGED lock

Ends(a) == Forgets(a) /\ lock' = IF lock = a THEN None ELSE lock

Fails(a) == Ends(a) /\ UNCHANGED <<db, crashes>>

\* A request arrives; those of decisions queue for the lock.
Arrive(r) ==
  /\ act[r].pc = "idle"
  /\ \E kind \in Kinds :
       act' = [act EXCEPT ![r].kind = kind,
                          ![r].pc = IF kind \in {"approve", "changes"} THEN "waiting" ELSE "reading"]
  /\ UNCHANGED <<db, lock, crashes>>

\* Mutant: the requests do not wait for each other.
LockAtOnce(r) ==
  /\ act[r].pc = "waiting"
  /\ Goes(r, "reading")
  /\ UNCHANGED <<db, lock, crashes>>

\* withProjectLock.
Lock(r) ==
  /\ act[r].pc = "waiting" /\ lock = None
  /\ lock' = r
  /\ Goes(r, "reading")
  /\ UNCHANGED <<db, crashes>>

\* A worker claims the job of a project that has one, or that a boot found.
ClaimJob ==
  /\ act[Worker].pc = "idle"
  /\ db.state \in {"COUNCIL_DISCOVERY", "CURSOR_EXECUTING", "DELIVERY_PREPARATION"}
  /\ Goes(Worker, "reading")
  /\ UNCHANGED <<db, lock, crashes>>

\* store.get reads the tables one after the other, that of projects first.
ReadState(a) ==
  /\ act[a].pc = "reading"
  /\ act' = [act EXCEPT ![a].pc = "loading", ![a].doc.state = db.state]
  /\ UNCHANGED <<db, lock, crashes>>

ReadRest(a) ==
  /\ act[a].pc = "loading"
  /\ act' = [act EXCEPT ![a].pc = "holding",
                        ![a].doc = [db EXCEPT !.state = act[a].doc.state],
                        ![a].torn = @ \/ act[a].doc.state # db.state]
  /\ UNCHANGED <<db, lock, crashes>>

Holds(a, kinds) == act[a].pc = "holding" /\ act[a].kind \in kinds

\* The actor saves a document and is done, or its save is refused.
SavesAndEnds(a, d) ==
  IF Accepts(d)
  THEN db' = Saved(d) /\ Ends(a) /\ UNCHANGED crashes
  ELSE Fails(a)

-----------------------------------------------------------------------------
(* Deliveries *)

\* prepareDeliverySnapshot and notifyReady: the delivery of this evidence that
\* is READY, or a new one, which supersedes the current one and is notified of.
Finished(a, d) ==
  LET v == d.version
  IN  IF d.row[v].status = "READY"
      THEN [d EXCEPT !.current = v, !.state = "READY_FOR_OWNER_REVIEW"]
      ELSE [d EXCEPT !.row = [w \in Versions |->
                                IF w = v THEN [id |-> a, status |-> "READY"]
                                ELSE IF w = d.current /\ d.row[w].status = "READY"
                                THEN [d.row[w] EXCEPT !.status = "SUPERSEDED"]
                                ELSE d.row[w]],
                     !.current = v,
                     !.notes = @ \cup {<<v, a>>},
                     !.state = "READY_FOR_OWNER_REVIEW"]

\* A new delivery would take over the row of one that is decided on, and its
\* notification refer to no row.
TakesOver(d) == d.row[d.version].status \in {"SUPERSEDED", "APPROVED"}

\* finishDelivery, by the job or by a GET of the project.
FinishDelivery(a) ==
  /\ Holds(a, {"work", "view"})
  /\ act[a].doc.state = "DELIVERY_PREPARATION"
  /\ IF TakesOver(act[a].doc) THEN Fails(a) ELSE SavesAndEnds(a, Finished(a, act[a].doc))

View(r) ==
  /\ Holds(r, {"view"})
  /\ act[r].doc.state # "DELIVERY_PREPARATION"
  /\ Fails(r)

\* Mutant: every implementation makes new evidence, wanted or not.
CycleAlways(d) == [d EXCEPT !.state = "DELIVERY_PREPARATION", !.version = @ + 1]

\* What the cycle after a request for changes comes to: new evidence, unless
\* it is there already.
Cycle(d) ==
  [d EXCEPT !.state = "DELIVERY_PREPARATION",
            !.version = IF d.review[@] = "CHANGES_REQUESTED" /\ @ < MaxVersions THEN @ + 1 ELSE @]

Work ==
  /\ Holds(Worker, {"work"})
  /\ LET d == act[Worker].doc IN
       \/ /\ d.state = "COUNCIL_DISCOVERY"
          /\ SavesAndEnds(Worker, [d EXCEPT !.state = "CURSOR_EXECUTING"])
       \/ /\ d.state = "CURSOR_EXECUTING"
          /\ SavesAndEnds(Worker, Cycle(d))
       \/ /\ d.state \notin {"COUNCIL_DISCOVERY", "CURSOR_EXECUTING", "DELIVERY_PREPARATION"}
          /\ Fails(Worker)

-----------------------------------------------------------------------------
(* Decisions *)

\* currentDelivery.
CurrentOf(d) ==
  LET known == {v \in Versions : Exists(d, v)}
  IN  IF d.current # None THEN d.current
      ELSE IF known = {} THEN None
      ELSE CHOOSE v \in known : \A w \in known : w <= v

\* What approve and requestChanges ask for, recordOwnerDecision included.
Decidable(d) ==
  LET v == CurrentOf(d)
  IN  /\ d.state = "READY_FOR_OWNER_REVIEW"
      /\ v # None
      /\ d.row[v].status = "READY"
      /\ v = d.version
      /\ d.review[v] = "NONE"

Approved(d) ==
  LET v == CurrentOf(d)
  IN  [d EXCEPT !.state = "OWNER_APPROVED", !.row[v].status = "APPROVED", !.current = v,
                !.review[v] = "APPROVED"]

SentBack(d) ==
  LET v == CurrentOf(d)
  IN  [d EXCEPT !.state = "OWNER_CHANGES_REQUESTED", !.row[v].status = "SUPERSEDED",
                !.current = IF @ = v THEN None ELSE @, !.review[v] = "CHANGES_REQUESTED"]

\* The first transition of approve and of requestChanges; the second one is of
\* the document as it is loaded again.
Decide(r) ==
  /\ Holds(r, {"approve", "changes"})
  /\ LET d == act[r].doc
         decided == IF act[r].kind = "approve" THEN Approved(d) ELSE SentBack(d)
     IN  IF Decidable(d) /\ Accepts(decided) /\ (act[r].kind = "changes" => d.version < MaxVersions)
         THEN /\ db' = Saved(decided)
              /\ act' = [act EXCEPT ![r].pc = "reading",
                                    ![r].kind = IF @ = "approve" THEN "close" ELSE "interpret"]
              /\ UNCHANGED <<lock, crashes>>
         ELSE Fails(r)

Conclude(r) ==
  /\ Holds(r, {"close", "interpret"})
  /\ LET d == act[r].doc
         to == IF act[r].kind = "close" THEN "DONE" ELSE "COUNCIL_DISCOVERY"
     IN  IF Legal(d.state, to)
         THEN SavesAndEnds(r, [d EXCEPT !.state = to])
         ELSE Fails(r)

-----------------------------------------------------------------------------
(* Routes that save the document they have loaded for something else *)

Open(r) ==
  /\ Holds(r, {"open"})
  /\ LET d == act[r].doc
         v == CurrentOf(d)
     IN  IF v # None /\ d.row[v].status \in {"READY", "APPROVED"}
         THEN SavesAndEnds(r, [d EXCEPT !.session = "ACTIVE"])
         ELSE Fails(r)

Stop(r) ==
  /\ Holds(r, {"stop"})
  /\ IF act[r].doc.session # "NONE"
     THEN SavesAndEnds(r, [act[r].doc EXCEPT !.session = "STOPPED"])
     ELSE Fails(r)

MarkRead(r) ==
  /\ Holds(r, {"read"})
  /\ IF act[r].doc.notes # {}
     THEN SavesAndEnds(r, act[r].doc)
     ELSE Fails(r)

-----------------------------------------------------------------------------
\* The API process dies with all its requests, the worker with its job.
ApiCrash ==
  /\ crashes < MaxCrashes
  /\ \E r \in Requests : act[r].pc \notin {"idle", "done", "dead"}
  /\ act' = [a \in Actors |-> IF a = Worker \/ act[a].pc \in {"idle", "done", "dead"} THEN act[a]
                              ELSE [Idle(act[a].kind) EXCEPT !.pc = "dead"]]
  /\ lock' = None
  /\ crashes' = crashes + 1
  /\ UNCHANGED db

WorkerCrash ==
  /\ crashes < MaxCrashes
  /\ act[Worker].pc # "idle"
  /\ act' = [act EXCEPT ![Worker] = Idle("work")]
  /\ crashes' = crashes + 1
  /\ UNCHANGED <<db, lock>>

Reading(a) == ReadState(a) \/ ReadRest(a) \/ FinishDelivery(a)

Serve(r) ==
  \/ Lock(r) \/ Reading(r) \/ View(r) \/ Decide(r) \/ Conclude(r)
  \/ Open(r) \/ Stop(r) \/ MarkRead(r)

WorkerSteps == ClaimJob \/ Reading(Worker) \/ Work

Next ==
  \/ \E r \in Requests : Arrive(r) \/ Serve(r)
  \/ WorkerSteps
  \/ ApiCrash \/ WorkerCrash

Spec == Init /\ [][Next]_vars
-----------------------------------------------------------------------------
(* Properties *)

\* The tables and the documents in memory have their shapes.
TypeOK ==
  /\ db \in Document
  /\ act \in [Actors -> [kind: RequestKinds \cup {"work", "close", "interpret"},
                         pc: Pcs, doc: Document, torn: BOOLEAN]]
  /\ lock \in Requests \cup {None}
  /\ crashes \in 0..MaxCrashes

\* The lock is held by a request that is at work on a decision, never by one
\* that is answered, refused or dead: who waits for it gets it in the end
\* (withProjectLock).
LockHasHolder ==
  lock # None => /\ act[lock].kind \in {"approve", "changes", "close", "interpret"}
                 /\ act[lock].pc \in {"reading", "loading", "holding"}

\* The owner is notified once of each delivery, although the worker and any
\* number of GETs finish it side by side ("In-app ready notifications are
\* required and idempotent"; notifyReady, persistPhase9).
NotifiedOnce ==
  \A v \in Versions : {n \in db.notes : n[1] = v} = IF Exists(db, v) THEN {<<v, db.row[v].id>>} ELSE {}

\* A delivery has one outcome: one that is approved was not sent back and the
\* other way round, whatever is saved over it (recordOwnerDecision,
\* withProjectLock, UNIQUE (delivery_id)).
OneOutcome ==
  \A v \in Versions : /\ db.review[v] = "APPROVED" => db.row[v].status # "SUPERSEDED"
                      /\ db.review[v] = "CHANGES_REQUESTED" => db.row[v].status # "APPROVED"

\* The routes that save for another purpose than to move the project on.
Bystander(a) == act[a].kind \in {"open", "stop", "read"}

\* The saved state changes along the transitions only (assertTransition),
\* although each save is a blind one: finishing a delivery twice or deciding
\* on it twice never takes a project back, because the late save violates the
\* foreign key or waits for the lock.  Excepted is what follows the save of a
\* bystander, or a load whose tables were read on two sides of a save: nothing
\* protects the state from these (DoneIsFinal).
OnlyTransitions ==
  [][\/ db'.state = db.state
     \/ Legal(db.state, db'.state)
     \/ \E a \in Actors : act[a].torn \/ (Bystander(a) /\ act'[a].pc = "done")]_vars

\* A project the owner has approved stays DONE ("Approve accepts the autonomous
\* result and moves the project to `DONE`").
DoneIsFinal == [][db.state = "DONE" => db'.state = "DONE"]_vars

=============================================================================
