------------------------- MODULE OwnerReviewProofs -------------------------
(***************************************************************************)
(* What holds of OwnerReview for every number of requests, deliveries and  *)
(* crashes: the types, who holds the lock of decisions, one notification   *)
(* and one outcome per delivery, bystanders and torn loads included; and,  *)
(* but for these, that the saved state keeps to its transitions.           *)
(*                                                                         *)
(* The argument: whatever is saved is a document that is sound in itself   *)
(* and was loaded from these tables, and what the tables have of reviews   *)
(* and of ids of deliveries is never taken back.  For the saved state it   *)
(* is that whoever saves another state either has the tables' state still  *)
(* in its document, or is refused by the foreign key.                      *)
(***************************************************************************)
EXTENDS OwnerReview, TLAPS

\* A request that is at work on a decision.
Deciding(r) == /\ act[r].kind \in {"approve", "changes", "close", "interpret"}
               /\ act[r].pc \in {"reading", "loading", "holding"}

\* Only decisions queue for the lock.
WaitsToDecide == \A r \in Requests : act[r].pc = "waiting" => act[r].kind \in {"approve", "changes"}

LockExcludes == \A r \in Requests : Deciding(r) => lock = r

\* The deliveries of a document and the decisions on them agree: a version
\* that has a successor was sent back.
RowsSound(d) ==
  \A v \in Versions :
    /\ d.row[v].status = "SUPERSEDED" => d.review[v] = "CHANGES_REQUESTED"
    /\ d.row[v].status = "APPROVED" => d.review[v] = "APPROVED"
    /\ Exists(d, v) => v <= d.version
    /\ v < d.version => d.review[v] = "CHANGES_REQUESTED"

\* The owner is notified of exactly the deliveries a document has.
NotesSound(d) ==
  /\ \A v \in Versions : Exists(d, v) => <<v, d.row[v].id>> \in d.notes
  /\ \A n \in d.notes : Exists(d, n[1]) /\ d.row[n[1]].id = n[2]

Sound(d) == RowsSound(d) /\ NotesSound(d)

\* What the tables still have of a document that was loaded from them.
Loaded(d) ==
  \A v \in Versions :
    /\ d.review[v] \in {"NONE", db.review[v]}
    /\ Exists(d, v) => Exists(db, v) /\ d.row[v].id = db.row[v].id

HeldIsSound ==
  \A a \in Actors : act[a].pc = "holding" => Sound(act[a].doc) /\ Loaded(act[a].doc)

\* Nobody else decides while a decision is under way.
DecidesOnLatest ==
  \A r \in Requests : Deciding(r) /\ act[r].pc = "holding" => act[r].doc.review = db.review

\* The inductive invariant.
IInv == /\ TypeOK
        /\ LockHasHolder
        /\ LockExcludes
        /\ WaitsToDecide
        /\ Sound(db)
        /\ HeldIsSound
        /\ DecidesOnLatest

\* The records of act.
Doing == [kind: RequestKinds \cup {"work", "close", "interpret"},
          pc: Pcs, doc: Document, torn: BOOLEAN]

\* No actor has loaded anything in this step.
NothingLoaded == \A a \in Actors : act'[a].pc = "holding" => act'[a] = act[a]

-----------------------------------------------------------------------------
(* Documents *)

LEMMA States ==
  DOMAIN Targets = {"DELIVERY_PREPARATION", "READY_FOR_OWNER_REVIEW", "OWNER_CHANGES_REQUESTED",
                    "COUNCIL_DISCOVERY", "CURSOR_EXECUTING", "OWNER_APPROVED", "DONE"}
  BY DEF Targets

LEMMA NewDocumentTyped == NewDocument \in Document
  BY ReviewAssumption, States DEF NewDocument, Document, Versions

\* A document with another state is as sound as it was.
LEMMA MovedDocument ==
  ASSUME NEW d \in Document, NEW s \in DOMAIN Targets
  PROVE  /\ [d EXCEPT !.state = s] \in Document
         /\ Sound(d) => Sound([d EXCEPT !.state = s])
         /\ Loaded(d) => Loaded([d EXCEPT !.state = s])
         /\ [d EXCEPT !.state = s].review = d.review
  BY DEF Document, Sound, RowsSound, NotesSound, Loaded, Exists

LEMMA SessionDocument ==
  ASSUME NEW d \in Document, NEW s \in {"ACTIVE", "STOPPED"}
  PROVE  /\ [d EXCEPT !.session = s] \in Document
         /\ Sound(d) => Sound([d EXCEPT !.session = s])
         /\ Loaded(d) => Loaded([d EXCEPT !.session = s])
  BY DEF Document, Sound, RowsSound, NotesSound, Loaded, Exists

LEMMA StoredRowTyped ==
  ASSUME db \in Document, NEW d \in Document, NEW v \in Versions
  PROVE  /\ StoredRow(d, v) \in [id: Actors \cup {None}, status: {"NONE", "READY", "SUPERSEDED", "APPROVED"}]
         /\ StoredRow(d, v).status = IF Exists(d, v) THEN d.row[v].status ELSE db.row[v].status
         /\ StoredRow(d, v).id = IF Exists(db, v) \/ ~Exists(d, v) THEN db.row[v].id ELSE d.row[v].id
  BY DEF StoredRow, Document, Exists

LEMMA SavedTyped ==
  ASSUME db \in Document, NEW d \in Document
  PROVE  Saved(d) \in Document
<1> DEFINE version == IF d.version > db.version THEN d.version ELSE db.version
<1>1. version \in Versions
  BY DEF Document
<1>2. CASE SkipsDeliveries(d)
  BY <1>1, <1>2 DEF Saved, Document
<1>3. CASE ~SkipsDeliveries(d)
  <2> HIDE DEF version
  <2>1. [v \in Versions |-> StoredRow(d, v)] \in
          [Versions -> [id: Actors \cup {None}, status: {"NONE", "READY", "SUPERSEDED", "APPROVED"}]]
    BY StoredRowTyped
  <2>2. [v \in Versions |-> IF db.review[v] # "NONE" THEN db.review[v] ELSE d.review[v]] \in
          [Versions -> {"NONE", "APPROVED", "CHANGES_REQUESTED"}]
    BY DEF Document
  <2>3. (IF \E v \in Versions : Exists(d, v) THEN d.current ELSE db.current) \in Versions \cup {None}
    BY DEF Document
  <2>4. db.notes \cup d.notes \in SUBSET (Versions \X Actors)
    BY DEF Document
  <2>5. (IF d.session = "NONE" THEN db.session ELSE d.session) \in {"NONE", "ACTIVE", "STOPPED"}
    BY DEF Document
  <2>6. d.state \in DOMAIN Targets
    BY DEF Document
  <2>7. Saved(d) = [ state |-> d.state, version |-> version,
             row |-> [v \in Versions |-> StoredRow(d, v)],
             current |-> IF \E v \in Versions : Exists(d, v) THEN d.current ELSE db.current,
             review |-> [v \in Versions |-> IF db.review[v] # "NONE" THEN db.review[v] ELSE d.review[v]],
             notes |-> db.notes \cup d.notes,
             session |-> IF d.session = "NONE" THEN db.session ELSE d.session ]
    BY <1>3 DEF Saved, version
  <2> QED
    BY <1>1, <2>1, <2>2, <2>3, <2>4, <2>5, <2>6, <2>7 DEF Document
<1> QED
  BY <1>2, <1>3

\* What is saved of a sound document that was loaded from these tables is
\* sound; a decision made since is of a document whose deliveries are saved.
Agrees(d) ==
  IF SkipsDeliveries(d) THEN Loaded(d)
  ELSE \A v \in Versions : \/ d.review[v] \in {"NONE", db.review[v]}
                           \/ db.review[v] = "NONE"

LEMMA SavedFields ==
  ASSUME db \in Document, NEW d \in Document
  PROVE  /\ Saved(d).version = IF d.version > db.version THEN d.version ELSE db.version
         /\ SkipsDeliveries(d) => /\ Saved(d).row = db.row
                                  /\ Saved(d).review = db.review
                                  /\ Saved(d).notes = db.notes
         /\ ~SkipsDeliveries(d) =>
              /\ \A v \in Versions : Saved(d).row[v] = StoredRow(d, v)
              /\ \A v \in Versions :
                   Saved(d).review[v] = IF db.review[v] # "NONE" THEN db.review[v] ELSE d.review[v]
              /\ Saved(d).notes = db.notes \cup d.notes
  BY DEF Saved, Document

LEMMA SavedRowsSound ==
  ASSUME db \in Document, NEW d \in Document, RowsSound(db), RowsSound(d), Agrees(d)
  PROVE  RowsSound(Saved(d))
<1> SUFFICES ASSUME NEW v \in Versions
             PROVE  /\ Saved(d).row[v].status = "SUPERSEDED" => Saved(d).review[v] = "CHANGES_REQUESTED"
                    /\ Saved(d).row[v].status = "APPROVED" => Saved(d).review[v] = "APPROVED"
                    /\ Exists(Saved(d), v) => v <= Saved(d).version
                    /\ v < Saved(d).version => Saved(d).review[v] = "CHANGES_REQUESTED"
  BY DEF RowsSound
<1>1. /\ v \in Nat /\ d.version \in Nat /\ db.version \in Nat
      /\ d.review[v] \in {"NONE", "APPROVED", "CHANGES_REQUESTED"}
      /\ db.review[v] \in {"NONE", "APPROVED", "CHANGES_REQUESTED"}
  BY ReviewAssumption DEF Document, Versions
<1>2. CASE SkipsDeliveries(d)
  BY <1>1, <1>2, SavedFields DEF RowsSound, Exists, Agrees, Loaded
<1>3. CASE ~SkipsDeliveries(d)
  BY <1>1, <1>3, SavedFields, StoredRowTyped DEF RowsSound, Exists, Agrees
<1> QED
  BY <1>2, <1>3

LEMMA SavedNotesSound ==
  ASSUME db \in Document, NEW d \in Document, NotesSound(db), NotesSound(d), Accepts(d)
  PROVE  NotesSound(Saved(d))
<1>1. CASE SkipsDeliveries(d)
  BY <1>1, SavedFields DEF NotesSound, Exists
<1>2. CASE ~SkipsDeliveries(d)
  <2>1. \A v \in Versions : Exists(Saved(d), v) <=> Exists(d, v) \/ Exists(db, v)
    BY <1>2, SavedFields, StoredRowTyped DEF Exists
  <2>2. \A v \in Versions : Exists(db, v) => Saved(d).row[v].id = db.row[v].id
    BY <1>2, SavedFields, StoredRowTyped
  <2>3. \A v \in Versions : Exists(d, v) /\ ~Exists(db, v) => Saved(d).row[v].id = d.row[v].id
    BY <1>2, SavedFields, StoredRowTyped
  <2>4. \A n \in db.notes \cup d.notes : n[1] \in Versions
    BY DEF Document
  <2>5. \A n \in d.notes : Saved(d).row[n[1]].id = n[2]
    BY <1>2, <2>4, SavedFields DEF Accepts
  <2>6. Saved(d).notes = db.notes \cup d.notes
    BY <1>2, SavedFields
  <2> QED
    BY <2>1, <2>2, <2>3, <2>4, <2>5, <2>6 DEF NotesSound
<1> QED
  BY <1>1, <1>2

\* A save takes nothing back that a document was loaded with.
LEMMA LoadedStays ==
  ASSUME db \in Document, NEW d \in Document, NEW e \in Document, Loaded(e), db' = Saved(d)
  PROVE  Loaded(e)'
<1> SUFFICES ASSUME NEW v \in Versions
             PROVE  /\ e.review[v] \in {"NONE", Saved(d).review[v]}
                    /\ Exists(e, v) => Exists(Saved(d), v) /\ e.row[v].id = Saved(d).row[v].id
  BY DEF Loaded, Exists
<1>1. e.review[v] \in {"NONE", Saved(d).review[v]}
  BY SavedFields DEF Loaded
<1>2. ASSUME Exists(e, v) PROVE Exists(Saved(d), v) /\ e.row[v].id = Saved(d).row[v].id
  BY <1>2, SavedFields, StoredRowTyped DEF Loaded, Exists
<1> QED
  BY <1>1, <1>2

-----------------------------------------------------------------------------
(* The documents the actions save *)

\* finishDelivery makes a sound document of a sound one: the delivery it
\* supersedes has an older version and was therefore sent back.
LEMMA FinishedIsSound ==
  ASSUME NEW a \in Actors, NEW d \in Document, Sound(d), Loaded(d), ~TakesOver(d)
  PROVE  /\ Finished(a, d) \in Document
         /\ Sound(Finished(a, d))
         /\ Finished(a, d).review = d.review
         /\ Finished(a, d).state = "READY_FOR_OWNER_REVIEW"
<1> DEFINE v == d.version
           e == Finished(a, d)
<1>0. /\ v \in Versions /\ v \in Nat
      /\ "READY_FOR_OWNER_REVIEW" \in DOMAIN Targets
      /\ d.current \in Versions \cup {None}
      /\ \A w \in Versions : w \in Nat
  BY ReviewAssumption, States DEF Document, Versions
<1>1. CASE d.row[v].status = "READY"
  <2>1. e = [d EXCEPT !.current = v, !.state = "READY_FOR_OWNER_REVIEW"]
    BY <1>1 DEF Finished
  <2> HIDE DEF e
  <2>2. /\ e \in Document /\ e.review = d.review /\ e.state = "READY_FOR_OWNER_REVIEW"
        /\ e.row = d.row /\ e.notes = d.notes /\ e.version = d.version
    BY <1>0, <2>1 DEF Document
  <2>3. Sound(e)
    BY <2>2 DEF Sound, RowsSound, NotesSound, Exists
  <2> QED
    BY <2>2, <2>3 DEF e
<1>2. CASE d.row[v].status # "READY"
  <2> DEFINE row == [w \in Versions |->
                       IF w = v THEN [id |-> a, status |-> "READY"]
                       ELSE IF w = d.current /\ d.row[w].status = "READY"
                       THEN [d.row[w] EXCEPT !.status = "SUPERSEDED"]
                       ELSE d.row[w]]
  <2>1. e = [d EXCEPT !.row = row, !.current = v, !.notes = @ \cup {<<v, a>>},
                      !.state = "READY_FOR_OWNER_REVIEW"]
    BY <1>2 DEF Finished
  <2>2. row \in [Versions -> [id: Actors \cup {None}, status: {"NONE", "READY", "SUPERSEDED", "APPROVED"}]]
    BY DEF Document
  <2>3. ~Exists(d, v)
    BY <1>0, <1>2 DEF TakesOver, Exists, Document
  <2>4. /\ row[v] = [id |-> a, status |-> "READY"]
        /\ \A w \in Versions \ {v} :
             /\ row[w].id = d.row[w].id
             /\ row[w].status = "NONE" <=> d.row[w].status = "NONE"
             /\ \/ row[w].status = d.row[w].status
                \/ row[w].status = "SUPERSEDED" /\ d.row[w].status = "READY"
    BY <1>0 DEF Document
  <2> HIDE DEF e, row
  <2>5. /\ e \in Document /\ e.review = d.review /\ e.state = "READY_FOR_OWNER_REVIEW"
        /\ e.row = row /\ e.notes = d.notes \cup {<<v, a>>} /\ e.version = d.version
    <3>1. d.notes \cup {<<v, a>>} \in SUBSET (Versions \X Actors)
      BY <1>0 DEF Document
    <3>2. e = [ state |-> "READY_FOR_OWNER_REVIEW", version |-> d.version, row |-> row,
                current |-> v, review |-> d.review, notes |-> d.notes \cup {<<v, a>>},
                session |-> d.session ]
      BY <2>1 DEF Document
    <3>3. e \in Document
      BY <1>0, <2>2, <3>1, <3>2 DEF Document
    <3> QED
      BY <3>2, <3>3
  <2>6. RowsSound(e)
    <3> SUFFICES ASSUME NEW w \in Versions
                 PROVE  /\ row[w].status = "SUPERSEDED" => d.review[w] = "CHANGES_REQUESTED"
                        /\ row[w].status = "APPROVED" => d.review[w] = "APPROVED"
                        /\ row[w].status # "NONE" => w <= v
                        /\ w < v => d.review[w] = "CHANGES_REQUESTED"
      BY <2>5 DEF RowsSound, Exists
    <3>1. CASE w = v
      BY <1>0, <2>4, <3>1
    <3>2. CASE w # v
      <4>1. d.row[w].status = "READY" => w < v
        BY <1>0, <3>2 DEF Sound, RowsSound, Exists
      <4> QED
        BY <2>4, <3>2, <4>1 DEF Sound, RowsSound, Exists
    <3> QED
      BY <3>1, <3>2
  <2>7. NotesSound(e)
    <3>1. \A n \in d.notes : n[1] \in Versions /\ n[1] # v
      BY <2>3 DEF Sound, NotesSound, Document
    <3>2. \A w \in Versions : Exists(e, w) <=> w = v \/ Exists(d, w)
      BY <1>0, <2>4, <2>5 DEF Exists
    <3>3. \A n \in e.notes : Exists(e, n[1]) /\ e.row[n[1]].id = n[2]
      BY <1>0, <2>4, <2>5, <3>1, <3>2 DEF Sound, NotesSound
    <3>4. \A w \in Versions : Exists(e, w) => <<w, e.row[w].id>> \in e.notes
      BY <2>4, <2>5, <3>2 DEF Sound, NotesSound
    <3> QED
      BY <3>3, <3>4 DEF NotesSound
  <2> QED
    BY <2>5, <2>6, <2>7 DEF Sound, e
<1> QED
  BY <1>1, <1>2

LEMMA CycleIsSound ==
  ASSUME NEW d \in Document, Sound(d), Loaded(d)
  PROVE  /\ Cycle(d) \in Document
         /\ Sound(Cycle(d))
         /\ Loaded(Cycle(d))
<1> DEFINE version == IF d.review[d.version] = "CHANGES_REQUESTED" /\ d.version < MaxVersions
                      THEN d.version + 1 ELSE d.version
           e == Cycle(d)
<1>1. /\ d.version \in Versions /\ d.version \in Nat /\ version \in Versions
      /\ \A w \in Versions : w \in Nat
  BY ReviewAssumption DEF Document, Versions
<1>2. e = [d EXCEPT !.state = "DELIVERY_PREPARATION", !.version = version]
  BY DEF Cycle, Document
<1>3. \A w \in Versions : w < version => w < d.version \/ (w = d.version /\ d.review[w] = "CHANGES_REQUESTED")
  BY <1>1
<1>4. d.version <= version
  BY <1>1
<1> HIDE DEF e, version
<1>5. /\ e \in Document /\ e.row = d.row /\ e.review = d.review /\ e.notes = d.notes
      /\ e.version = version
  BY <1>1, <1>2, States DEF Document
<1>6. RowsSound(e)
  BY <1>1, <1>3, <1>4, <1>5 DEF Sound, RowsSound, Exists
<1>7. NotesSound(e) /\ Loaded(e)
  BY <1>5 DEF Sound, NotesSound, Loaded, Exists
<1> QED
  BY <1>5, <1>6, <1>7 DEF Sound, e

\* A decision is recorded on the current delivery, of which there was none.
LEMMA DecidedIsSound ==
  ASSUME NEW d \in Document, Sound(d), Decidable(d),
         NEW e \in {Approved(d), SentBack(d)}
  PROVE  /\ e \in Document
         /\ Sound(e)
         /\ ~SkipsDeliveries(e)
         /\ \A v \in Versions : e.review[v] = d.review[v] \/ d.review[v] = "NONE"
<1> DEFINE v == d.version
<1>1. /\ v \in Versions /\ CurrentOf(d) = v
      /\ d.row[v].status = "READY" /\ d.review[v] = "NONE"
  BY DEF Decidable, Document
<1>2. PICK status \in {"SUPERSEDED", "APPROVED"}, decision \in {"CHANGES_REQUESTED", "APPROVED"} :
        /\ status = "SUPERSEDED" <=> decision = "CHANGES_REQUESTED"
        /\ e \in Document
        /\ e.state \in {"OWNER_APPROVED", "OWNER_CHANGES_REQUESTED"}
        /\ e.row = [d.row EXCEPT ![v].status = status]
        /\ e.review = [d.review EXCEPT ![v] = decision]
        /\ e.notes = d.notes /\ e.version = d.version
  <2>1. CASE e = Approved(d)
    <3>1. e = [d EXCEPT !.state = "OWNER_APPROVED", !.row[v].status = "APPROVED", !.current = v,
                        !.review[v] = "APPROVED"]
      BY <1>1, <2>1 DEF Approved
    <3>2. [d.row EXCEPT ![v].status = "APPROVED"] \in
            [Versions -> [id: Actors \cup {None}, status: {"NONE", "READY", "SUPERSEDED", "APPROVED"}]]
      BY <1>1 DEF Document
    <3>3. [d.review EXCEPT ![v] = "APPROVED"] \in [Versions -> {"NONE", "APPROVED", "CHANGES_REQUESTED"}]
      BY <1>1 DEF Document
    <3>4. e = [ state |-> "OWNER_APPROVED", version |-> d.version,
                row |-> [d.row EXCEPT ![v].status = "APPROVED"], current |-> v,
                review |-> [d.review EXCEPT ![v] = "APPROVED"], notes |-> d.notes, session |-> d.session ]
      BY <3>1 DEF Document
    <3>5. e \in Document
      BY <1>1, <3>2, <3>3, <3>4, States DEF Document
    <3> QED
      BY <3>4, <3>5
  <2>2. CASE e = SentBack(d)
    <3>1. e = [d EXCEPT !.state = "OWNER_CHANGES_REQUESTED", !.row[v].status = "SUPERSEDED",
                        !.current = IF @ = v THEN None ELSE @, !.review[v] = "CHANGES_REQUESTED"]
      BY <1>1, <2>2 DEF SentBack
    <3>2. [d.row EXCEPT ![v].status = "SUPERSEDED"] \in
            [Versions -> [id: Actors \cup {None}, status: {"NONE", "READY", "SUPERSEDED", "APPROVED"}]]
      BY <1>1 DEF Document
    <3>3. [d.review EXCEPT ![v] = "CHANGES_REQUESTED"] \in [Versions -> {"NONE", "APPROVED", "CHANGES_REQUESTED"}]
      BY <1>1 DEF Document
    <3>4. e = [ state |-> "OWNER_CHANGES_REQUESTED", version |-> d.version,
                row |-> [d.row EXCEPT ![v].status = "SUPERSEDED"], current |-> IF d.current = v THEN None ELSE d.current,
                review |-> [d.review EXCEPT ![v] = "CHANGES_REQUESTED"], notes |-> d.notes, session |-> d.session ]
      BY <3>1 DEF Document
    <3>5. e \in Document
      BY <1>1, <3>2, <3>3, <3>4, States DEF Document
    <3> QED
      BY <3>4, <3>5
  <2> QED
    BY <2>1, <2>2
<1>3. /\ d.row \in [Versions -> [id: Actors \cup {None}, status: {"NONE", "READY", "SUPERSEDED", "APPROVED"}]]
      /\ d.review \in [Versions -> {"NONE", "APPROVED", "CHANGES_REQUESTED"}]
      /\ \A n \in d.notes : n[1] \in Versions
  BY DEF Document
<1>4. /\ e.row[v].status = status /\ e.row[v].id = d.row[v].id /\ e.review[v] = decision
      /\ \A w \in Versions \ {v} : e.row[w] = d.row[w] /\ e.review[w] = d.review[w]
  BY <1>1, <1>2, <1>3
<1>5. \A w \in Versions : (Exists(e, w) <=> Exists(d, w)) /\ e.row[w].id = d.row[w].id
  BY <1>1, <1>2, <1>4 DEF Exists
<1>6. RowsSound(e)
  <2> SUFFICES ASSUME NEW w \in Versions
               PROVE  /\ e.row[w].status = "SUPERSEDED" => e.review[w] = "CHANGES_REQUESTED"
                      /\ e.row[w].status = "APPROVED" => e.review[w] = "APPROVED"
                      /\ Exists(e, w) => w <= e.version
                      /\ w < e.version => e.review[w] = "CHANGES_REQUESTED"
    BY DEF RowsSound
  <2>1. CASE w = v
    BY <1>1, <1>2, <1>4, <2>1, ReviewAssumption DEF Versions
  <2>2. CASE w # v
    BY <1>2, <1>4, <1>5, <2>2 DEF Sound, RowsSound
  <2> QED
    BY <2>1, <2>2
<1>7. NotesSound(e)
  BY <1>2, <1>3, <1>5 DEF Sound, NotesSound
<1>8. ~SkipsDeliveries(e)
  BY <1>2 DEF SkipsDeliveries
<1> QED
  BY <1>1, <1>2, <1>4, <1>6, <1>7, <1>8 DEF Sound

-----------------------------------------------------------------------------
(* Kinds of steps *)

\* What the invariant says of the lock and of what the actors are doing, and
\* what it says of the tables and the documents loaded from them.
ControlOK == /\ act \in [Actors -> Doing]
             /\ lock \in Requests \cup {None}
             /\ crashes \in 0..MaxCrashes
             /\ LockHasHolder
             /\ LockExcludes
             /\ WaitsToDecide

DataOK == /\ db \in Document
          /\ Sound(db)
          /\ HeldIsSound
          /\ DecidesOnLatest

LEMMA IInvParts == IInv <=> ControlOK /\ DataOK
  BY DEF IInv, TypeOK, ControlOK, DataOK, Doing

\* An actor is done and gives the lock back if it has it.
LEMMA EndsControl ==
  ASSUME ControlOK, NEW a \in Actors, Ends(a), crashes' = crashes
  PROVE  ControlOK' /\ NothingLoaded
<1>1. /\ act' \in [Actors -> Doing]
      /\ act'[a].pc \in {"idle", "done"}
      /\ \A b \in Actors \ {a} : act'[b] = act[b]
  BY NewDocumentTyped DEF ControlOK, Ends, Forgets, Idle, Doing, Pcs
<1>2. lock' = IF lock = a THEN None ELSE lock
  BY DEF Ends
<1>3. LockHasHolder'
  BY <1>1, <1>2, ReviewAssumption DEF ControlOK, LockHasHolder, Actors
<1>4. LockExcludes'
  <2> SUFFICES ASSUME NEW r \in Requests, Deciding(r)'
               PROVE  lock' = r
    BY DEF LockExcludes
  <2>1. r # a /\ act'[r] = act[r]
    BY <1>1 DEF Deciding, Actors
  <2> QED
    BY <1>2, <2>1 DEF ControlOK, LockExcludes, Deciding
<1>5. WaitsToDecide'
  BY <1>1 DEF ControlOK, WaitsToDecide, Actors
<1>6. NothingLoaded
  BY <1>1 DEF NothingLoaded
<1> QED
  BY <1>1, <1>2, <1>3, <1>4, <1>5, <1>6 DEF ControlOK

\* Nothing is saved and nothing loaded.
LEMMA DataKept ==
  ASSUME DataOK, UNCHANGED db, NothingLoaded
  PROVE  DataOK'
<1>1. HeldIsSound'
  BY DEF DataOK, HeldIsSound, NothingLoaded, Loaded, Exists
<1>2. DecidesOnLatest'
  BY DEF DataOK, DecidesOnLatest, NothingLoaded, Deciding, Actors
<1> QED
  BY <1>1, <1>2 DEF DataOK

\* A sound document is saved.  A decision is only recorded while nobody else
\* has loaded a document to decide on.
LEMMA DataSaved ==
  ASSUME ControlOK, DataOK, NothingLoaded,
         NEW d \in Document, Sound(d), Accepts(d), Agrees(d), db' = Saved(d),
         \/ \A v \in Versions : d.review[v] \in {"NONE", db.review[v]}
         \/ \A r \in Requests : Deciding(r)' => act'[r].pc # "holding"
  PROVE  DataOK'
<1>1. db' \in Document
  BY SavedTyped DEF DataOK
<1>2. Sound(db')
  BY SavedRowsSound, SavedNotesSound DEF DataOK, Sound
<1>3. HeldIsSound'
  <2> SUFFICES ASSUME NEW a \in Actors, act'[a].pc = "holding"
               PROVE  (Sound(act[a].doc) /\ Loaded(act[a].doc))'
    BY DEF HeldIsSound
  <2>1. act'[a] = act[a]
    BY DEF NothingLoaded
  <2>2. PICK e \in Document : e = act[a].doc
    BY DEF ControlOK, Doing
  <2>3. Sound(e) /\ Loaded(e)
    BY <2>1, <2>2 DEF DataOK, HeldIsSound
  <2>4. Loaded(e)'
    BY <2>3, LoadedStays DEF DataOK
  <2>5. act'[a].doc = e
    BY <2>1, <2>2
  <2> QED
    BY <2>3, <2>4, <2>5 DEF Loaded, Exists, Sound, RowsSound, NotesSound
<1>4. DecidesOnLatest'
  <2>1. CASE \A r \in Requests : Deciding(r)' => act'[r].pc # "holding"
    BY <2>1 DEF DecidesOnLatest
  <2>2. CASE \A v \in Versions : d.review[v] \in {"NONE", db.review[v]}
    <3>1. \A v \in Versions : db'.review[v] = db.review[v]
      BY <2>2, SavedFields DEF DataOK
    <3>2. db'.review = db.review
      BY <1>1, <3>1 DEF DataOK, Document
    <3> QED
      BY <3>2 DEF DataOK, DecidesOnLatest, NothingLoaded, Deciding, Actors
  <2> QED
    BY <2>1, <2>2
<1> QED
  BY <1>1, <1>2, <1>3, <1>4 DEF DataOK

\* An actor saves what it has loaded, or made of it without a decision.
LEMMA SavesAndEndsKeeps ==
  ASSUME IInv, NEW a \in Actors, NEW d \in Document, Sound(d),
         \A v \in Versions : d.review[v] \in {"NONE", db.review[v]},
         SkipsDeliveries(d) => Loaded(d),
         SavesAndEnds(a, d)
  PROVE  IInv'
<1>1. ControlOK /\ DataOK
  BY IInvParts
<1>2. Agrees(d)
  BY DEF Agrees
<1>3. CASE Accepts(d)
  <2>1. db' = Saved(d) /\ Ends(a) /\ UNCHANGED crashes
    BY <1>3 DEF SavesAndEnds
  <2>2. ControlOK' /\ NothingLoaded
    BY <1>1, <2>1, EndsControl
  <2>3. DataOK'
    BY <1>1, <1>2, <1>3, <2>1, <2>2, DataSaved
  <2> QED
    BY <2>2, <2>3, IInvParts DEF IInv, TypeOK, ControlOK, DataOK, Doing
<1>4. CASE ~Accepts(d)
  <2>1. Ends(a) /\ UNCHANGED <<db, crashes>>
    BY <1>4 DEF SavesAndEnds, Fails
  <2>2. ControlOK' /\ NothingLoaded
    BY <1>1, <2>1, EndsControl
  <2>3. DataOK'
    BY <1>1, <2>1, <2>2, DataKept
  <2> QED
    BY <2>2, <2>3 DEF IInv, TypeOK, ControlOK, DataOK, Doing
<1> QED
  BY <1>3, <1>4

LEMMA FailsKeeps ==
  ASSUME IInv, NEW a \in Actors, Fails(a)
  PROVE  IInv'
<1>1. ControlOK /\ DataOK
  BY IInvParts
<1>2. ControlOK' /\ NothingLoaded
  BY <1>1, EndsControl DEF Fails
<1>3. DataOK'
  BY <1>1, <1>2, DataKept DEF Fails
<1> QED
  BY <1>2, <1>3 DEF IInv, TypeOK, ControlOK, DataOK, Doing

\* What an actor holds that has loaded a document.
LEMMA HeldDocument ==
  ASSUME IInv, NEW a \in Actors, act[a].pc = "holding"
  PROVE  /\ act[a].doc \in Document
         /\ Sound(act[a].doc)
         /\ Loaded(act[a].doc)
         /\ \A v \in Versions : act[a].doc.review[v] \in {"NONE", db.review[v]}
  BY DEF IInv, TypeOK, HeldIsSound, Loaded

-----------------------------------------------------------------------------
(* Actions *)

\* Every step that changes neither the tables nor what is held, and gives each
\* actor a record of the right type, keeps what the invariant says of data.
LEMMA ControlStepKeeps ==
  ASSUME IInv, UNCHANGED db, ControlOK', NothingLoaded
  PROVE  IInv'
<1>1. DataOK'
  BY DataKept, IInvParts
<1> QED
  BY <1>1 DEF IInv, TypeOK, ControlOK, DataOK, Doing

LEMMA InitIInv == Init => IInv
<1> SUFFICES ASSUME Init PROVE IInv
  OBVIOUS
<1>1. db \in Document /\ Sound(db)
  BY NewDocumentTyped DEF Init, Sound, RowsSound, NotesSound, Exists, NewDocument, Versions
<1>2. /\ act \in [Actors -> Doing]
      /\ \A a \in Actors : act[a].pc = "idle"
  BY NewDocumentTyped DEF Init, Idle, Doing, RequestKinds, Pcs
<1>3. TypeOK
  BY <1>1, <1>2, ReviewAssumption DEF Init, TypeOK, Doing
<1>4. LockHasHolder /\ LockExcludes /\ WaitsToDecide
  BY <1>2 DEF Init, LockHasHolder, LockExcludes, WaitsToDecide, Deciding, Actors
<1>5. HeldIsSound /\ DecidesOnLatest
  BY <1>2 DEF HeldIsSound, DecidesOnLatest, Actors
<1> QED
  BY <1>1, <1>3, <1>4, <1>5 DEF IInv

LEMMA ArriveKeeps ==
  ASSUME IInv, NEW r \in Requests, Arrive(r)
  PROVE  IInv'
<1> DEFINE place(kind) == IF kind \in {"approve", "changes"} THEN "waiting" ELSE "reading"
<1>1. PICK kind \in Kinds : act' = [act EXCEPT ![r].kind = kind, ![r].pc = place(kind)]
  BY DEF Arrive
<1>2. kind \in RequestKinds
  BY ReviewAssumption
<1>3. PICK pc \in {"waiting", "reading"} :
        /\ pc = "waiting" <=> kind \in {"approve", "changes"}
        /\ act' = [act EXCEPT ![r].kind = kind, ![r].pc = pc]
  BY <1>1
<1>4. /\ act' \in [Actors -> Doing]
      /\ act'[r].pc = pc /\ act'[r].kind = kind
      /\ \A a \in Actors \ {r} : act'[a] = act[a]
  <2>1. act \in [Actors -> Doing] /\ r \in Actors
    BY DEF IInv, TypeOK, Doing, Actors
  <2>2. PICK new \in Doing : new = [act[r] EXCEPT !.kind = kind, !.pc = pc]
    BY <1>2, <2>1 DEF Doing, Pcs
  <2>3. act' = [act EXCEPT ![r] = new]
    BY <1>3, <2>1, <2>2
  <2>4. new.pc = pc /\ new.kind = kind
    BY <2>1, <2>2 DEF Doing
  <2> QED
    BY <2>1, <2>3, <2>4
<1>5. ControlOK'
  <2>1. lock # r
    BY ReviewAssumption DEF Arrive, IInv, LockHasHolder, TypeOK
  <2>2. ~Deciding(r)'
    BY <1>2, <1>3, <1>4 DEF Deciding, RequestKinds
  <2> QED
    BY <1>4, <2>1, <2>2, ReviewAssumption
    DEF Arrive, IInv, TypeOK, ControlOK, LockHasHolder, LockExcludes, WaitsToDecide, Deciding, Actors
<1>6. NothingLoaded
  BY <1>3, <1>4 DEF NothingLoaded
<1> QED
  BY <1>5, <1>6, ControlStepKeeps DEF Arrive

LEMMA LockKeeps ==
  ASSUME IInv, NEW r \in Requests, Lock(r)
  PROVE  IInv'
<1>1. /\ act' \in [Actors -> Doing]
      /\ act'[r].pc = "reading" /\ act'[r].kind = act[r].kind
      /\ \A a \in Actors \ {r} : act'[a] = act[a]
  BY DEF Lock, Goes, IInv, TypeOK, Doing, Actors, Pcs
<1>2. ControlOK'
  BY <1>1, ReviewAssumption
  DEF Lock, IInv, TypeOK, ControlOK, LockHasHolder, LockExcludes, WaitsToDecide, Deciding, Actors
<1>3. NothingLoaded
  BY <1>1 DEF NothingLoaded
<1> QED
  BY <1>2, <1>3, ControlStepKeeps DEF Lock

LEMMA ClaimJobKeeps ==
  ASSUME IInv, ClaimJob
  PROVE  IInv'
<1>1. /\ act' \in [Actors -> Doing]
      /\ act'[Worker].pc = "reading"
      /\ \A a \in Actors \ {Worker} : act'[a] = act[a]
  BY DEF ClaimJob, Goes, IInv, TypeOK, Doing, Actors, Pcs
<1>2. ControlOK'
  BY <1>1, ReviewAssumption
  DEF ClaimJob, IInv, TypeOK, ControlOK, LockHasHolder, LockExcludes, WaitsToDecide, Deciding, Actors
<1>3. NothingLoaded
  BY <1>1 DEF NothingLoaded
<1> QED
  BY <1>2, <1>3, ControlStepKeeps DEF ClaimJob

\* A load in two steps: an actor in the middle of it keeps its place.
LEMMA LoadControl ==
  ASSUME IInv, NEW a \in Actors, act[a].pc \in {"reading", "loading"},
         act' \in [Actors -> Doing], UNCHANGED <<lock, crashes>>,
         act'[a].kind = act[a].kind, act'[a].pc \in {"loading", "holding"},
         \A b \in Actors \ {a} : act'[b] = act[b]
  PROVE  ControlOK'
  BY DEF IInv, TypeOK, ControlOK, LockHasHolder, LockExcludes, WaitsToDecide, Deciding, Actors

LEMMA ReadStateKeeps ==
  ASSUME IInv, NEW a \in Actors, ReadState(a)
  PROVE  IInv'
<1>1. act[a].doc \in Document /\ db.state \in DOMAIN Targets /\ act \in [Actors -> Doing]
  BY DEF IInv, TypeOK, Document, Doing
<1>2. [act[a].doc EXCEPT !.state = db.state] \in Document
  BY <1>1, MovedDocument
<1>3. act' = [act EXCEPT ![a] = [act[a] EXCEPT !.pc = "loading", !.doc = [act[a].doc EXCEPT !.state = db.state]]]
  BY <1>1 DEF ReadState, Doing
<1>4. /\ act' \in [Actors -> Doing]
      /\ act'[a].kind = act[a].kind /\ act'[a].pc = "loading"
      /\ \A b \in Actors \ {a} : act'[b] = act[b]
  BY <1>1, <1>2, <1>3 DEF Doing, Pcs
<1>5. ControlOK'
  BY <1>4, LoadControl DEF ReadState
<1>6. NothingLoaded
  BY <1>4 DEF NothingLoaded
<1> QED
  BY <1>5, <1>6, ControlStepKeeps DEF ReadState

\* What is loaded is what the tables have, but for the state.
LEMMA ReadRestKeeps ==
  ASSUME IInv, NEW a \in Actors, ReadRest(a)
  PROVE  IInv'
<1> DEFINE d == [db EXCEPT !.state = act[a].doc.state]
           torn == act[a].torn \/ act[a].doc.state # db.state
<1>1. act[a].doc.state \in DOMAIN Targets /\ act \in [Actors -> Doing] /\ torn \in BOOLEAN
  BY DEF IInv, TypeOK, Document, Doing
<1>2. Loaded(db)
  BY DEF Loaded, IInv, TypeOK, Document
<1>3. d \in Document /\ Sound(d) /\ Loaded(d) /\ d.review = db.review
  BY <1>1, <1>2, MovedDocument DEF IInv, TypeOK
<1> HIDE DEF d, torn
<1>4. act' = [act EXCEPT ![a] = [act[a] EXCEPT !.pc = "holding", !.doc = d, !.torn = torn]]
  BY <1>1 DEF ReadRest, Doing, d, torn
<1>5. /\ act' \in [Actors -> Doing]
      /\ act'[a].kind = act[a].kind /\ act'[a].pc = "holding" /\ act'[a].doc = d
      /\ \A b \in Actors \ {a} : act'[b] = act[b]
  BY <1>1, <1>3, <1>4 DEF Doing, Pcs
<1>6. ControlOK'
  BY <1>5, LoadControl DEF ReadRest
<1>7. db' = db
  BY DEF ReadRest
<1>8. HeldIsSound'
  <2> SUFFICES ASSUME NEW b \in Actors, act'[b].pc = "holding"
               PROVE  (Sound(act[b].doc) /\ Loaded(act[b].doc))'
    BY DEF HeldIsSound
  <2>1. Sound(act'[b].doc) /\ \A v \in Versions :
          /\ act'[b].doc.review[v] \in {"NONE", db.review[v]}
          /\ Exists(act'[b].doc, v) => Exists(db, v) /\ act'[b].doc.row[v].id = db.row[v].id
    BY <1>3, <1>5 DEF IInv, HeldIsSound, Loaded
  <2> QED
    BY <1>7, <2>1 DEF Loaded, Exists, Sound, RowsSound, NotesSound
<1>9. DecidesOnLatest'
  BY <1>3, <1>5, <1>7 DEF IInv, DecidesOnLatest, Deciding, Actors
<1> QED
  BY <1>6, <1>7, <1>8, <1>9 DEF IInv, TypeOK, ControlOK, Doing

LEMMA FinishDeliveryKeeps ==
  ASSUME IInv, NEW a \in Actors, FinishDelivery(a)
  PROVE  IInv'
<1>1. act[a].pc = "holding"
  BY DEF FinishDelivery, Holds
<1>2. CASE TakesOver(act[a].doc)
  BY <1>2, FailsKeeps DEF FinishDelivery
<1>3. CASE ~TakesOver(act[a].doc)
  <2> DEFINE e == Finished(a, act[a].doc)
  <2>1. /\ e \in Document /\ Sound(e) /\ ~SkipsDeliveries(e)
        /\ \A v \in Versions : e.review[v] \in {"NONE", db.review[v]}
    BY <1>1, <1>3, HeldDocument, FinishedIsSound DEF SkipsDeliveries
  <2>2. SavesAndEnds(a, e)
    BY <1>3 DEF FinishDelivery
  <2> QED
    BY <2>1, <2>2, SavesAndEndsKeeps
<1> QED
  BY <1>2, <1>3

LEMMA WorkKeeps ==
  ASSUME IInv, Work
  PROVE  IInv'
<1> DEFINE d == act[Worker].doc
<1>1. /\ Worker \in Actors
      /\ d \in Document /\ Sound(d) /\ Loaded(d)
      /\ \A v \in Versions : d.review[v] \in {"NONE", db.review[v]}
  BY HeldDocument DEF Work, Holds, Actors
<1>2. CASE SavesAndEnds(Worker, [d EXCEPT !.state = "CURSOR_EXECUTING"])
  BY <1>1, <1>2, States, MovedDocument, SavesAndEndsKeeps
<1>3. CASE SavesAndEnds(Worker, Cycle(d))
  <2>1. Cycle(d) \in Document /\ Sound(Cycle(d)) /\ Loaded(Cycle(d))
    BY <1>1, CycleIsSound
  <2>2. \A v \in Versions : Cycle(d).review[v] \in {"NONE", db.review[v]}
    BY <2>1 DEF Loaded
  <2> QED
    BY <1>1, <1>3, <2>1, <2>2, SavesAndEndsKeeps
<1>4. CASE Fails(Worker)
  BY <1>1, <1>4, FailsKeeps
<1> QED
  BY <1>2, <1>3, <1>4 DEF Work

LEMMA DecideKeeps ==
  ASSUME IInv, NEW r \in Requests, Decide(r)
  PROVE  IInv'
<1> DEFINE d == act[r].doc
           decided == IF act[r].kind = "approve" THEN Approved(d) ELSE SentBack(d)
<1>1. /\ r \in Actors /\ Deciding(r) /\ act[r].pc = "holding"
      /\ d \in Document /\ Sound(d) /\ d.review = db.review
  BY HeldDocument DEF Decide, Holds, Actors, Deciding, IInv, DecidesOnLatest
<1>2. CASE Fails(r)
  BY <1>1, <1>2, FailsKeeps
<1>3. CASE /\ Decidable(d) /\ Accepts(decided)
           /\ db' = Saved(decided)
           /\ act' = [act EXCEPT ![r].pc = "reading",
                                 ![r].kind = IF @ = "approve" THEN "close" ELSE "interpret"]
           /\ UNCHANGED <<lock, crashes>>
  <2>1. /\ decided \in Document /\ Sound(decided) /\ ~SkipsDeliveries(decided)
        /\ \A v \in Versions : decided.review[v] = d.review[v] \/ d.review[v] = "NONE"
    BY <1>1, <1>3, DecidedIsSound
  <2>2. PICK kind \in {"close", "interpret"} : act' = [act EXCEPT ![r].pc = "reading", ![r].kind = kind]
    BY <1>1, <1>3 DEF IInv, TypeOK, Doing
  <2>3. /\ act' \in [Actors -> Doing]
        /\ act'[r].pc = "reading" /\ act'[r].kind = kind
        /\ \A a \in Actors \ {r} : act'[a] = act[a]
    BY <1>1, <2>2 DEF IInv, TypeOK, Doing, Pcs
  <2>4. ControlOK'
    BY <1>1, <1>3, <2>3 DEF IInv, TypeOK, ControlOK, LockHasHolder, LockExcludes, WaitsToDecide, Deciding, Actors
  <2>5. NothingLoaded
    BY <2>3 DEF NothingLoaded
  <2>6. \A b \in Requests : Deciding(b)' => act'[b].pc # "holding"
    <3> SUFFICES ASSUME NEW b \in Requests, Deciding(b)', act'[b].pc = "holding"
                 PROVE  FALSE
      OBVIOUS
    <3>1. b # r /\ Deciding(b)
      BY <2>3 DEF Deciding, Actors
    <3> QED
      BY <1>1, <3>1 DEF IInv, LockExcludes
  <2>7. Agrees(decided)
    BY <1>1, <2>1 DEF Agrees
  <2>8. DataOK'
    <3> HIDE DEF decided
    <3> QED
      BY <1>3, <2>1, <2>5, <2>6, <2>7, DataSaved, IInvParts
  <2> QED
    BY <2>4, <2>8 DEF IInv, TypeOK, ControlOK, DataOK, Doing
<1> QED
  BY <1>2, <1>3 DEF Decide

LEMMA ConcludeKeeps ==
  ASSUME IInv, NEW r \in Requests, Conclude(r)
  PROVE  IInv'
<1>1. /\ r \in Actors /\ act[r].pc = "holding"
  BY DEF Conclude, Holds, Actors
<1>2. CASE Fails(r)
  BY <1>1, <1>2, FailsKeeps
<1>3. ASSUME NEW to \in {"DONE", "COUNCIL_DISCOVERY"}, SavesAndEnds(r, [act[r].doc EXCEPT !.state = to])
      PROVE  IInv'
  BY <1>1, <1>3, States, HeldDocument, MovedDocument, SavesAndEndsKeeps
<1> QED
  BY <1>2, <1>3 DEF Conclude

LEMMA BystanderKeeps ==
  ASSUME IInv, NEW r \in Requests, Open(r) \/ Stop(r) \/ MarkRead(r)
  PROVE  IInv'
<1>1. /\ r \in Actors /\ act[r].pc = "holding"
  BY DEF Open, Stop, MarkRead, Holds, Actors
<1>2. CASE Fails(r)
  BY <1>1, <1>2, FailsKeeps
<1>3. ASSUME NEW s \in {"ACTIVE", "STOPPED"}, SavesAndEnds(r, [act[r].doc EXCEPT !.session = s])
      PROVE  IInv'
  <2> DEFINE e == [act[r].doc EXCEPT !.session = s]
  <2>1. e \in Document /\ Sound(e) /\ Loaded(e)
    BY <1>1, HeldDocument, SessionDocument
  <2>2. \A v \in Versions : e.review[v] \in {"NONE", db.review[v]}
    BY <2>1 DEF Loaded
  <2> QED
    BY <1>1, <1>3, <2>1, <2>2, SavesAndEndsKeeps
<1>4. CASE SavesAndEnds(r, act[r].doc)
  BY <1>1, <1>4, HeldDocument, SavesAndEndsKeeps
<1> QED
  BY <1>2, <1>3, <1>4 DEF Open, Stop, MarkRead

LEMMA CrashKeeps ==
  ASSUME IInv, ApiCrash \/ WorkerCrash
  PROVE  IInv'
<1>1. crashes' \in 0..MaxCrashes /\ UNCHANGED db
  BY ReviewAssumption DEF ApiCrash, WorkerCrash, IInv, TypeOK
<1>2. CASE ApiCrash
  <2>1. /\ act' \in [Actors -> Doing]
        /\ \A a \in Actors : \/ act'[a] = act[a] /\ (a = Worker \/ act[a].pc \in {"idle", "done", "dead"})
                             \/ act'[a].pc = "dead"
    BY <1>2, NewDocumentTyped DEF ApiCrash, IInv, TypeOK, Doing, Idle, Pcs
  <2>2. ControlOK'
    <3>1. \A r \in Requests : ~Deciding(r)'
      BY <2>1, ReviewAssumption DEF Deciding, Actors
    <3> QED
      BY <1>1, <1>2, <2>1, <3>1 DEF ApiCrash, ControlOK, LockHasHolder, LockExcludes, IInv, WaitsToDecide, Actors
  <2>3. NothingLoaded
    BY <2>1 DEF NothingLoaded
  <2> QED
    BY <1>1, <2>2, <2>3, ControlStepKeeps
<1>3. CASE WorkerCrash
  <2>1. /\ act' \in [Actors -> Doing]
        /\ act'[Worker].pc = "idle"
        /\ \A a \in Actors \ {Worker} : act'[a] = act[a]
    BY <1>3, NewDocumentTyped DEF WorkerCrash, IInv, TypeOK, Doing, Idle, Pcs, Actors
  <2>2. ControlOK'
    BY <1>1, <1>3, <2>1, ReviewAssumption
    DEF WorkerCrash, IInv, TypeOK, ControlOK, LockHasHolder, LockExcludes, WaitsToDecide, Deciding, Actors
  <2>3. NothingLoaded
    BY <2>1 DEF NothingLoaded
  <2> QED
    BY <1>1, <2>2, <2>3, ControlStepKeeps
<1> QED
  BY <1>2, <1>3

-----------------------------------------------------------------------------
(* Theorems *)

LEMMA NextKeeps ==
  ASSUME IInv, [Next]_vars
  PROVE  IInv'
<1>1. ASSUME NEW r \in Requests, Arrive(r) \/ Serve(r)
      PROVE  IInv'
  <2>0. r \in Actors
    BY DEF Actors
  <2>1. CASE Reading(r)
    BY <2>0, <2>1, ReadStateKeeps, ReadRestKeeps, FinishDeliveryKeeps DEF Reading
  <2>2. CASE View(r)
    BY <2>0, <2>2, FailsKeeps DEF View
  <2>3. CASE Arrive(r) \/ Lock(r)
    BY <2>3, ArriveKeeps, LockKeeps
  <2>4. CASE Decide(r) \/ Conclude(r)
    BY <2>4, DecideKeeps, ConcludeKeeps
  <2>5. CASE Open(r) \/ Stop(r) \/ MarkRead(r)
    BY <2>5, BystanderKeeps
  <2> QED
    BY <1>1, <2>1, <2>2, <2>3, <2>4, <2>5 DEF Serve
<1>2. CASE WorkerSteps
  <2>1. Worker \in Actors
    BY DEF Actors
  <2> QED
    BY <1>2, <2>1, ClaimJobKeeps, ReadStateKeeps, ReadRestKeeps, FinishDeliveryKeeps, WorkKeeps
    DEF WorkerSteps, Reading
<1>3. CASE ApiCrash \/ WorkerCrash
  BY <1>3, CrashKeeps
<1>4. CASE UNCHANGED vars
  <2>1. NothingLoaded /\ ControlOK'
    BY <1>4, IInvParts
    DEF vars, NothingLoaded, ControlOK, LockHasHolder, LockExcludes, WaitsToDecide, Deciding
  <2> QED
    BY <1>4, <2>1, ControlStepKeeps DEF vars
<1> QED
  BY <1>1, <1>2, <1>3, <1>4 DEF Next

\* The invariant holds of every run, whatever the number of requests, of
\* deliveries and of crashes.
THEOREM Invariant == Spec => []IInv
<1>1. Init => IInv
  BY InitIInv
<1>2. IInv /\ [Next]_vars => IInv'
  BY NextKeeps
<1> QED
  BY <1>1, <1>2, PTL DEF Spec

\* The tables and the documents in memory keep their shapes (TypeOK).
THEOREM TypeCorrect == Spec => []TypeOK
<1>1. IInv => TypeOK
  BY DEF IInv
<1> QED
  BY <1>1, Invariant, PTL

\* Whoever holds the lock of decisions is at work on one, so that a request
\* that fails, is answered or dies never keeps the owner from deciding
\* (withProjectLock).
THEOREM LockNeverLeft == Spec => []LockHasHolder
<1>1. IInv => LockHasHolder
  BY DEF IInv
<1> QED
  BY <1>1, Invariant, PTL

\* However many jobs and requests finish a delivery side by side, the owner is
\* notified of it once, and of nothing that is no delivery (notifyReady).
THEOREM OneNotification == Spec => []NotifiedOnce
<1>1. IInv => NotifiedOnce
  <2> SUFFICES ASSUME IInv, NEW v \in Versions
               PROVE  {n \in db.notes : n[1] = v} = IF Exists(db, v) THEN {<<v, db.row[v].id>>} ELSE {}
    BY DEF NotifiedOnce
  <2>1. db.notes \subseteq Versions \X Actors
    BY DEF IInv, TypeOK, Document
  <2>2. \A n \in db.notes : n = <<n[1], n[2]>>
    BY <2>1
  <2>3. \A n \in db.notes : n[1] = v => Exists(db, v) /\ n = <<v, db.row[v].id>>
    BY <2>2 DEF IInv, Sound, NotesSound
  <2>4. Exists(db, v) => <<v, db.row[v].id>> \in db.notes
    BY DEF IInv, Sound, NotesSound
  <2> QED
    BY <2>3, <2>4
<1> QED
  BY <1>1, Invariant, PTL

\* A delivery that is approved was never sent back, nor one that was sent back
\* approved, whatever is saved over it (recordOwnerDecision, withProjectLock).
THEOREM OneDecision == Spec => []OneOutcome
<1>1. IInv => OneOutcome
  BY DEF IInv, Sound, RowsSound, OneOutcome
<1> QED
  BY <1>1, Invariant, PTL

-----------------------------------------------------------------------------
(* The saved state *)

\* The actor has read the state of the project.
HasState(a) == act[a].pc \in {"loading", "holding"}

\* A request is done that was a bystander or had a torn load.
Spoiled == \E r \in Requests : act[r].pc = "done" /\ (act[r].torn \/ Bystander(r))

\* Changes are asked for of the delivery of this version, and there is room
\* for another one.
Owed(v) == db.review[v] = "CHANGES_REQUESTED" /\ v < MaxVersions

\* No document has evidence the tables do not have.
VersionsKept == \A a \in Actors : act[a].pc = "holding" => act[a].doc.version <= db.version

\* Only the worker makes evidence and its own deliveries.
WorkerIsLatest ==
  act[Worker].pc = "holding" =>
    /\ act[Worker].doc.version = db.version
    /\ \A v \in Versions : Exists(db, v) /\ db.row[v].id = Worker => Exists(act[Worker].doc, v)

\* Who has made a delivery is done.
RowsOfDone ==
  \A r \in Requests, v \in Versions : Exists(db, v) /\ db.row[v].id = r => act[r].pc = "done"

Kept == VersionsKept /\ WorkerIsLatest /\ RowsOfDone

\* All evidence but the latest was delivered, and the latest is delivered
\* unless it is prepared.
DeliveredUpTo ==
  /\ \A v \in Versions : v < db.version => Exists(db, v)
  /\ db.state # "DELIVERY_PREPARATION" => Exists(db, db.version)

PreparedIsNew == db.state = "DELIVERY_PREPARATION" => ~Exists(db, db.version)

ChangesOwed ==
  db.state \in {"OWNER_CHANGES_REQUESTED", "COUNCIL_DISCOVERY", "CURSOR_EXECUTING"} => Owed(db.version)

\* Nobody moves the project on while the worker works.
WorkerFollows ==
  HasState(Worker) /\ act[Worker].doc.state \in {"COUNCIL_DISCOVERY", "CURSOR_EXECUTING"} =>
    /\ db.state = act[Worker].doc.state
    /\ act[Worker].pc = "holding" => act[Worker].doc.review[db.version] = "CHANGES_REQUESTED"

\* Nobody else decides while a request that has the lock does.
DeciderFollows ==
  \A r \in Requests :
    HasState(r) /\ act[r].kind \in {"approve", "changes"} /\ act[r].doc.state = "READY_FOR_OWNER_REVIEW" =>
      /\ db.state = "READY_FOR_OWNER_REVIEW"
      /\ act[r].pc = "holding" => act[r].doc.version = db.version

\* Nor between the two saves of a decision, except for a worker whose load
\* was torn by the first one.
ConcluderFollows ==
  \A r \in Requests :
    HasState(r) /\ act[r].kind \in {"close", "interpret"}
      /\ act[r].doc.state \in {"OWNER_APPROVED", "OWNER_CHANGES_REQUESTED"} =>
      /\ \/ db.state = act[r].doc.state
         \/ db.state = "READY_FOR_OWNER_REVIEW" /\ act[Worker].torn /\ act[Worker].pc = "idle"
      /\ act[r].doc.state = "OWNER_CHANGES_REQUESTED" => Owed(db.version)

\* Who prepares a delivery has not loaded one of this evidence.
PreparesNew ==
  \A a \in Actors :
    act[a].pc = "holding" /\ ~act[a].torn /\ act[a].doc.state = "DELIVERY_PREPARATION" =>
      ~Exists(act[a].doc, act[a].doc.version)

Straight == /\ DeliveredUpTo
            /\ PreparedIsNew
            /\ ChangesOwed
            /\ WorkerFollows
            /\ DeciderFollows
            /\ ConcluderFollows
            /\ PreparesNew

\* The inductive invariant of OnlyTransitions, with IInv.
Orderly == Kept /\ (Spoiled \/ Straight)

\* What OnlyTransitions says of a step.
StateStep ==
  \/ db'.state = db.state
  \/ Legal(db.state, db'.state)
  \/ \E a \in Actors : act[a].torn \/ (Bystander(a) /\ act'[a].pc = "done")

DoneStays == \A r \in Requests : act[r].pc = "done" => act'[r] = act[r]

\* An actor that changes in this step has read nothing in it.
Settles == \A b \in Actors : act'[b] = act[b] \/ ~(HasState(b)')

-----------------------------------------------------------------------------
(* Kinds of steps, for the saved state *)

LEMMA SavedState ==
  ASSUME db \in Document, NEW d \in Document
  PROVE  /\ Saved(d).state = d.state
         /\ d.version <= db.version => Saved(d).version = db.version
         /\ db.version <= Saved(d).version
         /\ \A v \in Versions :
              /\ Exists(Saved(d), v) <=> Exists(db, v) \/ (~SkipsDeliveries(d) /\ Exists(d, v))
              /\ Exists(db, v) => Saved(d).row[v].id = db.row[v].id
              /\ ~SkipsDeliveries(d) /\ Exists(d, v) /\ ~Exists(db, v) => Saved(d).row[v].id = d.row[v].id
              /\ db.review[v] # "NONE" => Saved(d).review[v] = db.review[v]
<1>1. Saved(d).state = d.state
  BY DEF Saved, Document
<1>2. d.version \in Nat /\ db.version \in Nat
  BY ReviewAssumption DEF Document, Versions
<1>3. /\ d.version <= db.version => Saved(d).version = db.version
      /\ db.version <= Saved(d).version
  BY <1>2, SavedFields
<1>4. ASSUME NEW v \in Versions
      PROVE  /\ Exists(Saved(d), v) <=> Exists(db, v) \/ (~SkipsDeliveries(d) /\ Exists(d, v))
             /\ Exists(db, v) => Saved(d).row[v].id = db.row[v].id
             /\ ~SkipsDeliveries(d) /\ Exists(d, v) /\ ~Exists(db, v) => Saved(d).row[v].id = d.row[v].id
             /\ db.review[v] # "NONE" => Saved(d).review[v] = db.review[v]
  <2>1. CASE SkipsDeliveries(d)
    BY <2>1, SavedFields DEF Exists
  <2>2. CASE ~SkipsDeliveries(d)
    BY <2>2, SavedFields, StoredRowTyped DEF Exists
  <2> QED
    BY <2>1, <2>2
<1> QED
  BY <1>1, <1>3, <1>4

\* Who is done, or has failed, keeps its kind and whether its load was torn.
LEMMA ForgetsActor ==
  ASSUME IInv, NEW a \in Actors, Forgets(a)
  PROVE  /\ act'[a].pc = IF a = Worker THEN "idle" ELSE "done"
         /\ act'[a].kind = act[a].kind
         /\ act'[a].torn = act[a].torn
         /\ \A b \in Actors \ {a} : act'[b] = act[b]
  BY DEF Forgets, Idle, IInv, TypeOK

\* A bystander that is done, or a request with a torn load, spoils it.
LEMMA SpoilsOnEnd ==
  ASSUME IInv, NEW r \in Requests, Forgets(r), act[r].torn \/ Bystander(r)
  PROVE  Spoiled'
<1>1. r \in Actors /\ r # Worker
  BY ReviewAssumption DEF Actors
<1> QED
  BY <1>1, ForgetsActor DEF Spoiled, Bystander

LEMMA SpoiledStays ==
  ASSUME DoneStays, Spoiled
  PROVE  Spoiled' /\ StateStep
<1>1. PICK r \in Requests : act[r].pc = "done" /\ (act[r].torn \/ Bystander(r))
  BY DEF Spoiled
<1>2. act'[r] = act[r] /\ r \in Actors
  BY <1>1 DEF DoneStays, Actors
<1> QED
  BY <1>1, <1>2 DEF Spoiled, StateStep, Bystander

LEMMA KeptOnRest ==
  ASSUME Kept, UNCHANGED db, NothingLoaded, DoneStays
  PROVE  Kept'
<1>1. Worker \in Actors
  BY DEF Actors
<1> QED
  BY <1>1 DEF Kept, VersionsKept, WorkerIsLatest, RowsOfDone, NothingLoaded, DoneStays, Exists

\* A save that adds no evidence but the worker's, nor deliveries but the
\* actor's own.
LEMMA KeptOnSave ==
  ASSUME IInv, Kept, NEW a \in Actors, NEW d \in Document, db' = Saved(d),
         act[a].pc = "holding", act'[a].pc # "holding",
         \A b \in Actors \ {a} : act'[b] = act[b],
         a # Worker => d.version <= db.version,
         \A v \in Versions : Exists(d, v) /\ ~Exists(db, v) =>
                               d.row[v].id = a /\ (a # Worker => act'[a].pc = "done")
  PROVE  Kept' /\ DoneStays
<1>0. db \in Document /\ Worker \in Actors /\ Worker \notin Requests
      /\ \A b \in Actors : act[b].doc \in Document
  BY ReviewAssumption DEF IInv, TypeOK, Actors
<1>1. DoneStays
  BY DEF DoneStays, Actors
<1>2. VersionsKept'
  <2> SUFFICES ASSUME NEW b \in Actors, act'[b].pc = "holding"
               PROVE  act'[b].doc.version <= db'.version
    BY DEF VersionsKept
  <2>1. act'[b] = act[b]
    OBVIOUS
  <2>2. act[b].doc.version <= db.version
    BY <2>1 DEF Kept, VersionsKept
  <2>3. db' \in Document /\ db.version <= db'.version
    BY <1>0, SavedTyped, SavedState
  <2>4. act[b].doc.version \in Nat /\ db.version \in Nat /\ db'.version \in Nat
    BY <1>0, <2>3, ReviewAssumption DEF Document, Versions
  <2> QED
    BY <2>1, <2>2, <2>3, <2>4
<1>3. WorkerIsLatest'
  <2> SUFFICES ASSUME act'[Worker].pc = "holding"
               PROVE  /\ act'[Worker].doc.version = db'.version
                      /\ \A v \in Versions : Exists(db', v) /\ db'.row[v].id = Worker => Exists(act'[Worker].doc, v)
    BY DEF WorkerIsLatest, Exists
  <2>1. a # Worker /\ act'[Worker] = act[Worker]
    BY <1>0
  <2>2. db'.version = db.version
    BY <1>0, <2>1, SavedState
  <2>3. ASSUME NEW v \in Versions, Exists(db', v), db'.row[v].id = Worker
        PROVE  Exists(act[Worker].doc, v)
    <3>1. Exists(db, v) /\ db.row[v].id = Worker
      BY <1>0, <2>1, <2>3, SavedState
    <3> QED
      BY <2>1, <3>1 DEF Kept, WorkerIsLatest
  <2> QED
    BY <2>1, <2>2, <2>3 DEF Kept, WorkerIsLatest
<1>4. RowsOfDone'
  <2> SUFFICES ASSUME NEW r \in Requests, NEW v \in Versions, Exists(db', v), db'.row[v].id = r
               PROVE  act'[r].pc = "done"
    BY DEF RowsOfDone, Exists
  <2>1. CASE Exists(db, v)
    <3>1. act[r].pc = "done"
      BY <1>0, <2>1, SavedState DEF Kept, RowsOfDone
    <3> QED
      BY <1>1, <3>1 DEF DoneStays
  <2>2. CASE ~Exists(db, v)
    BY <1>0, <2>2, SavedState
  <2> QED
    BY <2>1, <2>2
<1> QED
  BY <1>1, <1>2, <1>3, <1>4 DEF Kept

\* Nothing is saved, and the worker does not leave its place while a decision
\* that it has overtaken waits for its second save.
LEMMA StraightOnRest ==
  ASSUME Straight, UNCHANGED db, Settles,
         act[Worker].pc = "idle" /\ db.state = "READY_FOR_OWNER_REVIEW" => act'[Worker] = act[Worker]
  PROVE  Straight'
<1>0. Worker \in Actors /\ Requests \subseteq Actors
  BY DEF Actors
<1>1. (DeliveredUpTo /\ PreparedIsNew /\ ChangesOwed)'
  BY DEF Straight, DeliveredUpTo, PreparedIsNew, ChangesOwed, Owed, Exists
<1>2. WorkerFollows'
  BY <1>0 DEF Straight, WorkerFollows, Settles, HasState
<1>3. DeciderFollows'
  BY <1>0 DEF Straight, DeciderFollows, Settles, HasState
<1>4. ConcluderFollows'
  <2> SUFFICES ASSUME NEW r \in Requests, HasState(r)', act'[r].kind \in {"close", "interpret"},
                      act'[r].doc.state \in {"OWNER_APPROVED", "OWNER_CHANGES_REQUESTED"}
               PROVE  /\ \/ db'.state = act'[r].doc.state
                         \/ db'.state = "READY_FOR_OWNER_REVIEW" /\ act'[Worker].torn /\ act'[Worker].pc = "idle"
                      /\ act'[r].doc.state = "OWNER_CHANGES_REQUESTED" => Owed(db.version)'
    BY DEF ConcluderFollows
  <2>1. act'[r] = act[r]
    BY <1>0 DEF Settles
  <2> QED
    BY <2>1 DEF Straight, ConcluderFollows, HasState, Owed
<1>5. PreparesNew'
  BY DEF Straight, PreparesNew, Settles, HasState, Exists
<1> QED
  BY <1>1, <1>2, <1>3, <1>4, <1>5 DEF Straight

\* A step that saves and loads nothing.
LEMMA RestIsOrderly ==
  ASSUME Orderly, UNCHANGED db, NothingLoaded, DoneStays, Settles,
         act[Worker].pc = "idle" /\ db.state = "READY_FOR_OWNER_REVIEW" => act'[Worker] = act[Worker]
  PROVE  Orderly' /\ StateStep
  BY KeptOnRest, StraightOnRest, SpoiledStays DEF Orderly, StateStep

LEMMA FailsIsOrderly ==
  ASSUME IInv, Orderly, NEW a \in Actors, act[a].pc = "holding", Fails(a)
  PROVE  Orderly' /\ StateStep
<1>1. /\ act'[a].pc \in {"idle", "done"}
      /\ \A b \in Actors \ {a} : act'[b] = act[b]
  BY ForgetsActor DEF Fails, Ends
<1>2. NothingLoaded /\ Settles
  BY <1>1 DEF NothingLoaded, Settles, HasState
<1>3. DoneStays
  BY <1>1 DEF DoneStays, Actors
<1>4. act[Worker].pc = "idle" => act'[Worker] = act[Worker]
  BY <1>1 DEF Actors
<1> QED
  BY <1>2, <1>3, <1>4, RestIsOrderly DEF Fails

-----------------------------------------------------------------------------
(* Actions, for the saved state *)

LEMMA PreparesNewOnSave ==
  ASSUME Straight, Settles
  PROVE  PreparesNew'
  BY DEF Straight, PreparesNew, Settles, HasState, Exists

\* The request that has the lock is the only one that decides.
LEMMA DecidesAlone ==
  ASSUME IInv, NEW r \in Requests, NEW s \in Requests,
         HasState(r), act[r].kind \in {"approve", "changes", "close", "interpret"},
         HasState(s), act[s].kind \in {"approve", "changes", "close", "interpret"}
  PROVE  r = s
  BY DEF IInv, LockExcludes, Deciding, HasState

\* The only delivery that one document has and the other has not is of its
\* version and of this actor.
AddsOwn(e, d, a) == \A w \in Versions : Exists(e, w) => Exists(d, w) \/ (w = d.version /\ e.row[w].id = a)

LEMMA FinishedFields ==
  ASSUME NEW a \in Actors, NEW d \in Document, ~TakesOver(d)
  PROVE  /\ Finished(a, d).version = d.version
         /\ Exists(Finished(a, d), d.version)
         /\ AddsOwn(Finished(a, d), d, a)
         /\ ~Exists(d, d.version) => /\ Finished(a, d).row[d.version].id = a
                                     /\ <<d.version, a>> \in Finished(a, d).notes
<1> DEFINE v == d.version
<1>e. PICK e : e = Finished(a, d)
  OBVIOUS
<1>0. v \in Versions /\ d.row[v].status \in {"NONE", "READY"}
  BY DEF Document, TakesOver
<1>1. CASE d.row[v].status = "READY"
  <2>1. e = [d EXCEPT !.current = v, !.state = "READY_FOR_OWNER_REVIEW"]
    BY <1>1, <1>e DEF Finished
  <2>2. e.version = d.version /\ e.row = d.row
    BY <2>1 DEF Document
  <2> QED
    BY <1>1, <1>e, <2>2 DEF Exists, AddsOwn
<1>2. CASE d.row[v].status # "READY"
  <2> DEFINE row == [w \in Versions |->
                       IF w = v THEN [id |-> a, status |-> "READY"]
                       ELSE IF w = d.current /\ d.row[w].status = "READY"
                       THEN [d.row[w] EXCEPT !.status = "SUPERSEDED"]
                       ELSE d.row[w]]
  <2>1. e = [d EXCEPT !.row = row, !.current = v, !.notes = @ \cup {<<v, a>>},
                      !.state = "READY_FOR_OWNER_REVIEW"]
    BY <1>2, <1>e DEF Finished
  <2>2. /\ row[v] = [id |-> a, status |-> "READY"]
        /\ \A w \in Versions \ {v} : row[w].status = "NONE" <=> d.row[w].status = "NONE"
    BY <1>0 DEF Document
  <2> HIDE DEF row
  <2>3. e.version = d.version /\ e.row = row /\ e.notes = d.notes \cup {<<v, a>>}
    BY <2>1 DEF Document
  <2>4. Exists(e, v) /\ e.row[v].id = a /\ <<v, a>> \in e.notes
    BY <2>2, <2>3 DEF Exists
  <2>5. AddsOwn(e, d, a)
    BY <2>2, <2>3, <2>4 DEF Exists, AddsOwn
  <2> QED
    BY <1>e, <2>3, <2>4, <2>5
<1> QED
  BY <1>0, <1>1, <1>2

\* The foreign key accepts the delivery of an actor whose load was not torn
\* only if it is that of the latest evidence, and nobody else has made it.
LEMMA FinishesLatest ==
  ASSUME IInv, Kept, Straight, NEW a \in Actors, act[a].pc = "holding", ~act[a].torn,
         act[a].doc.state = "DELIVERY_PREPARATION", ~TakesOver(act[a].doc),
         Accepts(Finished(a, act[a].doc))
  PROVE  act[a].doc.version = db.version /\ db.state = "DELIVERY_PREPARATION"
<1> DEFINE d == act[a].doc
           e == Finished(a, d)
           v == d.version
<1>1. db \in Document /\ d \in Document /\ Sound(d) /\ Loaded(d)
  BY HeldDocument DEF IInv, TypeOK
<1>2. v \in Versions /\ v \in Nat /\ db.version \in Nat /\ v <= db.version
  BY <1>1, ReviewAssumption DEF Document, Versions, Kept, VersionsKept
<1>3. ~Exists(d, v)
  BY DEF Straight, PreparesNew
<1>4. e \in Document /\ e.state = "READY_FOR_OWNER_REVIEW"
  BY <1>1, FinishedIsSound
<1>5. Exists(e, v) /\ e.row[v].id = a /\ <<v, a>> \in e.notes
  BY <1>1, <1>3, FinishedFields
<1> HIDE DEF e
<1>6. StoredRow(e, v).id = a
  BY <1>4, <1>5 DEF Accepts, SkipsDeliveries, e
<1>7. Exists(db, v) => db.row[v].id = a
  BY <1>1, <1>2, <1>4, <1>5, <1>6, StoredRowTyped
<1>8. ~Exists(db, v)
  <2>1. CASE a = Worker
    BY <1>2, <1>3, <1>7, <2>1 DEF Kept, WorkerIsLatest
  <2>2. CASE a # Worker
    BY <1>2, <1>7, <2>2 DEF Kept, RowsOfDone, Actors
  <2> QED
    BY <2>1, <2>2
<1> QED
  BY <1>2, <1>8 DEF Straight, DeliveredUpTo

LEMMA FinishIsOrderly ==
  ASSUME IInv, Orderly, NEW a \in Actors, FinishDelivery(a)
  PROVE  Orderly' /\ StateStep
<1>d. PICK d : d = act[a].doc
  OBVIOUS
<1>e. PICK e : e = Finished(a, d)
  OBVIOUS
<1>0. /\ act[a].pc = "holding" /\ d.state = "DELIVERY_PREPARATION"
      /\ Kept /\ db \in Document
      /\ Worker \in Actors /\ Worker \notin Requests
      /\ act[a].torn \in BOOLEAN
  BY <1>d, ReviewAssumption DEF FinishDelivery, Holds, Orderly, IInv, TypeOK, Actors
<1>1. d \in Document /\ Sound(d) /\ Loaded(d)
  BY <1>0, <1>d, HeldDocument
<1>2. CASE Fails(a)
  BY <1>0, <1>2, FailsIsOrderly
<1>3. CASE ~TakesOver(d) /\ Accepts(e) /\ db' = Saved(e) /\ Ends(a)
  <2>1. /\ e \in Document /\ e.state = "READY_FOR_OWNER_REVIEW" /\ ~SkipsDeliveries(e)
        /\ e.version = d.version /\ Exists(e, d.version)
        /\ \A w \in Versions : Exists(e, w) => Exists(d, w) \/ (w = d.version /\ e.row[w].id = a)
    <3>1. e \in Document /\ e.state = "READY_FOR_OWNER_REVIEW"
      BY <1>1, <1>3, <1>e, FinishedIsSound
    <3>2. ~SkipsDeliveries(e)
      BY <3>1 DEF SkipsDeliveries
    <3>3. /\ e.version = d.version /\ Exists(e, d.version)
          /\ AddsOwn(e, d, a)
      BY <1>1, <1>3, <1>e, FinishedFields
    <3> QED
      BY <3>1, <3>2, <3>3 DEF AddsOwn
  <2>2. /\ act'[a].pc = IF a = Worker THEN "idle" ELSE "done"
        /\ act'[a].torn = act[a].torn
        /\ \A b \in Actors \ {a} : act'[b] = act[b]
    BY <1>3, ForgetsActor DEF Ends
  <2>3. \A w \in Versions : Exists(d, w) => Exists(db, w)
    BY <1>1 DEF Loaded
  <2>4. d.version <= db.version /\ d.version \in Versions
    BY <1>0, <1>1, <1>d DEF Kept, VersionsKept, Document
  <2>5. Kept' /\ DoneStays
    <3>1. \A w \in Versions : Exists(e, w) /\ ~Exists(db, w) =>
            e.row[w].id = a /\ (a # Worker => act'[a].pc = "done")
      BY <2>1, <2>2, <2>3
    <3> QED
      BY <1>0, <1>3, <2>1, <2>2, <2>4, <3>1, KeptOnSave
  <2>6. CASE Spoiled
    BY <2>5, <2>6, SpoiledStays DEF Orderly
  <2>7. CASE a # Worker /\ act[a].torn
    <3>1. Spoiled'
      BY <1>3, <2>7, SpoilsOnEnd DEF Ends, Actors
    <3> QED
      BY <2>5, <2>7, <3>1 DEF Orderly, StateStep
  <2>8. CASE ~Spoiled /\ (a = Worker \/ ~act[a].torn)
    <3>1. Straight
      BY <2>8 DEF Orderly
    <3>2. ~act[a].torn => d.version = db.version /\ db.state = "DELIVERY_PREPARATION"
      BY <1>0, <1>3, <1>d, <1>e, <3>1, FinishesLatest
    <3>3. d.version = db.version
      BY <1>0, <1>d, <2>8, <3>2 DEF Kept, WorkerIsLatest
    <3>4. /\ db'.state = "READY_FOR_OWNER_REVIEW" /\ db'.version = db.version
          /\ \A w \in Versions : Exists(db, w) \/ Exists(e, w) => Exists(db', w)
          /\ \A w \in Versions : db.review[w] # "NONE" => db'.review[w] = db.review[w]
      BY <1>0, <1>3, <2>1, <2>4, <3>3, SavedState
    <3>5. StateStep
      <4>1. ~act[a].torn => Legal(db.state, db'.state)
        BY <3>2, <3>4 DEF Legal, Targets
      <4> QED
        BY <4>1 DEF StateStep
    <3>6. db.version \in Versions
      BY <1>0 DEF Document
    <3>7. DeliveredUpTo'
      BY <2>1, <3>1, <3>3, <3>4, <3>6 DEF Straight, DeliveredUpTo, Exists
    <3>8. PreparedIsNew' /\ ChangesOwed'
      BY <3>4 DEF PreparedIsNew, ChangesOwed
    <3>9. WorkerFollows'
      <4> SUFFICES ASSUME HasState(Worker)', act'[Worker].doc.state \in {"COUNCIL_DISCOVERY", "CURSOR_EXECUTING"}
                   PROVE  FALSE
        BY DEF WorkerFollows
      <4>1. a # Worker /\ act'[Worker] = act[Worker]
        BY <1>0, <2>2 DEF HasState
      <4> QED
        BY <2>8, <3>1, <3>2, <4>1 DEF Straight, WorkerFollows, HasState
    <3>10. DeciderFollows'
      <4> SUFFICES ASSUME NEW r \in Requests, HasState(r)', act'[r].kind \in {"approve", "changes"},
                          act'[r].doc.state = "READY_FOR_OWNER_REVIEW"
                   PROVE  act'[r].pc = "holding" => act'[r].doc.version = db'.version
        BY <3>4 DEF DeciderFollows
      <4>1. act'[r] = act[r]
        BY <1>0, <2>2 DEF HasState, Actors
      <4> QED
        BY <3>1, <3>4, <4>1 DEF Straight, DeciderFollows, HasState
    <3>11. ConcluderFollows'
      <4> SUFFICES ASSUME NEW r \in Requests, HasState(r)', act'[r].kind \in {"close", "interpret"},
                          act'[r].doc.state \in {"OWNER_APPROVED", "OWNER_CHANGES_REQUESTED"}
                   PROVE  /\ act'[Worker].torn /\ act'[Worker].pc = "idle"
                          /\ act'[r].doc.state = "OWNER_CHANGES_REQUESTED" => Owed(db.version)'
        BY <3>4 DEF ConcluderFollows
      <4>1. act'[r] = act[r]
        BY <1>0, <2>2 DEF HasState, Actors
      <4>2. /\ db.state = act[r].doc.state \/ (db.state = "READY_FOR_OWNER_REVIEW" /\ act[Worker].pc = "idle")
            /\ act[r].doc.state = "OWNER_CHANGES_REQUESTED" => Owed(db.version)
        BY <3>1, <4>1 DEF Straight, ConcluderFollows, HasState
      <4>3. act[a].torn /\ a = Worker
        BY <2>8, <3>2, <4>1, <4>2
      <4>4. act'[r].doc.state = "OWNER_CHANGES_REQUESTED" => Owed(db.version)'
        BY <3>4, <3>6, <4>1, <4>2 DEF Owed
      <4> QED
        BY <2>2, <4>3, <4>4
    <3>12. PreparesNew'
      <4>1. Settles
        BY <2>2 DEF Settles, HasState
      <4> QED
        BY <3>1, <4>1, PreparesNewOnSave
    <3> QED
      BY <2>5, <3>5, <3>7, <3>8, <3>9, <3>10, <3>11, <3>12 DEF Orderly, Straight
  <2> QED
    BY <1>0, <2>6, <2>7, <2>8
<1> QED
  BY <1>2, <1>3, <1>d, <1>e DEF FinishDelivery, SavesAndEnds

LEMMA WorkIsOrderly ==
  ASSUME IInv, Orderly, Work
  PROVE  Orderly' /\ StateStep
<1> DEFINE d == act[Worker].doc
           moved == [d EXCEPT !.state = "CURSOR_EXECUTING"]
<1>0. /\ act[Worker].pc = "holding"
      /\ Kept /\ db \in Document /\ RowsSound(db)
      /\ Worker \in Actors /\ Worker \notin Requests /\ Requests \subseteq Actors
  BY ReviewAssumption DEF Work, Holds, Orderly, IInv, TypeOK, Sound, Actors
<1>1. /\ d \in Document /\ Sound(d) /\ Loaded(d)
      /\ d.version = db.version /\ db.version \in Versions /\ db.version \in Nat
      /\ \A w \in Versions : w \in Nat
  BY <1>0, HeldDocument, ReviewAssumption DEF Kept, WorkerIsLatest, Document, Versions
<1>2. CASE Fails(Worker)
  BY <1>0, <1>2, FailsIsOrderly
<1>3. ASSUME NEW e \in Document, Accepts(e), db' = Saved(e), Ends(Worker), e.row = d.row,
             d.state \in {"COUNCIL_DISCOVERY", "CURSOR_EXECUTING"},
             \/ /\ d.state = "COUNCIL_DISCOVERY" /\ e.state = "CURSOR_EXECUTING"
                /\ e.version = d.version
             \/ /\ d.state = "CURSOR_EXECUTING" /\ e.state = "DELIVERY_PREPARATION"
                /\ d.review[d.version] = "CHANGES_REQUESTED" /\ d.version < MaxVersions =>
                     e.version = d.version + 1
      PROVE  Orderly' /\ StateStep
  <2>1. /\ act'[Worker].pc = "idle"
        /\ \A b \in Actors \ {Worker} : act'[b] = act[b]
    BY <1>0, <1>3, ForgetsActor DEF Ends
  <2>2. \A w \in Versions : Exists(e, w) => Exists(db, w)
    BY <1>1, <1>3 DEF Loaded, Exists
  <2>3. Kept' /\ DoneStays
    BY <1>0, <1>3, <2>1, <2>2, KeptOnSave
  <2>4. CASE Spoiled
    BY <2>3, <2>4, SpoiledStays DEF Orderly
  <2>5. CASE ~Spoiled
    <3>1. Straight
      BY <2>5 DEF Orderly
    <3>2. /\ db.state = d.state /\ d.review[db.version] = "CHANGES_REQUESTED"
          /\ Owed(db.version)
      BY <1>0, <1>3, <3>1 DEF Straight, WorkerFollows, HasState, ChangesOwed
    <3>3. /\ db'.state = e.state
          /\ \A w \in Versions : Exists(db', w) <=> Exists(db, w)
          /\ \A w \in Versions : db.review[w] # "NONE" => db'.review[w] = db.review[w]
      BY <1>0, <1>3, <2>2, SavedState
    <3>4. StateStep
      BY <1>3, <3>2, <3>3 DEF StateStep, Legal, Targets
    <3>5. \/ e.state = "CURSOR_EXECUTING" /\ db'.version = db.version
          \/ e.state = "DELIVERY_PREPARATION" /\ db'.version = db.version + 1
      <4>1. CASE e.state = "CURSOR_EXECUTING"
        BY <1>0, <1>1, <1>3, <4>1, SavedState
      <4>2. CASE e.state = "DELIVERY_PREPARATION"
        <5>1. e.version = db.version + 1
          BY <1>1, <1>3, <3>2, <4>2 DEF Owed
        <5> QED
          BY <1>0, <1>1, <1>3, <4>2, <5>1, SavedFields
      <4> QED
        BY <1>3, <4>1, <4>2
    <3>6. \A w \in Versions : w <= db.version => Exists(db, w)
      BY <1>1, <1>3, <3>1, <3>2 DEF Straight, DeliveredUpTo
    <3>7. DeliveredUpTo'
      BY <1>1, <3>3, <3>5, <3>6 DEF DeliveredUpTo, Exists
    <3>8. PreparedIsNew'
      <4> SUFFICES ASSUME db'.state = "DELIVERY_PREPARATION"
                   PROVE  ~Exists(db', db'.version)
        BY DEF PreparedIsNew, Exists
      <4>1. db'.version = db.version + 1
        BY <3>3, <3>5
      <4>2. db.version + 1 \in Versions
        BY <1>1, <3>2, ReviewAssumption DEF Owed, Versions
      <4>3. ~Exists(db, db.version + 1)
        BY <1>0, <1>1, <4>2 DEF RowsSound
      <4> QED
        BY <3>3, <4>1, <4>2, <4>3
    <3>9. ChangesOwed'
      BY <1>1, <3>2, <3>3, <3>5 DEF ChangesOwed, Owed
    <3>10. WorkerFollows'
      BY <2>1 DEF WorkerFollows, HasState
    <3>11. DeciderFollows'
      BY <1>0, <1>3, <2>1, <3>1, <3>2 DEF Straight, DeciderFollows, HasState
    <3>12. ConcluderFollows'
      BY <1>0, <1>3, <2>1, <3>1, <3>2 DEF Straight, ConcluderFollows, HasState
    <3>13. PreparesNew'
      <4>1. Settles
        BY <2>1 DEF Settles, HasState
      <4> QED
        BY <3>1, <4>1, PreparesNewOnSave
    <3> QED
      BY <2>3, <3>4, <3>7, <3>8, <3>9, <3>10, <3>11, <3>12, <3>13 DEF Orderly, Straight
  <2> QED
    BY <2>4, <2>5
<1>4. CASE d.state = "COUNCIL_DISCOVERY" /\ SavesAndEnds(Worker, moved)
  <2>1. moved \in Document /\ moved.row = d.row /\ moved.version = d.version /\ moved.state = "CURSOR_EXECUTING"
    BY <1>1, States, MovedDocument DEF Document
  <2> HIDE DEF moved
  <2> QED
    BY <1>2, <1>3, <1>4, <2>1 DEF SavesAndEnds
<1>5. CASE d.state = "CURSOR_EXECUTING" /\ SavesAndEnds(Worker, Cycle(d))
  <2>1. Cycle(d) \in Document
    BY <1>1, CycleIsSound
  <2>2. /\ Cycle(d).row = d.row /\ Cycle(d).state = "DELIVERY_PREPARATION"
        /\ d.review[d.version] = "CHANGES_REQUESTED" /\ d.version < MaxVersions =>
             Cycle(d).version = d.version + 1
    BY <1>1 DEF Cycle, Document
  <2> QED
    BY <1>2, <1>3, <1>5, <2>1, <2>2 DEF SavesAndEnds
<1> QED
  BY <1>2, <1>4, <1>5 DEF Work

LEMMA DecidedFields ==
  ASSUME NEW d \in Document, Decidable(d), NEW e \in {Approved(d), SentBack(d)}
  PROVE  /\ e.version = d.version
         /\ \A w \in Versions : Exists(e, w) => Exists(d, w)
         /\ e.state \in {"OWNER_APPROVED", "OWNER_CHANGES_REQUESTED"}
         /\ e.state = "OWNER_CHANGES_REQUESTED" => e.review[d.version] = "CHANGES_REQUESTED"
<1> DEFINE v == d.version
<1>1. v \in Versions /\ CurrentOf(d) = v /\ d.row[v].status = "READY"
  BY DEF Decidable, Document
<1>2. CASE e = Approved(d)
  <2>1. e = [d EXCEPT !.state = "OWNER_APPROVED", !.row[v].status = "APPROVED", !.current = v,
                      !.review[v] = "APPROVED"]
    BY <1>1, <1>2 DEF Approved
  <2>2. e.version = d.version /\ e.state = "OWNER_APPROVED" /\ e.row = [d.row EXCEPT ![v].status = "APPROVED"]
    BY <2>1 DEF Document
  <2>3. \A w \in Versions : Exists(e, w) => Exists(d, w)
    BY <1>1, <2>2 DEF Exists, Document
  <2> QED
    BY <2>2, <2>3
<1>3. CASE e = SentBack(d)
  <2>1. e = [d EXCEPT !.state = "OWNER_CHANGES_REQUESTED", !.row[v].status = "SUPERSEDED",
                      !.current = IF @ = v THEN None ELSE @, !.review[v] = "CHANGES_REQUESTED"]
    BY <1>1, <1>3 DEF SentBack
  <2>2. /\ e.version = d.version /\ e.state = "OWNER_CHANGES_REQUESTED"
        /\ e.row = [d.row EXCEPT ![v].status = "SUPERSEDED"]
        /\ e.review = [d.review EXCEPT ![v] = "CHANGES_REQUESTED"]
    BY <2>1 DEF Document
  <2>3. \A w \in Versions : Exists(e, w) => Exists(d, w)
    BY <1>1, <2>2 DEF Exists, Document
  <2>4. e.review[v] = "CHANGES_REQUESTED"
    BY <1>1, <2>2 DEF Document
  <2> QED
    BY <2>2, <2>3, <2>4
<1> QED
  BY <1>2, <1>3

LEMMA DecideIsOrderly ==
  ASSUME IInv, Orderly, NEW r \in Requests, Decide(r)
  PROVE  Orderly' /\ StateStep
<1> DEFINE d == act[r].doc
           decided == IF act[r].kind = "approve" THEN Approved(d) ELSE SentBack(d)
<1>0. /\ act[r].pc = "holding" /\ act[r].kind \in {"approve", "changes"} /\ HasState(r)
      /\ Kept /\ db \in Document /\ act \in [Actors -> Doing]
      /\ Worker \in Actors /\ Worker \notin Requests /\ Requests \subseteq Actors
      /\ r \in Actors /\ r # Worker
  BY ReviewAssumption DEF Decide, Holds, Orderly, IInv, TypeOK, Doing, Actors, HasState
<1>1. /\ d \in Document /\ Sound(d) /\ Loaded(d) /\ d.review = db.review
      /\ d.version \in Versions /\ d.version <= db.version
  BY <1>0, HeldDocument DEF IInv, DecidesOnLatest, Deciding, Kept, VersionsKept, Document
<1>2. CASE Fails(r)
  BY <1>0, <1>2, FailsIsOrderly
<1>3. CASE /\ Decidable(d) /\ Accepts(decided)
           /\ act[r].kind = "changes" => d.version < MaxVersions
           /\ db' = Saved(decided)
           /\ act' = [act EXCEPT ![r].pc = "reading",
                                 ![r].kind = IF @ = "approve" THEN "close" ELSE "interpret"]
  <2>1. /\ decided \in Document /\ ~SkipsDeliveries(decided)
        /\ decided.version = d.version
        /\ \A w \in Versions : Exists(decided, w) => Exists(d, w)
        /\ decided.state \in {"OWNER_APPROVED", "OWNER_CHANGES_REQUESTED"}
        /\ decided.state = "OWNER_CHANGES_REQUESTED" => decided.review[d.version] = "CHANGES_REQUESTED"
    BY <1>1, <1>3, DecidedIsSound, DecidedFields
  <2>2. decided.state = "OWNER_CHANGES_REQUESTED" => act[r].kind = "changes"
    <3>1. Approved(d).state = "OWNER_APPROVED"
      BY <1>1 DEF Approved, Document
    <3> QED
      BY <1>0, <3>1
  <2>3. /\ act'[r].pc = "reading"
        /\ \A b \in Actors \ {r} : act'[b] = act[b]
    BY <1>0, <1>3 DEF Doing
  <2> HIDE DEF decided
  <2>4. \A w \in Versions : Exists(decided, w) => Exists(db, w)
    BY <1>1, <2>1 DEF Loaded
  <2>5. Kept' /\ DoneStays
    BY <1>0, <1>1, <1>3, <2>1, <2>3, <2>4, KeptOnSave
  <2>6. CASE Spoiled
    BY <2>5, <2>6, SpoiledStays DEF Orderly
  <2>7. CASE ~Spoiled
    <3>1. Straight
      BY <2>7 DEF Orderly
    <3>2. db.state = "READY_FOR_OWNER_REVIEW" /\ d.version = db.version
      BY <1>0, <1>3, <3>1 DEF Decidable, Straight, DeciderFollows
    <3>3. /\ db'.state = decided.state /\ db'.version = db.version
          /\ \A w \in Versions : Exists(db', w) <=> Exists(db, w)
      BY <1>0, <1>1, <1>3, <2>1, <2>4, <3>2, SavedState
    <3>4. StateStep
      BY <2>1, <3>2, <3>3 DEF StateStep, Legal, Targets
    <3>5. DeliveredUpTo'
      BY <1>1, <3>1, <3>2, <3>3 DEF Straight, DeliveredUpTo, Exists
    <3>6. PreparedIsNew'
      BY <2>1, <3>3 DEF PreparedIsNew
    <3>7. ChangesOwed'
      <4> SUFFICES ASSUME decided.state = "OWNER_CHANGES_REQUESTED"
                   PROVE  db'.review[db.version] = "CHANGES_REQUESTED" /\ db.version < MaxVersions
        BY <2>1, <3>3 DEF ChangesOwed, Owed
      <4>1. db.version < MaxVersions
        BY <1>3, <2>2, <3>2
      <4>2. db.review[db.version] = "NONE"
        BY <1>1, <1>3, <3>2 DEF Decidable
      <4>3. db'.review[db.version] = decided.review[db.version]
        BY <1>0, <1>1, <1>3, <2>1, <3>2, <4>2, SavedFields
      <4> QED
        BY <2>1, <3>2, <4>1, <4>3
    <3>8. WorkerFollows'
      BY <1>0, <2>3, <3>1, <3>2 DEF Straight, WorkerFollows, HasState
    <3>9. \A s \in Requests : act'[s].kind \in {"approve", "changes", "close", "interpret"} => ~(HasState(s)')
      <4> SUFFICES ASSUME NEW s \in Requests, HasState(s)',
                          act'[s].kind \in {"approve", "changes", "close", "interpret"}
                   PROVE  FALSE
        OBVIOUS
      <4>1. s # r /\ act'[s] = act[s]
        BY <1>0, <2>3 DEF HasState
      <4> QED
        BY <1>0, <4>1, DecidesAlone DEF HasState
    <3>10. DeciderFollows' /\ ConcluderFollows'
      BY <3>9 DEF DeciderFollows, ConcluderFollows
    <3>11. PreparesNew'
      <4>1. Settles
        BY <2>3 DEF Settles, HasState
      <4> QED
        BY <3>1, <4>1, PreparesNewOnSave
    <3> QED
      BY <2>5, <3>4, <3>5, <3>6, <3>7, <3>8, <3>10, <3>11 DEF Orderly, Straight
  <2> QED
    BY <2>6, <2>7
<1> QED
  BY <1>2, <1>3 DEF Decide

LEMMA ConcludeIsOrderly ==
  ASSUME IInv, Orderly, NEW r \in Requests, Conclude(r)
  PROVE  Orderly' /\ StateStep
<1> DEFINE d == act[r].doc
           to == IF act[r].kind = "close" THEN "DONE" ELSE "COUNCIL_DISCOVERY"
           e == [d EXCEPT !.state = to]
<1>0. /\ act[r].pc = "holding" /\ act[r].kind \in {"close", "interpret"} /\ HasState(r)
      /\ Kept /\ db \in Document /\ act[r].torn \in BOOLEAN
      /\ Worker \in Actors /\ Worker \notin Requests /\ Requests \subseteq Actors
      /\ r \in Actors /\ r # Worker
  BY ReviewAssumption DEF Conclude, Holds, Orderly, IInv, TypeOK, Actors, HasState
<1>1. /\ d \in Document /\ Loaded(d)
      /\ d.version \in Versions /\ d.version <= db.version /\ db.version \in Versions
  BY <1>0, HeldDocument DEF Kept, VersionsKept, Document
<1>2. CASE Fails(r)
  BY <1>0, <1>2, FailsIsOrderly
<1>3. CASE Legal(d.state, to) /\ db' = Saved(e) /\ Ends(r)
  <2>1. /\ to \in {"DONE", "COUNCIL_DISCOVERY"}
        /\ to = "DONE" => d.state = "OWNER_APPROVED"
        /\ to = "COUNCIL_DISCOVERY" => d.state = "OWNER_CHANGES_REQUESTED"
    BY <1>0, <1>1, <1>3, States DEF Legal, Targets, Document
  <2>2. e \in Document /\ e.row = d.row /\ e.version = d.version /\ e.state = to
    BY <1>1, <2>1, States, MovedDocument DEF Document
  <2>3. /\ act'[r].pc = "done" /\ act'[r].torn = act[r].torn
        /\ \A b \in Actors \ {r} : act'[b] = act[b]
    BY <1>0, <1>3, ForgetsActor DEF Ends
  <2> HIDE DEF e, to
  <2>4. \A w \in Versions : Exists(e, w) => Exists(db, w)
    BY <1>1, <2>2 DEF Loaded, Exists
  <2>5. Kept' /\ DoneStays
    BY <1>0, <1>1, <1>3, <2>2, <2>3, <2>4, KeptOnSave
  <2>6. CASE Spoiled
    BY <2>5, <2>6, SpoiledStays DEF Orderly
  <2>7. CASE ~Spoiled
    <3>1. Straight
      BY <2>7 DEF Orderly
    <3>2. /\ db.state = d.state \/ (db.state = "READY_FOR_OWNER_REVIEW" /\ act[Worker].torn)
          /\ to = "COUNCIL_DISCOVERY" => Owed(db.version)
      BY <1>0, <2>1, <3>1 DEF Straight, ConcluderFollows
    <3>3. /\ db'.state = to /\ db'.version = db.version
          /\ \A w \in Versions : Exists(db', w) <=> Exists(db, w)
          /\ \A w \in Versions : db.review[w] # "NONE" => db'.review[w] = db.review[w]
      BY <1>0, <1>1, <1>3, <2>2, <2>4, SavedState
    <3>4. StateStep
      <4>1. CASE db.state = d.state
        BY <1>3, <3>3, <4>1 DEF StateStep
      <4>2. CASE act[Worker].torn
        BY <1>0, <4>2 DEF StateStep
      <4> QED
        BY <3>2, <4>1, <4>2
    <3>5. db.state \in {"OWNER_APPROVED", "OWNER_CHANGES_REQUESTED", "READY_FOR_OWNER_REVIEW"}
      BY <2>1, <3>2
    <3>6. DeliveredUpTo'
      BY <1>1, <3>1, <3>3, <3>5 DEF Straight, DeliveredUpTo, Exists
    <3>7. PreparedIsNew'
      BY <2>1, <3>3 DEF PreparedIsNew
    <3>8. ChangesOwed'
      BY <1>1, <2>1, <3>2, <3>3 DEF ChangesOwed, Owed
    <3>9. WorkerFollows'
      BY <1>0, <2>3, <3>1, <3>5 DEF Straight, WorkerFollows, HasState
    <3>10. \A s \in Requests : act'[s].kind \in {"approve", "changes", "close", "interpret"} => ~(HasState(s)')
      <4> SUFFICES ASSUME NEW s \in Requests, HasState(s)',
                          act'[s].kind \in {"approve", "changes", "close", "interpret"}
                   PROVE  FALSE
        OBVIOUS
      <4>1. s # r /\ act'[s] = act[s]
        BY <1>0, <2>3 DEF HasState
      <4> QED
        BY <1>0, <4>1, DecidesAlone DEF HasState
    <3>11. DeciderFollows' /\ ConcluderFollows'
      BY <3>10 DEF DeciderFollows, ConcluderFollows
    <3>12. PreparesNew'
      <4>1. Settles
        BY <2>3 DEF Settles, HasState
      <4> QED
        BY <3>1, <4>1, PreparesNewOnSave
    <3> QED
      BY <2>5, <3>4, <3>6, <3>7, <3>8, <3>9, <3>11, <3>12 DEF Orderly, Straight
  <2> QED
    BY <2>6, <2>7
<1> QED
  BY <1>2, <1>3 DEF Conclude, SavesAndEnds

\* A bystander may save an old state: from then on nothing is said.
LEMMA BystanderIsOrderly ==
  ASSUME IInv, Orderly, NEW r \in Requests, Open(r) \/ Stop(r) \/ MarkRead(r)
  PROVE  Orderly' /\ StateStep
<1>0. /\ act[r].pc = "holding" /\ Bystander(r)
      /\ Kept /\ db \in Document
      /\ r \in Actors /\ r # Worker
  BY ReviewAssumption DEF Open, Stop, MarkRead, Holds, Bystander, Orderly, IInv, TypeOK, Actors
<1>1. act[r].doc \in Document /\ Loaded(act[r].doc) /\ act[r].doc.version <= db.version
  BY <1>0, HeldDocument DEF Kept, VersionsKept
<1>2. CASE Fails(r)
  BY <1>0, <1>2, FailsIsOrderly
<1>3. ASSUME NEW d \in Document, d.row = act[r].doc.row, d.version = act[r].doc.version,
             db' = Saved(d), Ends(r)
      PROVE  Orderly' /\ StateStep
  <2>1. /\ act'[r].pc = "done"
        /\ \A b \in Actors \ {r} : act'[b] = act[b]
    BY <1>0, <1>3, ForgetsActor DEF Ends
  <2>2. \A w \in Versions : Exists(d, w) => Exists(db, w)
    BY <1>1, <1>3 DEF Loaded, Exists
  <2>3. Kept'
    BY <1>0, <1>1, <1>3, <2>1, <2>2, KeptOnSave
  <2>4. Spoiled' /\ StateStep
    BY <1>0, <1>3, <2>1, SpoilsOnEnd DEF Ends, StateStep
  <2> QED
    BY <2>3, <2>4 DEF Orderly
<1>4. ASSUME NEW d \in Document, d.row = act[r].doc.row, d.version = act[r].doc.version,
             SavesAndEnds(r, d)
      PROVE  Orderly' /\ StateStep
  BY <1>2, <1>3, <1>4 DEF SavesAndEnds
<1>5. ASSUME NEW s \in {"ACTIVE", "STOPPED"}, SavesAndEnds(r, [act[r].doc EXCEPT !.session = s])
      PROVE  Orderly' /\ StateStep
  <2> DEFINE d == [act[r].doc EXCEPT !.session = s]
  <2>1. d \in Document /\ d.row = act[r].doc.row /\ d.version = act[r].doc.version
    BY <1>1, SessionDocument DEF Document
  <2> QED
    BY <1>4, <1>5, <2>1
<1> QED
  BY <1>1, <1>2, <1>4, <1>5 DEF Open, Stop, MarkRead

LEMMA StartIsOrderly ==
  ASSUME IInv, Orderly, NEW a \in Actors, act[a].pc \in {"idle", "waiting"},
         act'[a].pc \in {"waiting", "reading"}, \A b \in Actors \ {a} : act'[b] = act[b],
         UNCHANGED db, a = Worker => db.state # "READY_FOR_OWNER_REVIEW"
  PROVE  Orderly' /\ StateStep
<1>1. NothingLoaded /\ Settles /\ DoneStays
  BY DEF NothingLoaded, Settles, HasState, DoneStays, Actors
<1> QED
  BY <1>1, RestIsOrderly DEF Actors

LEMMA ReadStateIsOrderly ==
  ASSUME IInv, Orderly, NEW a \in Actors, ReadState(a)
  PROVE  Orderly' /\ StateStep
<1>0. /\ Worker \in Actors /\ Worker \notin Requests /\ Requests \subseteq Actors
      /\ act \in [Actors -> Doing] /\ act[a].doc \in Document
      /\ act[a].pc = "reading" /\ UNCHANGED db
  BY ReviewAssumption DEF ReadState, IInv, TypeOK, Doing, Actors
<1>1. act' = [act EXCEPT ![a] = [act[a] EXCEPT !.pc = "loading", !.doc = [act[a].doc EXCEPT !.state = db.state]]]
  BY <1>0 DEF ReadState, Doing
<1>2. /\ act'[a].kind = act[a].kind /\ act'[a].pc = "loading" /\ act'[a].doc.state = db.state
      /\ \A b \in Actors \ {a} : act'[b] = act[b]
  BY <1>0, <1>1 DEF Doing, Document
<1>3. NothingLoaded /\ DoneStays
  BY <1>0, <1>2 DEF NothingLoaded, DoneStays
<1>4. Kept'
  BY <1>0, <1>3, KeptOnRest DEF Orderly
<1>5. CASE Spoiled
  BY <1>3, <1>4, <1>5, SpoiledStays DEF Orderly
<1>6. CASE ~Spoiled
  <2>1. Straight
    BY <1>6 DEF Orderly
  <2>2. (DeliveredUpTo /\ PreparedIsNew /\ ChangesOwed)'
    BY <1>0, <2>1 DEF Straight, DeliveredUpTo, PreparedIsNew, ChangesOwed, Owed, Exists
  <2>3. WorkerFollows'
    BY <1>0, <1>2, <2>1 DEF Straight, WorkerFollows, HasState
  <2>4. DeciderFollows'
    BY <1>0, <1>2, <2>1 DEF Straight, DeciderFollows, HasState
  <2>5. ConcluderFollows'
    <3> SUFFICES ASSUME NEW r \in Requests, HasState(r)', act'[r].kind \in {"close", "interpret"},
                        act'[r].doc.state \in {"OWNER_APPROVED", "OWNER_CHANGES_REQUESTED"}
                 PROVE  /\ \/ db.state = act'[r].doc.state
                           \/ db.state = "READY_FOR_OWNER_REVIEW" /\ act'[Worker].torn /\ act'[Worker].pc = "idle"
                        /\ act'[r].doc.state = "OWNER_CHANGES_REQUESTED" => Owed(db.version)
      BY <1>0 DEF ConcluderFollows, Owed
    <3>1. CASE r = a
      BY <1>2, <2>1, <3>1 DEF Straight, ChangesOwed
    <3>2. CASE r # a
      <4>1. act'[r] = act[r]
        BY <1>0, <1>2, <3>2
      <4>2. act[Worker].pc = "idle" => act'[Worker] = act[Worker]
        BY <1>0, <1>2
      <4> QED
        BY <2>1, <4>1, <4>2 DEF Straight, ConcluderFollows, HasState
    <3> QED
      BY <3>1, <3>2
  <2>6. PreparesNew'
    BY <1>2, <2>1 DEF Straight, PreparesNew, Exists
  <2> QED
    BY <1>0, <1>4, <2>2, <2>3, <2>4, <2>5, <2>6 DEF Orderly, Straight, StateStep
<1> QED
  BY <1>5, <1>6

LEMMA ReadRestIsOrderly ==
  ASSUME IInv, Orderly, NEW a \in Actors, ReadRest(a)
  PROVE  Orderly' /\ StateStep
<1> DEFINE s == act[a].doc.state
           d == [db EXCEPT !.state = s]
           torn == act[a].torn \/ s # db.state
<1>0. /\ Worker \in Actors /\ Worker \notin Requests /\ Requests \subseteq Actors
      /\ act \in [Actors -> Doing] /\ db \in Document /\ s \in DOMAIN Targets
      /\ act[a].pc = "loading" /\ UNCHANGED db
      /\ db.version \in Versions /\ db.version <= db.version
  BY ReviewAssumption DEF ReadRest, IInv, TypeOK, Doing, Document, Actors, Versions
<1>1. d.state = s /\ d.version = db.version /\ d.row = db.row /\ d.review = db.review
  BY <1>0 DEF Document
<1> HIDE DEF d, torn
<1>2. act' = [act EXCEPT ![a] = [act[a] EXCEPT !.pc = "holding", !.doc = d, !.torn = torn]]
  BY <1>0 DEF ReadRest, Doing, d, torn
<1>3. /\ act'[a].kind = act[a].kind /\ act'[a].pc = "holding" /\ act'[a].doc = d /\ act'[a].torn = torn
      /\ \A b \in Actors \ {a} : act'[b] = act[b]
  BY <1>0, <1>2 DEF Doing
<1>4. DoneStays
  BY <1>0, <1>3 DEF DoneStays
<1>5. Kept'
  <2>1. VersionsKept'
    BY <1>0, <1>1, <1>3 DEF Orderly, Kept, VersionsKept
  <2>2. WorkerIsLatest'
    BY <1>0, <1>1, <1>3 DEF Orderly, Kept, WorkerIsLatest, Exists
  <2>3. RowsOfDone'
    BY <1>0, <1>4 DEF Orderly, Kept, RowsOfDone, DoneStays, Exists
  <2> QED
    BY <2>1, <2>2, <2>3 DEF Kept
<1>6. CASE Spoiled
  BY <1>4, <1>5, <1>6, SpoiledStays DEF Orderly
<1>7. CASE ~Spoiled
  <2>1. Straight
    BY <1>7 DEF Orderly
  <2>2. (DeliveredUpTo /\ PreparedIsNew /\ ChangesOwed)'
    BY <1>0, <2>1 DEF Straight, DeliveredUpTo, PreparedIsNew, ChangesOwed, Owed, Exists
  <2>3. WorkerFollows'
    BY <1>0, <1>1, <1>3, <2>1 DEF Straight, WorkerFollows, HasState, ChangesOwed, Owed
  <2>4. DeciderFollows'
    BY <1>0, <1>1, <1>3, <2>1 DEF Straight, DeciderFollows, HasState
  <2>5. ConcluderFollows'
    <3> SUFFICES ASSUME NEW r \in Requests, HasState(r)', act'[r].kind \in {"close", "interpret"},
                        act'[r].doc.state \in {"OWNER_APPROVED", "OWNER_CHANGES_REQUESTED"}
                 PROVE  /\ \/ db.state = act'[r].doc.state
                           \/ db.state = "READY_FOR_OWNER_REVIEW" /\ act'[Worker].torn /\ act'[Worker].pc = "idle"
                        /\ act'[r].doc.state = "OWNER_CHANGES_REQUESTED" => Owed(db.version)
      BY <1>0 DEF ConcluderFollows, Owed
    <3>1. HasState(r) /\ act'[r].kind = act[r].kind /\ act'[r].doc.state = act[r].doc.state
      BY <1>0, <1>1, <1>3 DEF HasState
    <3>2. act[Worker].pc = "idle" => act'[Worker] = act[Worker]
      BY <1>0, <1>3
    <3> QED
      BY <2>1, <3>1, <3>2 DEF Straight, ConcluderFollows
  <2>6. PreparesNew'
    <3> SUFFICES ASSUME NEW b \in Actors, act'[b].pc = "holding", ~act'[b].torn,
                        act'[b].doc.state = "DELIVERY_PREPARATION"
                 PROVE  ~Exists(act'[b].doc, act'[b].doc.version)
      BY DEF PreparesNew, Exists
    <3>1. CASE b = a
      <4>1. db.state = "DELIVERY_PREPARATION"
        BY <1>1, <1>3, <3>1 DEF torn
      <4> QED
        BY <1>1, <1>3, <2>1, <3>1, <4>1 DEF Straight, PreparedIsNew, Exists
    <3>2. CASE b # a
      BY <1>3, <2>1, <3>2 DEF Straight, PreparesNew
    <3> QED
      BY <3>1, <3>2
  <2> QED
    BY <1>0, <1>5, <2>2, <2>3, <2>4, <2>5, <2>6 DEF Orderly, Straight, StateStep
<1> QED
  BY <1>6, <1>7

LEMMA CrashIsOrderly ==
  ASSUME IInv, Orderly, ApiCrash \/ WorkerCrash
  PROVE  Orderly' /\ StateStep
<1>0. Worker \in Actors /\ act \in [Actors -> Doing]
  BY DEF IInv, TypeOK, Doing, Actors
<1>1. CASE ApiCrash
  <2>1. /\ act'[Worker] = act[Worker]
        /\ \A b \in Actors : act'[b] = act[b] \/ (act'[b].pc = "dead" /\ act[b].pc # "done")
    BY <1>0, <1>1 DEF ApiCrash, Idle
  <2>2. NothingLoaded /\ Settles /\ DoneStays
    BY <2>1 DEF NothingLoaded, Settles, HasState, DoneStays, Actors
  <2> QED
    BY <1>1, <2>1, <2>2, RestIsOrderly DEF ApiCrash
<1>2. CASE WorkerCrash
  <2>1. /\ act'[Worker].pc = "idle"
        /\ \A b \in Actors \ {Worker} : act'[b] = act[b]
    BY <1>0, <1>2 DEF WorkerCrash, Idle
  <2>2. NothingLoaded /\ Settles /\ DoneStays
    BY <2>1, ReviewAssumption DEF NothingLoaded, Settles, HasState, DoneStays, Actors
  <2> QED
    BY <1>2, <2>2, RestIsOrderly DEF WorkerCrash
<1> QED
  BY <1>1, <1>2

LEMMA NextIsOrderly ==
  ASSUME IInv, Orderly, [Next]_vars
  PROVE  Orderly' /\ StateStep
<1>0. /\ Worker \in Actors /\ Worker \notin Requests /\ Requests \subseteq Actors
      /\ act \in [Actors -> Doing]
  BY ReviewAssumption DEF Actors, IInv, TypeOK, Doing
<1>1. ASSUME NEW r \in Requests, Arrive(r) \/ Serve(r)
      PROVE  Orderly' /\ StateStep
  <2>0. r \in Actors /\ r # Worker
    BY <1>0
  <2>1. CASE Arrive(r)
    <3>1. /\ act[r].pc = "idle" /\ act'[r].pc \in {"waiting", "reading"}
          /\ \A b \in Actors \ {r} : act'[b] = act[b]
      BY <1>0, <2>0, <2>1 DEF Arrive, Doing
    <3> QED
      BY <2>0, <2>1, <3>1, StartIsOrderly DEF Arrive
  <2>2. CASE Lock(r)
    <3>1. /\ act[r].pc = "waiting" /\ act'[r].pc = "reading"
          /\ \A b \in Actors \ {r} : act'[b] = act[b]
      BY <1>0, <2>0, <2>2 DEF Lock, Goes, Doing
    <3> QED
      BY <2>0, <2>2, <3>1, StartIsOrderly DEF Lock
  <2>3. CASE Reading(r)
    BY <2>0, <2>3, ReadStateIsOrderly, ReadRestIsOrderly, FinishIsOrderly DEF Reading
  <2>4. CASE View(r)
    BY <2>0, <2>4, FailsIsOrderly DEF View, Holds
  <2>5. CASE Decide(r) \/ Conclude(r)
    BY <2>5, DecideIsOrderly, ConcludeIsOrderly
  <2>6. CASE Open(r) \/ Stop(r) \/ MarkRead(r)
    BY <2>6, BystanderIsOrderly
  <2> QED
    BY <1>1, <2>1, <2>2, <2>3, <2>4, <2>5, <2>6 DEF Serve
<1>2. CASE WorkerSteps
  <2>1. CASE ClaimJob
    <3>1. /\ act[Worker].pc = "idle" /\ act'[Worker].pc = "reading"
          /\ \A b \in Actors \ {Worker} : act'[b] = act[b]
      BY <1>0, <2>1 DEF ClaimJob, Goes, Doing
    <3> QED
      BY <1>0, <2>1, <3>1, StartIsOrderly DEF ClaimJob
  <2>2. CASE Reading(Worker)
    BY <1>0, <2>2, ReadStateIsOrderly, ReadRestIsOrderly, FinishIsOrderly DEF Reading
  <2>3. CASE Work
    BY <2>3, WorkIsOrderly
  <2> QED
    BY <1>2, <2>1, <2>2, <2>3 DEF WorkerSteps
<1>3. CASE ApiCrash \/ WorkerCrash
  BY <1>3, CrashIsOrderly
<1>4. CASE UNCHANGED vars
  <2>1. NothingLoaded /\ Settles /\ DoneStays
    BY <1>4 DEF vars, NothingLoaded, Settles, DoneStays
  <2> QED
    BY <1>4, <2>1, RestIsOrderly DEF vars
<1> QED
  BY <1>1, <1>2, <1>3, <1>4 DEF Next

LEMMA InitOrderly == Init => Orderly
<1> SUFFICES ASSUME Init PROVE Orderly
  OBVIOUS
<1>1. \A a \in Actors : act[a].pc = "idle"
  BY DEF Init, Idle
<1>2. /\ db.state = "DELIVERY_PREPARATION" /\ db.version = 1
      /\ \A v \in Versions : ~Exists(db, v)
  BY DEF Init, NewDocument, Exists
<1>3. 1 \in Versions /\ \A v \in Versions : v \in Nat /\ ~(v < 1)
  BY ReviewAssumption DEF Versions
<1>4. Kept
  BY <1>1, <1>2 DEF Kept, VersionsKept, WorkerIsLatest, RowsOfDone, Actors
<1>5. DeliveredUpTo /\ PreparedIsNew /\ ChangesOwed
  BY <1>2, <1>3 DEF DeliveredUpTo, PreparedIsNew, ChangesOwed
<1>6. WorkerFollows /\ DeciderFollows /\ ConcluderFollows /\ PreparesNew
  BY <1>1 DEF WorkerFollows, DeciderFollows, ConcluderFollows, PreparesNew, HasState, Actors
<1> QED
  BY <1>4, <1>5, <1>6 DEF Orderly, Straight

\* The invariant behind the saved state, in whatever order the routes and the
\* worker load and save.
THEOREM StateIsOrderly == Spec => []Orderly
<1>1. Init => Orderly
  BY InitOrderly
<1>2. IInv /\ Orderly /\ [Next]_vars => Orderly'
  BY NextIsOrderly
<1> QED
  BY <1>1, <1>2, Invariant, PTL DEF Spec

\* Blind saves change the state along the transitions only (assertTransition),
\* but for what follows a bystander's save or a torn load.
THEOREM SavesFollowTransitions == Spec => OnlyTransitions
<1>1. IInv /\ Orderly /\ [Next]_vars => StateStep
  BY NextIsOrderly
<1>2. IInv /\ Orderly /\ [Next]_vars =>
        [\/ db'.state = db.state
         \/ Legal(db.state, db'.state)
         \/ \E a \in Actors : act[a].torn \/ (Bystander(a) /\ act'[a].pc = "done")]_vars
  BY <1>1 DEF StateStep
<1> QED
  BY <1>2, Invariant, StateIsOrderly, PTL DEF Spec, OnlyTransitions

=============================================================================
