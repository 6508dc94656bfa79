------------------------------ MODULE Autonomy ------------------------------
(***************************************************************************)
(* What the platform promises the owner of a project: it works on its own  *)
(* until it offers a commit or fails, it offers nothing it has not         *)
(* verified, and what is offered stays as it is until the owner decides.   *)
(* Workflow implements this.                                               *)
(***************************************************************************)
EXTENDS Naturals

CONSTANTS
  None,          \* no commit
  MaxIterations  \* MAX_AUTONOMOUS_ITERATIONS

VARIABLES
  phase,      \* working, offered, accepted or failed
  iteration,  \* iterations begun
  head,       \* the newest commit
  proven,     \* the commits that passed platform verification
  offer       \* the commit that is offered, None without one

vars == <<phase, iteration, head, proven, offer>>

Init ==
  /\ phase = "working"
  /\ iteration = 0
  /\ head = 1
  /\ proven = {}
  /\ offer = None

Iterate ==
  /\ phase = "working" /\ iteration < MaxIterations
  /\ iteration' = iteration + 1
  /\ UNCHANGED <<phase, head, proven, offer>>

Implement ==
  /\ phase = "working" /\ iteration > 0
  /\ head' = head + 1
  /\ UNCHANGED <<phase, iteration, proven, offer>>

Prove ==
  /\ phase = "working"
  /\ proven' = proven \cup {head}
  /\ UNCHANGED <<phase, iteration, head, offer>>

Offer ==
  /\ phase = "working" /\ head \in proven
  /\ phase' = "offered"
  /\ offer' = head
  /\ UNCHANGED <<iteration, head, proven>>

Fail ==
  /\ phase = "working"
  /\ phase' = "failed"
  /\ UNCHANGED <<iteration, head, proven, offer>>

\* The owner.
Accept ==
  /\ phase = "offered"
  /\ phase' = "accepted"
  /\ UNCHANGED <<iteration, head, proven, offer>>

RequestChanges ==
  /\ phase = "offered"
  /\ phase' = "working"
  /\ offer' = None
  /\ UNCHANGED <<iteration, head, proven>>

Retry ==
  /\ phase = "failed"
  /\ phase' = "working"
  /\ UNCHANGED <<iteration, head, proven, offer>>

Next == Iterate \/ Implement \/ Prove \/ Offer \/ Fail \/ Accept \/ RequestChanges \/ Retry

\* The platform does not work for ever without an outcome.
Spec == Init /\ [][Next]_vars /\ WF_vars(Offer \/ Fail)
=============================================================================
