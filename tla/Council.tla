------------------------------ MODULE Council ------------------------------
(***************************************************************************)
(* A session of the Council (council/council.js): rounds in which members  *)
(* are asked independently, then the Chair.  Every request is repeated on  *)
(* transient errors (withRetry) and, when its answer is not what was asked *)
(* for, made again with a repair prompt (completeValidated).  A round needs *)
(* MinResponses valid answers; the Chair's answer must stand up to what the *)
(* members have found.  A session that fails is left to the job queue.     *)
(***************************************************************************)
EXTENDS Naturals, FiniteSets, Sequences

CONSTANTS
  Members,         \* the providers of the Council
  Vision,          \* those of them whose model takes images
  Chair,           \* the provider that decides, with a model of its own
  MinResponses,    \* MIN_COUNCIL_RESPONSES
  MaxRetries,      \* AI_MAX_RETRIES
  MaxRepairs,      \* AI_RESPONSE_REPAIR_ATTEMPTS
  MaxReasoning,    \* MAX_COUNCIL_REASONING_ROUNDS
  Findings,        \* what can be found: [issue, category, severity]
  SessionKinds     \* the sessions that are held, a subset of AllSessionKinds

AllSessionKinds == { "discover", "review", "final", "visual", "architecture" }

ASSUME CouncilAssumption ==
  /\ IsFiniteSet(Members) /\ Vision \subseteq Members /\ Chair \notin Members
  /\ MinResponses \in Nat /\ MaxRetries \in Nat /\ MaxRepairs \in Nat /\ MaxReasoning \in Nat
  /\ \A f \in Findings : f.severity \in {"CRITICAL", "HIGH", "MEDIUM", "LOW"}
  /\ SessionKinds \subseteq AllSessionKinds

Providers == Members \cup {Chair}

VARIABLES
  session,    \* its kind and the round it is in
  asked,      \* the providers asked in this round
  request,    \* the request of each provider in this round
  said,       \* what a valid answer brings up
  raised,     \* the findings the Chair's decision is held against
  rounds,     \* the history: the rounds that are over
  verdict     \* how the session has ended

councilVars == <<session, asked, request, said, raised, rounds, verdict>>
-----------------------------------------------------------------------------
(* Requests *)

\* What a call can come to.  "invalid": JSON that fails the schema, or no JSON
\* at all.  "garbled": braces with something else than JSON between them.
Replies == { "valid", "invalid", "garbled", "transient", "fatal" }

\* classifyProviderError: timeouts, 429, 5xx and the network are worth a retry,
\* 401, 403 and an unsupported image are not.
Retried(r) == r.tries < MaxRetries

Again(r, reply) == reply = "transient" /\ Retried(r)

\* Mutant: repairs are not counted.
RepairForever(r, reply) == reply = "invalid"

Repairs(r, reply) == reply = "invalid" /\ r.repairs < MaxRepairs

\* The errors and the repairs since the request was first made, and its calls.
Asked(tries, repairs, calls) ==
  [status |-> "asked", tries |-> tries, repairs |-> repairs, calls |-> calls]

\* A request that ended: how it did is all that is remembered.
Closed(status) == [status |-> status, tries |-> 0, repairs |-> 0, calls |-> 0]
Fresh == Asked(0, 0, 0)
EndOf == [ valid |-> "valid", invalid |-> "unrepaired", garbled |-> "garbled",
           transient |-> "failed", fatal |-> "refused" ]

\* completeValidated, after one more call.
After(r, reply) ==
  IF Again(r, reply) THEN Asked(r.tries + 1, r.repairs, r.calls + 1)
  ELSE IF Repairs(r, reply) THEN Asked(0, r.repairs + 1, r.calls + 1)
  ELSE Closed(EndOf[reply])

Settled(p) == request[p].status # "asked"
RoundIsOver == \A p \in asked : Settled(p)
Valid == {p \in asked : request[p].status = "valid"}

Ended == verdict.status # "open"
InSession == session.kind # "none" /\ ~Ended
-----------------------------------------------------------------------------
(* Rounds *)

RoundsOf ==
  [ discover |-> <<"analysis", "critique", "resolution", "chair">>,
    review |-> <<"review", "chair">>,
    final |-> <<"final", "chair">>,
    visual |-> <<"screen", "screen", "chair">>,
    architecture |-> <<"chair">> ]

Purpose == RoundsOf[session.kind][session.round]
Chairing == Purpose = "chair"

\* Mutant: any answer is enough.
QuorumOfOne == Valid # {}

\* Promise.allSettled of the screens takes whoever answers; an independent
\* round needs its quorum.
Quorum == Purpose = "screen" \/ (Valid # {} /\ Cardinality(Valid) >= MinResponses)

\* collectMaterialDisagreements, shouldRunResolution
Disagreement == \E p \in Valid : said[p] # {}
NextRound ==
  IF Purpose = "critique" /\ (MaxReasoning <= 2 \/ ~Disagreement)
  THEN session.round + 2 ELSE session.round + 1

\* The reviewers of a screen are those with vision, or all when there are none,
\* and of these as many as the screen asks for.
Panels(k, n) ==
  IF RoundsOf[k][n] = "chair" THEN {{Chair}}
  ELSE IF RoundsOf[k][n] = "screen"
  THEN SUBSET (IF Vision = {} THEN Members ELSE Vision) \ {{}}
  ELSE {Members}

OpenRound(k, n) ==
  /\ session' = [kind |-> k, round |-> n]
  /\ asked' \in Panels(k, n)
  /\ request' = [p \in Providers |-> Fresh]
  /\ said' = [p \in Providers |-> {}]

CouncilInit ==
  /\ session = [kind |-> "none", round |-> 1]
  /\ asked = {}
  /\ request = [p \in Providers |-> Fresh]
  /\ said = [p \in Providers |-> {}]
  /\ raised = {} /\ rounds = <<>>
  /\ verdict = [status |-> "open"]

\* A job of the project asks for a session; one of screens is held against the
\* findings of the layout, too.  Bound: one session.
Convene ==
  /\ session.kind = "none"
  /\ \E k \in SessionKinds :
       /\ OpenRound(k, 1)
       /\ raised' \in IF k = "visual" THEN SUBSET Findings ELSE {{}}
  /\ UNCHANGED <<rounds, verdict>>

Fail(code, retryable) == verdict' = [status |-> "failed", code |-> code, retryable |-> retryable]

\* What the answers of a round are read for: material disagreements in
\* critiques, findings in reviews.
Sayable ==
  IF Purpose = "critique" THEN {{}, Findings}
  ELSE IF Purpose \in {"review", "screen"} THEN SUBSET Findings
  ELSE {{}}

\* A member or the Chair answers, is refused, or is timed out.
Reply(p) ==
  /\ InSession /\ p \in asked /\ ~Settled(p)
  /\ \E reply \in Replies :
       /\ request' = [request EXCEPT ![p] = After(@, reply)]
       /\ IF reply = "valid" THEN \E F \in Sayable : said' = [said EXCEPT ![p] = F]
          ELSE UNCHANGED said
  /\ UNCHANGED <<session, asked, raised, rounds, verdict>>

Found == UNION {said[p] : p \in Valid}

MakeRound(purpose) ==
  rounds' = Append(rounds, [purpose |-> purpose, valid |-> Valid, found |-> Found])

\* Reviews are what the Chair is held against: those of the last round, of all
\* screens together with the layout.  Critiques and final reviews are not.
Heard ==
  IF Purpose = "review" THEN Found
  ELSE IF Purpose = "screen" THEN raised \cup Found
  ELSE raised

EndRound ==
  /\ InSession /\ ~Chairing /\ RoundIsOver /\ Quorum
  /\ MakeRound(Purpose)
  /\ raised' = Heard
  /\ OpenRound(session.kind, NextRound)
  /\ UNCHANGED verdict

NoQuorum ==
  /\ InSession /\ ~Chairing /\ RoundIsOver /\ ~Quorum
  /\ Fail(IF Valid = {} THEN "ALL_PROVIDERS_FAILED" ELSE "INSUFFICIENT_COUNCIL", TRUE)
  /\ UNCHANGED <<session, asked, request, said, raised, rounds>>
-----------------------------------------------------------------------------
(* The Chair *)

Severe(F) == {f \in F : f.severity \in {"CRITICAL", "HIGH"}}

Decisions ==
  [decision: {"COMPLETE", "CHANGES_REQUIRED"},
   resolved: SUBSET Findings, blocking: SUBSET Findings, prompt: BOOLEAN]

\* Mutant: the Chair may pass over what a minority has found.
AddressesMost(d, f) == TRUE

\* A finding of a member is addressed in a review by its issue, or by any of
\* its category and severity; on a screen its category is enough.
Addresses(d, f) ==
  \E g \in d.resolved \cup d.blocking :
    \/ g.issue = f.issue
    \/ g.category = f.category /\ (session.kind = "visual" \/ g.severity = f.severity)

\* assertReviewChairDecision, assertFinalDecision and the check of visualReview:
\* COMPLETE has nothing severe that blocks, more work has a prompt, and what
\* was raised is addressed.  A specification has a prompt with its sections.
Stands(d) ==
  /\ session.kind \in {"review", "final"} /\ d.decision = "CHANGES_REQUIRED" => d.prompt
  /\ session.kind = "discover" => d.prompt
  /\ session.kind \in {"review", "final", "visual"} /\ d.decision = "COMPLETE" => Severe(d.blocking) = {}
  /\ session.kind \in {"review", "visual"} => \A f \in Severe(raised) : Addresses(d, f)

\* The answer of the Chair is checked once more, without another repair.
Decide ==
  /\ InSession /\ Chairing /\ request[Chair].status = "valid"
  /\ \E d \in Decisions :
       IF Stands(d) THEN /\ verdict' = [status |-> "verdict", decision |-> d]
                         /\ MakeRound("chair")
       ELSE Fail("CHAIR_FAILURE", TRUE) /\ UNCHANGED rounds
  /\ UNCHANGED <<session, asked, request, said, raised>>

\* An answer that stays invalid, or a refusal, is not worth another job.
ChairFails ==
  /\ InSession /\ Chairing /\ request[Chair].status \in {"unrepaired", "refused", "garbled", "failed"}
  /\ Fail("CHAIR_FAILURE", request[Chair].status \in {"garbled", "failed"})
  /\ UNCHANGED <<session, asked, request, said, raised, rounds>>

CouncilSteps == Convene \/ EndRound \/ NoQuorum \/ Decide \/ ChairFails \/ \E p \in Providers : Reply(p)

CouncilSpec == CouncilInit /\ [][CouncilSteps]_councilVars /\ WF_councilVars(CouncilSteps)
-----------------------------------------------------------------------------
(* Properties *)

Statuses == {"asked", "valid", "unrepaired", "refused", "garbled", "failed"}

\* Requests, rounds and verdicts have their shapes.
CouncilTypeOK ==
  /\ session.kind \in SessionKinds \cup {"none"}
  /\ session.kind # "none" => session.round \in DOMAIN RoundsOf[session.kind]
  /\ asked \subseteq Providers
  /\ request \in [Providers -> [status: Statuses, tries: 0..MaxRetries, repairs: 0..MaxRepairs, calls: Nat]]
  /\ said \in [Providers -> SUBSET Findings]
  /\ raised \subseteq Findings
  /\ rounds \in Seq([purpose: {"analysis", "critique", "resolution", "review", "final", "screen", "chair"},
                     valid: SUBSET Providers, found: SUBSET Findings])
  /\ \/ verdict = [status |-> "open"]
     \/ verdict \in [status: {"verdict"}, decision: Decisions]
     \/ verdict \in [status: {"failed"}, retryable: BOOLEAN,
                     code: {"ALL_PROVIDERS_FAILED", "INSUFFICIENT_COUNCIL", "CHAIR_FAILURE"}]

\* A request is made (MaxRepairs + 1) * (MaxRetries + 1) times at most: one that
\* is open has a call left, in whatever order errors and bad answers came
\* (withRetry inside completeValidated).
CallBudget ==
  \A p \in Providers : ~Settled(p) => request[p].calls < (MaxRepairs + 1) * (MaxRetries + 1)

\* Behind a verdict each round of the session that needs a quorum had one:
\* none is skipped when members drop out (independentRound, discover).
QuorumBacksVerdict ==
  verdict.status = "verdict" =>
    \A n \in DOMAIN RoundsOf[session.kind] :
      RoundsOf[session.kind][n] \in {"analysis", "critique", "review", "final"} =>
        \E i \in DOMAIN rounds : /\ rounds[i].purpose = RoundsOf[session.kind][n]
                                 /\ rounds[i].valid # {}
                                 /\ Cardinality(rounds[i].valid) >= MinResponses

\* A severe finding of a single reviewer, of whichever screen, is not passed
\* over by a decision ("majority cannot override it"): the decision has one of
\* its category.  Nor is a COMPLETE left with something severe.
MinorityHeard ==
  verdict.status = "verdict" /\ session.kind \in {"review", "visual"} =>
    /\ \A i \in DOMAIN rounds : \A f \in Severe(rounds[i].found) :
         \E g \in verdict.decision.resolved \cup verdict.decision.blocking :
           g.issue = f.issue \/ g.category = f.category
    /\ verdict.decision.decision = "COMPLETE" => Severe(verdict.decision.blocking) = {}
=============================================================================
