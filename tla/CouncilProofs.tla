--------------------------- MODULE CouncilProofs ---------------------------
(***************************************************************************)
(* Proofs about Council for any providers, thresholds, budgets, findings   *)
(* and kinds of sessions: the types, the budget of a request, the quorum   *)
(* behind a verdict, and the minority that is heard.                       *)
(***************************************************************************)
EXTENDS Council, TLAPS

Purposes == {"analysis", "critique", "resolution", "review", "final", "screen", "chair"}
Independent == {"analysis", "critique", "review", "final"}
Requests == [status: Statuses, tries: 0..MaxRetries, repairs: 0..MaxRepairs, calls: Nat]
Rounds == [purpose: Purposes, valid: SUBSET Providers, found: SUBSET Findings]
Endings ==
  {[status |-> "open"]}
    \cup [status: {"verdict"}, decision: Decisions]
    \cup [status: {"failed"}, retryable: BOOLEAN,
          code: {"ALL_PROVIDERS_FAILED", "INSUFFICIENT_COUNCIL", "CHAIR_FAILURE"}]
-----------------------------------------------------------------------------
(* The inductive invariant *)

\* An open request has used at most its repairs, each with all retries, and the
\* tries of the one it is at.
BudgetKept ==
  \A p \in Providers :
    ~Settled(p) => request[p].calls <= request[p].repairs * (MaxRetries + 1) + request[p].tries

\* A round that had its quorum is in the history.
Held(purpose) ==
  \E i \in DOMAIN rounds : /\ rounds[i].purpose = purpose
                           /\ rounds[i].valid # {}
                           /\ Cardinality(rounds[i].valid) >= MinResponses

\* Every independent round before the one the session is in was held.
PastHeld ==
  session.kind # "none" =>
    \A n \in DOMAIN RoundsOf[session.kind] :
      n < session.round /\ RoundsOf[session.kind][n] \in Independent => Held(RoundsOf[session.kind][n])

\* The Chair brings up nothing of its own.
ChairIsSilent == session.kind # "none" /\ Chairing => \A p \in Providers : said[p] = {}

\* A session that has not asked yet has no history, and one of reviews begins
\* with them.
BeginsEmpty == session.kind = "none" \/ (session.kind = "review" /\ session.round = 1) => rounds = <<>>

\* What reviewers have found is what the Chair will be held against.
FoundIsRaised ==
  session.kind \in {"review", "visual"} => \A i \in DOMAIN rounds : rounds[i].found \subseteq raised

\* A verdict stands.
VerdictStands == verdict.status = "verdict" => Chairing /\ session.kind # "none" /\ Stands(verdict.decision)

CouncilInv ==
  /\ CouncilTypeOK /\ BudgetKept /\ PastHeld /\ ChairIsSilent
  /\ BeginsEmpty /\ FoundIsRaised /\ VerdictStands
-----------------------------------------------------------------------------
(* The rounds of the sessions *)

\* The Chair comes last, the resolution after the critique, and each round has a
\* purpose.
LEMMA RoundsInOrder ==
  ASSUME NEW k \in AllSessionKinds, NEW n \in DOMAIN RoundsOf[k]
  PROVE  /\ n \in Nat \ {0}
         /\ RoundsOf[k][n] \in Purposes
         /\ RoundsOf[k][n] = "chair" => \A m \in DOMAIN RoundsOf[k] : m <= n
         /\ RoundsOf[k][n] # "chair" => n + 1 \in DOMAIN RoundsOf[k]
         /\ RoundsOf[k][n] = "critique" =>
              n + 2 \in DOMAIN RoundsOf[k] /\ RoundsOf[k][n + 1] = "resolution"
         /\ k = "review" => (RoundsOf[k][n] # "chair" <=> n = 1) /\ RoundsOf[k][n] \in {"review", "chair"}
         /\ k = "visual" => RoundsOf[k][n] \in {"screen", "chair"}
         /\ 1 \in DOMAIN RoundsOf[k]
  <1>1. CASE k = "discover"
    <2>1. RoundsOf[k] = <<"analysis", "critique", "resolution", "chair">>
      BY <1>1 DEF RoundsOf
    <2>2. DOMAIN RoundsOf[k] = 1..4
      BY <2>1
    <2>. QED
      BY <1>1, <2>1, <2>2 DEF Purposes
  <1>2. CASE k = "review"
    <2>1. RoundsOf[k] = <<"review", "chair">>
      BY <1>2 DEF RoundsOf
    <2>2. DOMAIN RoundsOf[k] = 1..2
      BY <2>1
    <2>. QED
      BY <1>2, <2>1, <2>2 DEF Purposes
  <1>3. CASE k = "final"
    <2>1. RoundsOf[k] = <<"final", "chair">>
      BY <1>3 DEF RoundsOf
    <2>2. DOMAIN RoundsOf[k] = 1..2
      BY <2>1
    <2>. QED
      BY <1>3, <2>1, <2>2 DEF Purposes
  <1>4. CASE k = "visual"
    <2>1. RoundsOf[k] = <<"screen", "screen", "chair">>
      BY <1>4 DEF RoundsOf
    <2>2. DOMAIN RoundsOf[k] = 1..3
      BY <2>1
    <2>. QED
      BY <1>4, <2>1, <2>2 DEF Purposes
  <1>5. CASE k = "architecture"
    <2>1. RoundsOf[k] = <<"chair">>
      BY <1>5 DEF RoundsOf
    <2>2. DOMAIN RoundsOf[k] = 1..1
      BY <2>1
    <2>. QED
      BY <1>5, <2>1, <2>2 DEF Purposes
  <1>. QED
    BY <1>1, <1>2, <1>3, <1>4, <1>5 DEF AllSessionKinds
-----------------------------------------------------------------------------
(* Requests *)

\* One more repair has room for all the tries of the one before.
LEMMA RepairHasRoom ==
  ASSUME NEW n \in Nat, NEW t \in 0..MaxRetries, NEW c \in Nat,
         c <= n * (MaxRetries + 1) + t
  PROVE  c + 1 <= (n + 1) * (MaxRetries + 1) + 0
  <1>1. MaxRetries \in Nat
    BY CouncilAssumption
  <1>2. (n + 1) * (MaxRetries + 1) = n * (MaxRetries + 1) + (MaxRetries + 1)
    BY <1>1
  <1>3. n * (MaxRetries + 1) \in Nat
    BY <1>1
  <1>. QED
    BY <1>1, <1>2, <1>3

\* One more answer leaves a request within its budget, or ends it.
LEMMA AnswerKeepsBudget ==
  ASSUME NEW r \in Requests, NEW reply \in Replies,
         r.status = "asked", r.calls <= r.repairs * (MaxRetries + 1) + r.tries
  PROVE  /\ After(r, reply) \in Requests
         /\ After(r, reply).status = "asked" =>
              After(r, reply).calls <= After(r, reply).repairs * (MaxRetries + 1) + After(r, reply).tries
  <1>. DEFINE a == After(r, reply)
  <1>1. /\ MaxRetries \in Nat /\ MaxRepairs \in Nat
        /\ r.tries \in 0..MaxRetries /\ r.repairs \in 0..MaxRepairs /\ r.calls \in Nat
    BY CouncilAssumption DEF Requests
  <1>2. \A status \in Statuses : Closed(status) \in Requests /\ Closed(status).status = status
    BY <1>1 DEF Closed, Requests, Statuses
  <1>3. CASE reply = "valid"
    <2>1. a = Closed("valid")
      BY <1>3 DEF After, Again, Repairs, EndOf
    <2>. QED
      BY <2>1, <1>2 DEF Statuses
  <1>4. CASE reply = "fatal"
    <2>1. a = Closed("refused")
      BY <1>4 DEF After, Again, Repairs, EndOf
    <2>. QED
      BY <2>1, <1>2 DEF Statuses
  <1>5. CASE reply = "garbled"
    <2>1. a = Closed("garbled")
      BY <1>5 DEF After, Again, Repairs, EndOf
    <2>. QED
      BY <2>1, <1>2 DEF Statuses
  <1>6. CASE reply = "transient" /\ ~Retried(r)
    <2>1. a = Closed("failed")
      BY <1>6 DEF After, Again, Repairs, EndOf
    <2>. QED
      BY <2>1, <1>2 DEF Statuses
  <1>7. CASE reply = "transient" /\ Retried(r)
    <2>1. a = Asked(r.tries + 1, r.repairs, r.calls + 1)
      BY <1>7 DEF After, Again
    <2>2. a.tries \in 0..MaxRetries
      BY <2>1, <1>1, <1>7 DEF Retried, Asked
    <2>3. a \in Requests
      BY <2>1, <2>2, <1>1 DEF Requests, Asked, Statuses
    <2>4. a.calls = r.calls + 1 /\ a.tries = r.tries + 1 /\ a.repairs = r.repairs
      BY <2>1 DEF Asked
    <2>5. r.repairs * (MaxRetries + 1) \in Nat
      BY <1>1
    <2>. QED
      BY <2>3, <2>4, <2>5, <1>1
  <1>8. CASE reply = "invalid" /\ ~Repairs(r, reply)
    <2>1. a = Closed("unrepaired")
      BY <1>8 DEF After, Again, EndOf
    <2>. QED
      BY <2>1, <1>2 DEF Statuses
  <1>9. CASE reply = "invalid" /\ Repairs(r, reply)
    <2>1. a = Asked(0, r.repairs + 1, r.calls + 1)
      BY <1>9 DEF After, Again
    <2>2. a.repairs \in 0..MaxRepairs
      BY <2>1, <1>1, <1>9 DEF Repairs, Asked
    <2>3. a \in Requests
      BY <2>1, <2>2, <1>1 DEF Requests, Asked, Statuses
    <2>4. a.calls = r.calls + 1 /\ a.tries = 0 /\ a.repairs = r.repairs + 1
      BY <2>1 DEF Asked
    <2>5. r.calls + 1 <= (r.repairs + 1) * (MaxRetries + 1) + 0
      BY <1>1, RepairHasRoom
    <2>. QED
      BY <2>3, <2>4, <2>5
  <1>. QED
    BY <1>3, <1>4, <1>5, <1>6, <1>7, <1>8, <1>9 DEF Replies

\* A request that has not been answered is within its budget.
LEMMA FreshIsInBudget ==
  Fresh \in Requests /\ Fresh.status = "asked"
    /\ Fresh.calls <= Fresh.repairs * (MaxRetries + 1) + Fresh.tries
  <1>1. MaxRetries \in Nat /\ MaxRepairs \in Nat
    BY CouncilAssumption
  <1>2. Fresh.calls = 0 /\ Fresh.repairs = 0 /\ Fresh.tries = 0 /\ Fresh.status = "asked"
    BY DEF Fresh, Asked
  <1>3. 0 * (MaxRetries + 1) = 0
    BY <1>1
  <1>4. Fresh \in Requests
    BY <1>1 DEF Fresh, Asked, Requests, Statuses
  <1>. QED
    BY <1>2, <1>3, <1>4

\* The budget of repairs made, of repairs left, and of the first request.
LEMMA BudgetSplits ==
  ASSUME NEW a \in Nat, NEW b \in Nat, NEW m \in Nat
  PROVE  (a + b + 1) * m = a * m + b * m + m
  OBVIOUS

\* Within the budget, an open request has a call left.
LEMMA BudgetBounds ==
  ASSUME CouncilTypeOK, BudgetKept
  PROVE  CallBudget
  <1>. SUFFICES ASSUME NEW p \in Providers, ~Settled(p)
                PROVE  request[p].calls < (MaxRepairs + 1) * (MaxRetries + 1)
    BY DEF CallBudget
  <1>. DEFINE r == request[p]
  <1>1. /\ MaxRetries \in Nat /\ MaxRepairs \in Nat
        /\ r.tries \in 0..MaxRetries /\ r.repairs \in 0..MaxRepairs /\ r.calls \in Nat
    BY CouncilAssumption DEF CouncilTypeOK
  <1>2. r.calls <= r.repairs * (MaxRetries + 1) + r.tries
    BY DEF BudgetKept
  <1>3. PICK d \in Nat : r.repairs + d = MaxRepairs
    <2>1. MaxRepairs - r.repairs \in Nat /\ r.repairs + (MaxRepairs - r.repairs) = MaxRepairs
      BY <1>1
    <2>. QED
      BY <2>1
  <1>. DEFINE m == MaxRetries + 1
  <1>4. m \in Nat /\ d * m \in Nat /\ r.repairs * m \in Nat
    BY <1>1, <1>3
  <1>5. (MaxRepairs + 1) * m = r.repairs * m + d * m + m
    <2>1. MaxRepairs + 1 = r.repairs + d + 1
      BY <1>3
    <2>2. r.repairs \in Nat
      BY <1>1
    <2>3. (r.repairs + d + 1) * m = r.repairs * m + d * m + m
      <3>. HIDE DEF m, r
      <3>. QED
        BY <2>2, <1>4, BudgetSplits
    <2>. QED
      BY <2>1, <2>3
  <1>6. r.calls <= r.repairs * m + r.tries /\ r.tries < m
    BY <1>1, <1>2
  <1>7. r.calls < (MaxRepairs + 1) * m
    <2>. DEFINE all == (MaxRepairs + 1) * m
                before == r.repairs * m
                left == d * m
    <2>1. all = before + left + m /\ before \in Nat /\ left \in Nat /\ m \in Nat
      BY <1>4, <1>5
    <2>2. r.calls <= before + r.tries /\ r.tries < m /\ r.calls \in Nat /\ r.tries \in Nat
      BY <1>1, <1>6
    <2>3. r.calls < all
      <3>. HIDE DEF all, before, left, m, r
      <3>. QED
        BY <2>1, <2>2
    <2>. QED
      BY <2>3
  <1>. QED
    BY <1>7
-----------------------------------------------------------------------------
(* Rounds *)

\* Every session has a first round.
LEMMA SessionsBegin ==
  ASSUME NEW k \in AllSessionKinds
  PROVE  1 \in DOMAIN RoundsOf[k]
  <1>1. \/ RoundsOf[k] = <<"analysis", "critique", "resolution", "chair">>
        \/ RoundsOf[k] = <<"review", "chair">>
        \/ RoundsOf[k] = <<"final", "chair">>
        \/ RoundsOf[k] = <<"screen", "screen", "chair">>
        \/ RoundsOf[k] = <<"chair">>
    BY DEF RoundsOf, AllSessionKinds
  <1>. QED
    BY <1>1

\* A round that begins asks providers, anew.
LEMMA RoundsBeginFresh ==
  ASSUME NEW k \in SessionKinds, NEW n \in DOMAIN RoundsOf[k], OpenRound(k, n)
  PROVE  /\ session'.kind = k /\ session'.round = n
         /\ asked' \subseteq Providers
         /\ request' \in [Providers -> Requests]
         /\ said' \in [Providers -> SUBSET Findings]
         /\ \A p \in Providers : said'[p] = {}
         /\ BudgetKept'
  <1>1. session'.kind = k /\ session'.round = n
    BY DEF OpenRound
  <1>2. asked' \subseteq Providers
    <2>1. asked' \in Panels(k, n)
      BY DEF OpenRound
    <2>2. Vision \subseteq Members
      BY CouncilAssumption
    <2>. QED
      BY <2>1, <2>2 DEF Panels, Providers
  <1>3. request' \in [Providers -> Requests] /\ \A p \in Providers : request'[p] = Fresh
    BY FreshIsInBudget DEF OpenRound
  <1>4. said' \in [Providers -> SUBSET Findings] /\ \A p \in Providers : said'[p] = {}
    BY DEF OpenRound
  <1>5. BudgetKept'
    BY <1>3, FreshIsInBudget DEF BudgetKept
  <1>. QED
    BY <1>1, <1>2, <1>3, <1>4, <1>5

\* The history only grows, so what was held stays held.
LEMMA HeldStays ==
  ASSUME NEW e \in Rounds, rounds \in Seq(Rounds), rounds' = Append(rounds, e),
         NEW purpose, Held(purpose)
  PROVE  Held(purpose)'
  <1>1. PICK i \in DOMAIN rounds : /\ rounds[i].purpose = purpose
                                   /\ rounds[i].valid # {}
                                   /\ Cardinality(rounds[i].valid) >= MinResponses
    BY DEF Held
  <1>2. i \in DOMAIN rounds' /\ rounds'[i] = rounds[i]
    BY <1>1
  <1>. QED
    BY <1>1, <1>2 DEF Held

\* The types of the state, by the names used here.
LEMMA TypeParts ==
  CouncilTypeOK <=>
    /\ session.kind \in SessionKinds \cup {"none"}
    /\ session.kind # "none" => session.round \in DOMAIN RoundsOf[session.kind]
    /\ asked \subseteq Providers
    /\ request \in [Providers -> Requests]
    /\ said \in [Providers -> SUBSET Findings]
    /\ raised \subseteq Findings
    /\ rounds \in Seq(Rounds)
    /\ verdict \in Endings
  BY DEF CouncilTypeOK, Requests, Rounds, Purposes, Endings

\* What a session in a round says of its kind and purpose.
LEMMA InARound ==
  ASSUME CouncilTypeOK, session.kind # "none"
  PROVE  /\ session.kind \in SessionKinds /\ session.kind \in AllSessionKinds
         /\ session.round \in DOMAIN RoundsOf[session.kind] /\ session.round \in Nat \ {0}
         /\ Purpose \in Purposes
  <1>1. session.kind \in SessionKinds /\ session.round \in DOMAIN RoundsOf[session.kind]
    BY TypeParts
  <1>2. session.kind \in AllSessionKinds
    BY <1>1, CouncilAssumption
  <1>. QED
    BY <1>1, <1>2, RoundsInOrder DEF Purpose

\* The round that is over: whose answers were valid, and what they found.
LEMMA RoundMade ==
  ASSUME CouncilTypeOK, NEW purpose \in Purposes, MakeRound(purpose)
  PROVE  /\ Found \subseteq Findings
         /\ [purpose |-> purpose, valid |-> Valid, found |-> Found] \in Rounds
         /\ rounds' = Append(rounds, [purpose |-> purpose, valid |-> Valid, found |-> Found])
         /\ rounds' \in Seq(Rounds)
  <1>1. Valid \subseteq Providers
    BY TypeParts DEF Valid
  <1>2. Found \subseteq Findings
    BY <1>1, TypeParts DEF Found
  <1>3. [purpose |-> purpose, valid |-> Valid, found |-> Found] \in Rounds
    BY <1>1, <1>2 DEF Rounds
  <1>4. rounds' = Append(rounds, [purpose |-> purpose, valid |-> Valid, found |-> Found])
    BY DEF MakeRound
  <1>5. rounds \in Seq(Rounds)
    BY TypeParts
  <1>. QED
    BY <1>2, <1>3, <1>4, <1>5
-----------------------------------------------------------------------------
(* The steps *)

\* The types after a step.
LEMMA TypePartsNext ==
  ASSUME /\ session'.kind \in SessionKinds \cup {"none"}
         /\ session'.kind # "none" => session'.round \in DOMAIN RoundsOf[session'.kind]
         /\ asked' \subseteq Providers
         /\ request' \in [Providers -> Requests]
         /\ said' \in [Providers -> SUBSET Findings]
         /\ raised' \subseteq Findings
         /\ rounds' \in Seq(Rounds)
         /\ verdict' \in Endings
  PROVE  CouncilTypeOK'
  BY DEF CouncilTypeOK, Requests, Rounds, Purposes, Endings

\* A session begins in its first round, with nothing found yet.
LEMMA ConveneKeeps ==
  ASSUME CouncilInv, Convene
  PROVE  CouncilInv'
  <1>. USE DEF CouncilInv
  <1>1. PICK k \in SessionKinds :
          /\ OpenRound(k, 1)
          /\ raised' \in IF k = "visual" THEN SUBSET Findings ELSE {{}}
    BY DEF Convene
  <1>2. k \in AllSessionKinds /\ 1 \in DOMAIN RoundsOf[k]
    BY CouncilAssumption, SessionsBegin
  <1>3. /\ session'.kind = k /\ session'.round = 1
        /\ asked' \subseteq Providers
        /\ request' \in [Providers -> Requests]
        /\ said' \in [Providers -> SUBSET Findings]
        /\ \A p \in Providers : said'[p] = {}
        /\ BudgetKept'
    BY <1>1, <1>2, RoundsBeginFresh
  <1>4. rounds' = <<>> /\ verdict' = verdict /\ raised' \subseteq Findings
    BY <1>1 DEF Convene, BeginsEmpty
  <1>5. verdict.status # "verdict"
    BY DEF Convene, VerdictStands
  <1>6. CouncilTypeOK'
    <2>1. rounds' \in Seq(Rounds) /\ verdict' \in Endings
      BY <1>4, TypeParts
    <2>. QED
      BY <1>2, <1>3, <1>4, <2>1, TypePartsNext
  <1>7. PastHeld'
    <2>1. \A n \in DOMAIN RoundsOf[k] : n \in Nat \ {0}
      BY <1>2, RoundsInOrder
    <2>. QED
      BY <1>3, <2>1 DEF PastHeld
  <1>8. ChairIsSilent' /\ BeginsEmpty' /\ FoundIsRaised' /\ VerdictStands'
    BY <1>3, <1>4, <1>5 DEF ChairIsSilent, BeginsEmpty, FoundIsRaised, VerdictStands
  <1>. QED
    BY <1>3, <1>6, <1>7, <1>8

\* An answer changes its own request only, and the Chair's brings up nothing.
LEMMA ReplyKeeps ==
  ASSUME CouncilInv, NEW p \in Providers, Reply(p)
  PROVE  CouncilInv'
  <1>. USE DEF CouncilInv
  <1>1. PICK reply \in Replies :
          /\ request' = [request EXCEPT ![p] = After(@, reply)]
          /\ IF reply = "valid" THEN \E F \in Sayable : said' = [said EXCEPT ![p] = F]
             ELSE UNCHANGED said
    BY DEF Reply
  <1>2. UNCHANGED <<session, asked, raised, rounds, verdict>> /\ verdict.status = "open"
    BY DEF Reply, InSession, Ended
  <1>3. /\ request \in [Providers -> Requests] /\ request[p] \in Requests
        /\ request[p].status = "asked"
        /\ request[p].calls <= request[p].repairs * (MaxRetries + 1) + request[p].tries
    BY TypeParts DEF Reply, Settled, BudgetKept
  <1>4. /\ After(request[p], reply) \in Requests
        /\ After(request[p], reply).status = "asked" =>
             After(request[p], reply).calls
               <= After(request[p], reply).repairs * (MaxRetries + 1) + After(request[p], reply).tries
    BY <1>3, AnswerKeepsBudget
  <1>5. request' \in [Providers -> Requests]
    BY <1>1, <1>3, <1>4
  <1>6. BudgetKept'
    <2>. SUFFICES ASSUME NEW q \in Providers, ~Settled(q)'
                  PROVE  request'[q].calls <= request'[q].repairs * (MaxRetries + 1) + request'[q].tries
      BY DEF BudgetKept
    <2>1. CASE q = p
      BY <2>1, <1>1, <1>3, <1>4 DEF Settled
    <2>2. CASE q # p
      <3>1. request'[q] = request[q]
        BY <2>2, <1>1, <1>3
      <3>. QED
        BY <3>1 DEF Settled, BudgetKept
    <2>. QED
      BY <2>1, <2>2
  <1>7. Sayable \subseteq SUBSET Findings
    BY DEF Sayable
  <1>8. said' \in [Providers -> SUBSET Findings]
    BY <1>1, <1>7, TypeParts
  <1>9. CouncilTypeOK'
    BY <1>2, <1>5, <1>8, TypeParts, TypePartsNext
  <1>10. ChairIsSilent'
    <2>1. SUFFICES ASSUME session.kind # "none", Chairing
                   PROVE  \A q \in Providers : said'[q] = {}
      BY <1>2 DEF ChairIsSilent, Chairing, Purpose
    <2>2. Sayable = {{}} /\ \A q \in Providers : said[q] = {}
      BY <2>1 DEF ChairIsSilent, Chairing, Sayable
    <2>. QED
      BY <1>1, <2>2, TypeParts
  <1>11. PastHeld' /\ BeginsEmpty' /\ FoundIsRaised' /\ VerdictStands'
    BY <1>2 DEF PastHeld, Held, BeginsEmpty, FoundIsRaised, VerdictStands
  <1>. QED
    BY <1>6, <1>9, <1>10, <1>11

\* A round ends with its quorum, in the history, before the next begins.
LEMMA EndRoundKeeps ==
  ASSUME CouncilInv, EndRound
  PROVE  CouncilInv'
  <1>. USE DEF CouncilInv
  <1>. DEFINE k == session.kind
              n == session.round
              e == [purpose |-> Purpose, valid |-> Valid, found |-> Found]
  <1>1. /\ k # "none" /\ ~Chairing /\ Quorum /\ MakeRound(Purpose) /\ raised' = Heard
        /\ OpenRound(k, NextRound) /\ verdict' = verdict /\ verdict.status = "open"
    BY DEF EndRound, InSession, Ended
  <1>2. /\ k \in SessionKinds /\ k \in AllSessionKinds
        /\ n \in DOMAIN RoundsOf[k] /\ n \in Nat \ {0} /\ Purpose \in Purposes
    BY <1>1, InARound
  <1>3. Purpose = RoundsOf[k][n] /\ Purpose # "chair"
    BY <1>1 DEF Purpose, Chairing
  <1>4. Purpose = "critique" => n + 2 \in DOMAIN RoundsOf[k] /\ RoundsOf[k][n + 1] = "resolution"
    BY <1>2, <1>3, RoundsInOrder
  <1>5. NextRound \in DOMAIN RoundsOf[k] /\ (NextRound = n + 1 \/ (Purpose = "critique" /\ NextRound = n + 2))
    BY <1>2, <1>3, <1>4, RoundsInOrder DEF NextRound
  <1>6. /\ session'.kind = k /\ session'.round = NextRound
        /\ asked' \subseteq Providers
        /\ request' \in [Providers -> Requests]
        /\ said' \in [Providers -> SUBSET Findings]
        /\ \A p \in Providers : said'[p] = {}
        /\ BudgetKept'
    BY <1>1, <1>2, <1>5, RoundsBeginFresh
  <1>7. /\ Found \subseteq Findings /\ e \in Rounds
        /\ rounds' = Append(rounds, e) /\ rounds' \in Seq(Rounds)
    BY <1>1, <1>2, RoundMade
  <1>8. rounds \in Seq(Rounds) /\ raised \subseteq Findings
    BY TypeParts
  <1>9. raised' \subseteq Findings
    BY <1>1, <1>7, <1>8 DEF Heard
  <1>10. CouncilTypeOK'
    <2>1. verdict' \in Endings
      BY <1>1, TypeParts
    <2>. QED
      BY <1>2, <1>5, <1>6, <1>7, <1>9, <2>1, TypePartsNext
  <1>11. PastHeld'
    <2>. SUFFICES ASSUME NEW purpose \in Independent,
                         NEW m \in DOMAIN RoundsOf[k], m < NextRound, RoundsOf[k][m] = purpose
                  PROVE  Held(purpose)'
      BY <1>6 DEF PastHeld
    <2>1. m \in Nat \ {0}
      BY <1>2, RoundsInOrder
    <2>2. m < n \/ m = n
      BY <2>1, <1>2, <1>4, <1>5 DEF Independent
    <2>3. CASE m < n
      <3>1. Held(purpose)
        BY <2>3, <1>1 DEF PastHeld
      <3>. QED
        BY <3>1, <1>7, <1>8, HeldStays
    <2>4. CASE m = n
      <3>1. Purpose \in Independent /\ Purpose # "screen"
        BY <2>4, <1>3 DEF Independent
      <3>2. Valid # {} /\ Cardinality(Valid) >= MinResponses
        BY <3>1, <1>1 DEF Quorum
      <3>3. Len(rounds) + 1 \in DOMAIN rounds' /\ rounds'[Len(rounds) + 1] = e
        BY <1>7, <1>8
      <3>4. e.purpose = purpose /\ e.valid = Valid
        BY <2>4, <1>3
      <3>. HIDE DEF e, k
      <3>. QED
        BY <3>2, <3>3, <3>4 DEF Held
    <2>. QED
      BY <2>2, <2>3, <2>4
  <1>12. ChairIsSilent' /\ BeginsEmpty' /\ VerdictStands'
    BY <1>1, <1>2, <1>5, <1>6 DEF ChairIsSilent, BeginsEmpty, VerdictStands
  <1>13. FoundIsRaised'
    <2>1. SUFFICES ASSUME k \in {"review", "visual"}
                   PROVE  \A i \in DOMAIN rounds' : rounds'[i].found \subseteq raised'
      BY <1>6 DEF FoundIsRaised
    <2>2. e.found = Found
      OBVIOUS
    <2>3. CASE k = "review"
      <3>1. n = 1 /\ Purpose = "review"
        BY <2>3, <1>2, <1>3, RoundsInOrder
      <3>2. rounds = <<>> /\ raised' = Found
        BY <2>3, <3>1, <1>1 DEF BeginsEmpty, Heard
      <3>3. DOMAIN rounds' = {1} /\ rounds'[1] = e
        BY <3>2, <1>7
      <3>. QED
        BY <3>2, <3>3, <2>2
    <2>4. CASE k = "visual"
      <3>1. Purpose = "screen"
        BY <2>4, <1>2, <1>3, RoundsInOrder
      <3>2. raised' = raised \cup Found
        BY <3>1, <1>1 DEF Heard
      <3>3. \A i \in DOMAIN rounds' : (i \in DOMAIN rounds /\ rounds'[i] = rounds[i]) \/ rounds'[i] = e
        BY <1>7, <1>8
      <3>. HIDE DEF e
      <3>. QED
        BY <2>4, <2>2, <3>2, <3>3 DEF FoundIsRaised
    <2>. QED
      BY <2>1, <2>3, <2>4
  <1>. QED
    BY <1>6, <1>10, <1>11, <1>12, <1>13

\* Without a quorum the session fails, and nothing else changes.
LEMMA NoQuorumKeeps ==
  ASSUME CouncilInv, NoQuorum
  PROVE  CouncilInv'
  <1>. USE DEF CouncilInv
  <1>1. UNCHANGED <<session, asked, request, said, raised, rounds>>
    BY DEF NoQuorum
  <1>2. verdict' \in Endings /\ verdict'.status = "failed"
    BY DEF NoQuorum, Fail, Endings
  <1>3. CouncilTypeOK'
    BY <1>1, <1>2, TypeParts, TypePartsNext
  <1>4. BudgetKept' /\ PastHeld' /\ ChairIsSilent' /\ BeginsEmpty' /\ FoundIsRaised' /\ VerdictStands'
    BY <1>1, <1>2
       DEF BudgetKept, Settled, PastHeld, Held, ChairIsSilent, Chairing, Purpose,
           BeginsEmpty, FoundIsRaised, VerdictStands
  <1>. QED
    BY <1>3, <1>4

\* Nor does anything else when the Chair fails.
LEMMA ChairFailsKeeps ==
  ASSUME CouncilInv, ChairFails
  PROVE  CouncilInv'
  <1>. USE DEF CouncilInv
  <1>1. UNCHANGED <<session, asked, request, said, raised, rounds>>
    BY DEF ChairFails
  <1>2. verdict' \in Endings /\ verdict'.status = "failed"
    BY DEF ChairFails, Fail, Endings
  <1>3. CouncilTypeOK'
    BY <1>1, <1>2, TypeParts, TypePartsNext
  <1>4. BudgetKept' /\ PastHeld' /\ ChairIsSilent' /\ BeginsEmpty' /\ FoundIsRaised' /\ VerdictStands'
    BY <1>1, <1>2
       DEF BudgetKept, Settled, PastHeld, Held, ChairIsSilent, Chairing, Purpose,
           BeginsEmpty, FoundIsRaised, VerdictStands
  <1>. QED
    BY <1>3, <1>4

\* A decision that stands is the verdict; one that does not fails the session.
LEMMA DecideKeeps ==
  ASSUME CouncilInv, Decide
  PROVE  CouncilInv'
  <1>. USE DEF CouncilInv
  <1>1. PICK d \in Decisions :
          IF Stands(d) THEN verdict' = [status |-> "verdict", decision |-> d] /\ MakeRound("chair")
          ELSE Fail("CHAIR_FAILURE", TRUE) /\ UNCHANGED rounds
    BY DEF Decide
  <1>2. /\ UNCHANGED <<session, asked, request, said, raised>>
        /\ session.kind # "none" /\ Chairing
    BY DEF Decide, InSession
  <1>3. BudgetKept' /\ ChairIsSilent'
    BY <1>2 DEF BudgetKept, Settled, ChairIsSilent, Chairing, Purpose
  <1>4. CASE ~Stands(d)
    <2>1. UNCHANGED rounds /\ verdict' \in Endings /\ verdict'.status = "failed"
      <3>1. UNCHANGED rounds /\ Fail("CHAIR_FAILURE", TRUE)
        BY <1>1, <1>4
      <3>. QED
        BY <3>1 DEF Fail, Endings
    <2>2. CouncilTypeOK'
      BY <1>2, <2>1, TypeParts, TypePartsNext
    <2>3. PastHeld' /\ BeginsEmpty' /\ FoundIsRaised' /\ VerdictStands'
      BY <1>2, <2>1 DEF PastHeld, Held, BeginsEmpty, FoundIsRaised, VerdictStands
    <2>. QED
      BY <1>3, <2>2, <2>3
  <1>5. CASE Stands(d)
    <2>. DEFINE e == [purpose |-> "chair", valid |-> Valid, found |-> Found]
    <2>1. verdict' = [status |-> "verdict", decision |-> d] /\ MakeRound("chair")
      BY <1>1, <1>5
    <2>2. /\ e \in Rounds /\ rounds' = Append(rounds, e) /\ rounds' \in Seq(Rounds)
      BY <2>1, RoundMade DEF Purposes
    <2>3. rounds \in Seq(Rounds)
      BY TypeParts
    <2>4. CouncilTypeOK'
      <3>1. verdict' \in Endings
        BY <2>1 DEF Endings
      <3>. QED
        BY <1>2, <2>2, <3>1, TypeParts, TypePartsNext
    <2>5. PastHeld'
      <3>. SUFFICES ASSUME NEW purpose \in Independent,
                           NEW m \in DOMAIN RoundsOf[session.kind], m < session.round,
                           RoundsOf[session.kind][m] = purpose
                    PROVE  Held(purpose)'
        BY <1>2 DEF PastHeld
      <3>1. Held(purpose)
        BY <1>2 DEF PastHeld
      <3>. QED
        BY <3>1, <2>2, <2>3, HeldStays
    <2>6. BeginsEmpty'
      <3>1. session.kind = "review" => session.round # 1
        BY <1>2, InARound, RoundsInOrder DEF Chairing, Purpose
      <3>. QED
        BY <1>2, <3>1 DEF BeginsEmpty
    <2>7. FoundIsRaised'
      <3>1. e.found = {}
        <4>1. Valid \subseteq Providers
          BY TypeParts DEF Valid
        <4>2. \A p \in Valid : said[p] = {}
          BY <1>2, <4>1 DEF ChairIsSilent
        <4>. QED
          BY <4>2 DEF Found
      <3>2. \A i \in DOMAIN rounds' : (i \in DOMAIN rounds /\ rounds'[i] = rounds[i]) \/ rounds'[i] = e
        BY <2>2, <2>3
      <3>. HIDE DEF e
      <3>. QED
        BY <1>2, <3>1, <3>2 DEF FoundIsRaised
    <2>8. VerdictStands'
      BY <1>2, <1>5, <2>1 DEF VerdictStands, Stands, Addresses, Chairing, Purpose
    <2>. QED
      BY <1>3, <2>4, <2>5, <2>6, <2>7, <2>8
  <1>. QED
    BY <1>4, <1>5

LEMMA CouncilInitHolds == CouncilInit => CouncilInv
  <1>. SUFFICES ASSUME CouncilInit
                PROVE  CouncilInv
    OBVIOUS
  <1>1. /\ session.kind = "none" /\ asked = {} /\ raised = {} /\ rounds = <<>>
        /\ request = [p \in Providers |-> Fresh] /\ said = [p \in Providers |-> {}]
        /\ verdict = [status |-> "open"]
    BY DEF CouncilInit
  <1>2. CouncilTypeOK
    <2>1. verdict \in Endings /\ rounds \in Seq(Rounds)
      BY <1>1 DEF Endings
    <2>2. request \in [Providers -> Requests] /\ said \in [Providers -> SUBSET Findings]
      BY <1>1, FreshIsInBudget
    <2>. QED
      BY <1>1, <2>1, <2>2, TypeParts
  <1>3. BudgetKept
    BY <1>1, FreshIsInBudget DEF BudgetKept
  <1>4. verdict.status # "verdict"
    BY <1>1
  <1>. QED
    BY <1>1, <1>2, <1>3, <1>4
       DEF CouncilInv, PastHeld, ChairIsSilent, BeginsEmpty, FoundIsRaised, VerdictStands

LEMMA CouncilNextKeeps ==
  ASSUME CouncilInv, [CouncilSteps]_councilVars
  PROVE  CouncilInv'
  <1>1. CASE Convene
    BY <1>1, ConveneKeeps
  <1>2. ASSUME NEW p \in Providers, Reply(p)
        PROVE  CouncilInv'
    BY <1>2, ReplyKeeps
  <1>3. CASE EndRound
    BY <1>3, EndRoundKeeps
  <1>4. CASE NoQuorum
    BY <1>4, NoQuorumKeeps
  <1>5. CASE Decide
    BY <1>5, DecideKeeps
  <1>6. CASE ChairFails
    BY <1>6, ChairFailsKeeps
  <1>7. CASE UNCHANGED councilVars
    <2>1. CouncilTypeOK'
      BY <1>7, TypeParts, TypePartsNext DEF CouncilInv, councilVars
    <2>. QED
      BY <1>7, <2>1
         DEF CouncilInv, councilVars, BudgetKept, Settled, PastHeld, Held, ChairIsSilent, Chairing, Purpose,
             BeginsEmpty, FoundIsRaised, VerdictStands, Stands, Addresses
  <1>. QED
    BY <1>1, <1>2, <1>3, <1>4, <1>5, <1>6, <1>7 DEF CouncilSteps

\* The independent rounds of a session that came to a verdict are past.
LEMMA VerdictHasQuorum ==
  ASSUME CouncilInv
  PROVE  QuorumBacksVerdict
  <1>. SUFFICES ASSUME verdict.status = "verdict",
                       NEW n \in DOMAIN RoundsOf[session.kind],
                       RoundsOf[session.kind][n] \in Independent
                PROVE  Held(RoundsOf[session.kind][n])
    BY DEF QuorumBacksVerdict, Held, Independent
  <1>1. /\ session.kind # "none" /\ Chairing
        /\ session.kind \in AllSessionKinds
        /\ session.round \in DOMAIN RoundsOf[session.kind] /\ session.round \in Nat \ {0}
    BY InARound DEF CouncilInv, VerdictStands
  <1>2. n \in Nat \ {0} /\ n <= session.round
    BY <1>1, RoundsInOrder DEF Chairing, Purpose
  <1>3. n # session.round
    BY <1>1 DEF Chairing, Purpose, Independent
  <1>4. n < session.round
    BY <1>1, <1>2, <1>3
  <1>. QED
    BY <1>1, <1>4 DEF CouncilInv, PastHeld

\* A verdict stands against what was raised, and what was found was raised.
LEMMA VerdictHears ==
  ASSUME CouncilInv
  PROVE  MinorityHeard
  <1>. SUFFICES ASSUME verdict.status = "verdict", session.kind \in {"review", "visual"}
                PROVE  /\ \A i \in DOMAIN rounds : \A f \in Severe(rounds[i].found) :
                            \E g \in verdict.decision.resolved \cup verdict.decision.blocking :
                              g.issue = f.issue \/ g.category = f.category
                       /\ verdict.decision.decision = "COMPLETE" => Severe(verdict.decision.blocking) = {}
    BY DEF MinorityHeard
  <1>1. Stands(verdict.decision)
    BY DEF CouncilInv, VerdictStands
  <1>2. ASSUME NEW i \in DOMAIN rounds, NEW f \in Severe(rounds[i].found)
        PROVE  \E g \in verdict.decision.resolved \cup verdict.decision.blocking :
                 g.issue = f.issue \/ g.category = f.category
    <2>1. f \in Severe(raised)
      BY <1>2 DEF CouncilInv, FoundIsRaised, Severe
    <2>2. Addresses(verdict.decision, f)
      BY <1>1, <2>1 DEF Stands
    <2>. QED
      BY <2>2 DEF Addresses
  <1>3. verdict.decision.decision = "COMPLETE" => Severe(verdict.decision.blocking) = {}
    BY <1>1 DEF Stands
  <1>. QED
    BY <1>2, <1>3
-----------------------------------------------------------------------------
(* The theorems *)

\* The invariant holds of a Council that has not met, and every step of a
\* session keeps it.
THEOREM CouncilInvariant == CouncilSpec => []CouncilInv
  <1>1. CouncilInit => CouncilInv
    BY CouncilInitHolds
  <1>2. CouncilInv /\ [CouncilSteps]_councilVars => CouncilInv'
    BY CouncilNextKeeps
  <1>. QED
    BY <1>1, <1>2, PTL DEF CouncilSpec

\* Sessions, requests, rounds and verdicts have their shapes, whatever the
\* answers are and whoever they come from.
THEOREM CouncilTypeCorrect == CouncilSpec => []CouncilTypeOK
  <1>1. CouncilInv => CouncilTypeOK
    BY DEF CouncilInv
  <1>. QED
    BY <1>1, CouncilInvariant, PTL

\* No order of errors and bad answers makes a request more than its repairs and
\* retries allow (completeValidated around withRetry).
THEOREM WithinBudget == CouncilSpec => []CallBudget
  <1>1. CouncilInv => CallBudget
    BY BudgetBounds DEF CouncilInv
  <1>. QED
    BY <1>1, CouncilInvariant, PTL

\* No session of any kind comes to a verdict but by a quorum in each of its
\* independent rounds (independentRound).
THEOREM QuorumBehindVerdict == CouncilSpec => []QuorumBacksVerdict
  <1>1. CouncilInv => QuorumBacksVerdict
    BY VerdictHasQuorum
  <1>. QED
    BY <1>1, CouncilInvariant, PTL

\* A decision addresses every severe finding of every reviewer of its session,
\* and a COMPLETE leaves nothing severe (assertReviewChairDecision,
\* visualReview).
THEOREM MinorityIsHeard == CouncilSpec => []MinorityHeard
  <1>1. CouncilInv => MinorityHeard
    BY VerdictHears
  <1>. QED
    BY <1>1, CouncilInvariant, PTL
=============================================================================
