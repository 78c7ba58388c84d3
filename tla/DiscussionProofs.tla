-------------------------- MODULE DiscussionProofs --------------------------
(***************************************************************************)
(* Proofs about Discussion, for any agents, rosters and bids.              *)
(***************************************************************************)
EXTENDS Discussion, FiniteSetTheorems, WellFoundedInduction, TLAPS

\* The controller's locals against the floor: a turn begins without a winner,
\* and one that ends in an interjection has another agent waiting.
InTurn ==
    /\ pc = "turn" => won = "none"
    /\ pc = "after" /\ won = "brief_interjection" =>
          speaker = interjector /\ returnTo # speaker

\* Only the winner of the last grant has a streak.
OneStreak ==
    \A a, b \in Agent : consecutive[a] > 0 /\ consecutive[b] > 0 => a = b

FloorInv == TypeOK /\ InTurn /\ ReturnAwaitsInterjector /\ OneStreak

LEMMA FloorInit == Init => FloorInv
BY DiscussionAssumption
   DEF Init, FloorInv, TypeOK, InTurn, ReturnAwaitsInterjector, OneStreak

\* Whoever asks is an agent and asks with a bid; a winner has asked.
LEMMA AskedWithBid ==
    ASSUME NEW requests \in Requests, NEW a \in DOMAIN requests
    PROVE  /\ a \in Agent
           /\ requests[a].intent \in Intent
           /\ requests[a].merit \in Nat
           /\ requests[a].merit <= 5100
<1>1. PICK A \in SUBSET Agent : requests \in [A -> Bids]
  BY DEF Requests
<1>2. a \in Agent /\ requests[a] \in Bids
  BY <1>1
<1>3. requests[a].intent \in Intent /\ requests[a].merit \in 0..5100
  BY <1>2, DiscussionAssumption
<1>4. requests[a].merit \in Nat /\ requests[a].merit <= 5100
  <2>1. PICK m \in 0..5100 : requests[a].merit = m
    BY <1>3
  <2>2. m \in Nat /\ m <= 5100
    OBVIOUS
  <2> QED
    BY <2>1, <2>2
<1> QED
  BY <1>2, <1>3, <1>4

LEMMA WinnerAsked ==
    ASSUME NEW requests, NEW a \in Winners(requests)
    PROVE  a \in DOMAIN requests
BY DEF Winners, Tied

LEMMA QuietIsSpoken ==
    ASSUME NEW a \in Agent, quiet \in Seq(Agent)
    PROVE  Spoke(a) \in Seq(Agent)
<1>1. Append(quiet, a) \in Seq(Agent) /\ Len(Append(quiet, a)) > 0
  OBVIOUS
<1>2. Tail(Append(quiet, a)) \in Seq(Agent)
  BY <1>1
<1> QED
  BY <1>1, <1>2 DEF Spoke

LEMMA RosterGoesOn ==
    ASSUME NEW a \in Agent
    PROVE  NextOnRoster(a) \in Agent
<1> DEFINE i == CHOOSE i \in DOMAIN Roster : Roster[i] = a
<1>1. i \in 1..Len(Roster)
  BY RosterAssumption
<1>2. (i % Len(Roster)) + 1 \in 1..Len(Roster)
  BY <1>1, RosterAssumption
<1> QED
  BY <1>2, RosterAssumption DEF NextOnRoster

LEMMA FloorStep == FloorInv /\ [Next]_vars => FloorInv'
<1> SUFFICES ASSUME FloorInv, [Next]_vars PROVE FloorInv'
  OBVIOUS
<1> USE DiscussionAssumption
    DEF FloorInv, TypeOK, InTurn, ReturnAwaitsInterjector, OneStreak, floorVars,
        policyVars, commandVars
<1>1. CASE StartMeeting
  BY <1>1 DEF StartMeeting
<1>2. ASSUME NEW n \in 0..MaxTurns, BeginCommand(n) PROVE FloorInv'
  BY <1>2 DEF BeginCommand, BeginTurn
<1>3. ASSUME NEW requests \in Requests, TakeFloor(requests) PROVE FloorInv'
  <2>1. PICK a \in Winners(requests) :
          /\ turns[a] < MaxGrants
          /\ GrantFloor(a, requests[a].intent)
          /\ won' = requests[a].intent
          /\ interjector' = IF won' = "brief_interjection" THEN a ELSE Nobody
    BY <1>3 DEF TakeFloor
  <2>2. a \in Agent /\ a # speaker /\ requests[a].intent \in Intent
    BY <1>3, WinnerAsked, AskedWithBid DEF TakeFloor
  <2>3. /\ turns' \in [Agent -> 0..MaxGrants]
        /\ consecutive' \in [Agent -> 0..MaxGrants]
        /\ \A b \in Agent : consecutive'[b] <= turns'[b]
        /\ OneStreak'
    BY <2>1, <2>2 DEF GrantFloor, CountGrant
  <2>4. pc = "turn" /\ pc' = "after" /\ UNCHANGED <<left, which, quiet>>
    BY <1>3 DEF TakeFloor
  <2>5. {speaker, addressee, returnTo, interjector}' \subseteq Agent \cup {Nobody}
    BY <2>1, <2>2 DEF GrantFloor
  <2>6. speaker' # Nobody /\ addressee' # Nobody
    BY <2>1, <2>2, <2>4 DEF GrantFloor
  <2>7. TypeOK'
    BY <2>1, <2>2, <2>3, <2>4, <2>5, <2>6
  <2>8. InTurn'
    BY <2>1, <2>2, <2>4 DEF GrantFloor
  <2> QED
    BY <2>3, <2>4, <2>7, <2>8
<1>4. CASE EndStream
  BY <1>4 DEF EndStream
<1>5. CASE AfterInterruption
  BY <1>5 DEF AfterInterruption, Supersede, NextTurn, BeginTurn, Finish
<1>6. CASE AfterInterjection
  BY <1>6 DEF AfterInterjection, CompleteInterjection, NextTurn, BeginTurn, Finish
<1>7. CASE AfterQuietTurn
  <2>1. speaker \in Agent /\ NextOnRoster(speaker) \in Agent
    BY <1>7, RosterGoesOn DEF AfterQuietTurn
  <2>2. quiet' \in Seq(Agent)
    BY <1>7, <2>1, QuietIsSpoken DEF AfterQuietTurn
  <2> QED
    BY <1>7, <2>1, <2>2 DEF AfterQuietTurn, AdvanceFloor, NextTurn, BeginTurn, Finish
<1>8. CASE EndTalk
  BY <1>8 DEF EndTalk, Finish
<1>9. CASE Stop
  BY <1>9 DEF Stop, Finish
<1>10. CASE UNCHANGED vars
  BY <1>10 DEF vars
<1> HIDE DEF FloorInv
<1> QED
  BY <1>1, <1>2, <1>3, <1>4, <1>5, <1>6, <1>7, <1>8, <1>9, <1>10 DEF Next

LEMMA FloorInvariant == Spec => []FloorInv
BY FloorInit, FloorStep, PTL DEF Spec

\* Type correctness of the floor: after any sequence of commands, grants and
\* crashes speaker and addressee are set together and no streak is longer than
\* the agent's grants.
THEOREM FloorTyped == Spec => []TypeOK
BY FloorInvariant, PTL DEF FloorInv

\* Within a run of the controller a return address belongs to the agent that
\* has just interjected, whoever interrupts whom.
THEOREM ReturnCorrect == Spec => []ReturnAwaitsInterjector
BY FloorInvariant, PTL DEF FloorInv

-----------------------------------------------------------------------------
(* The cooldown. *)

\* What the two history terms of a score can add and take away.
LEMMA FairnessBounds ==
    ASSUME TypeOK, NEW a \in Agent
    PROVE  /\ Fairness(a) \in Nat
           /\ Fairness(a) <= 600
           /\ turns[a] >= 2 => Fairness(a) <= 200
<1>1. turns[a] \in 0..5
  BY DiscussionAssumption DEF TypeOK
<1>2. turns[a] = 0 \/ turns[a] = 1 \/ turns[a] = 2 \/ turns[a] = 3
        \/ turns[a] = 4 \/ turns[a] = 5
  BY <1>1
<1> QED
  BY <1>2 DEF Fairness

LEMMA ClampBounds ==
    ASSUME NEW x \in Int, x <= 6000
    PROVE  /\ Clamp(x) \in Int
           /\ Clamp(x) >= x
           /\ Clamp(x) = 0 \/ Clamp(x) = x
BY DEF Clamp

LEMMA ScoreBounds ==
    ASSUME TypeOK, NEW a \in Agent, NEW bid,
           bid.merit \in Nat, bid.merit <= 5100
    PROVE  /\ Score(a, bid) \in Int
           /\ Score(a, bid) >= bid.merit + Fairness(a) - Cooldown(a)
           /\ \/ Score(a, bid) = 0
              \/ Score(a, bid) = bid.merit + Fairness(a) - Cooldown(a)
<1> DEFINE x == bid.merit + Fairness(a) - Cooldown(a)
<1>1. consecutive[a] \in Nat
  BY DiscussionAssumption DEF TypeOK
<1>2. Cooldown(a) \in Nat
  BY <1>1 DEF Cooldown
<1>3. Fairness(a) \in Nat /\ Fairness(a) <= 600
  BY FairnessBounds
<1>4. x \in Int /\ x <= 6000
  BY <1>2, <1>3
<1>5. Score(a, bid) = Clamp(x)
  BY DEF Score
<1> HIDE DEF x
<1>6. /\ Clamp(x) \in Int
      /\ Clamp(x) >= x
      /\ Clamp(x) = 0 \/ Clamp(x) = x
  BY <1>4, ClampBounds
<1>7. /\ Score(a, bid) \in Int
      /\ Score(a, bid) >= x
      /\ Score(a, bid) = 0 \/ Score(a, bid) = x
  BY <1>5, <1>6
<1> QED
  BY <1>7 DEF x

LEMMA CooldownStep ==
    ASSUME TypeOK, OneStreak
    PROVE  CooldownYields
<1> SUFFICES ASSUME NEW requests \in Requests, NEW a \in Winners(requests),
                    consecutive[a] >= 2,
                    NEW b \in DOMAIN requests \ {a}
             PROVE  requests[b].merit < requests[a].merit
  BY DEF CooldownYields
<1> DEFINE merit(x) == requests[x].merit
           score(x) == Score(x, requests[x])
           fair(x)  == Fairness(x)
           cool(x)  == Cooldown(x)
<1>1. a \in DOMAIN requests
  BY WinnerAsked
<1>2. ASSUME NEW x \in DOMAIN requests
      PROVE  /\ x \in Agent
             /\ merit(x) \in Nat
             /\ fair(x) \in Nat /\ fair(x) <= 600
             /\ turns[x] >= 2 => fair(x) <= 200
             /\ score(x) \in Int
             /\ score(x) >= merit(x) + fair(x) - cool(x)
             /\ score(x) = 0 \/ score(x) = merit(x) + fair(x) - cool(x)
  <2>1. /\ x \in Agent
        /\ requests[x].merit \in Nat /\ requests[x].merit <= 5100
    BY AskedWithBid
  <2>2. /\ Fairness(x) \in Nat /\ Fairness(x) <= 600
        /\ turns[x] >= 2 => Fairness(x) <= 200
    BY <2>1, FairnessBounds
  <2>3. /\ Score(x, requests[x]) \in Int
        /\ Score(x, requests[x]) >= requests[x].merit + Fairness(x) - Cooldown(x)
        /\ \/ Score(x, requests[x]) = 0
           \/ Score(x, requests[x])
                = requests[x].merit + Fairness(x) - Cooldown(x)
    BY <2>1, ScoreBounds
  <2> QED
    BY <2>1, <2>2, <2>3
<1>3. /\ consecutive[a] \in Nat /\ consecutive[b] \in Nat
      /\ turns[a] \in Nat /\ consecutive[a] <= turns[a]
  <2>1. a \in Agent /\ b \in Agent
    BY <1>1, <1>2
  <2> QED
    BY <2>1, DiscussionAssumption DEF TypeOK
<1>4. turns[a] >= 2
  BY <1>3
<1>5. cool(b) = 0
  <2>1. consecutive[b] = 0
    BY <1>1, <1>2, <1>3 DEF OneStreak
  <2> QED
    BY <2>1 DEF Cooldown
<1>6. cool(a) \in Nat /\ cool(a) >= 600
  BY <1>3 DEF Cooldown
<1>7. \A x \in DOMAIN requests : score(x) - score(a) <= 300
  BY DEF Winners, Tied, TieDelta
<1>8. \E x \in DOMAIN requests : score(x) >= 3900
  BY DEF Winners, Threshold
<1> HIDE DEF merit, score, fair, cool
<1>9. score(b) >= merit(b)
  BY <1>2, <1>5
<1>10. score(a) = 0 \/ score(a) <= merit(a) - 400
  BY <1>1, <1>2, <1>4, <1>6
<1>11. score(a) >= 3600
  BY <1>1, <1>2, <1>7, <1>8
<1>12. merit(b) < merit(a)
  BY <1>1, <1>2, <1>7, <1>9, <1>10, <1>11
<1> QED
  BY <1>12 DEF merit

\* After two grants in a row an agent wins the floor only over those who have
\* less to say, whatever was granted before and whoever asks.
THEOREM CooldownCorrect == Spec => []CooldownYields
<1>1. FloorInv => CooldownYields
  BY CooldownStep DEF FloorInv
<1> QED
  BY <1>1, FloorInvariant, PTL

-----------------------------------------------------------------------------
(* Arbitration. *)

\* Every set of natural numbers has a least one.
LEMMA LeastNat ==
    ASSUME NEW S \in SUBSET Nat, S # {}
    PROVE  \E n \in S : \A m \in S : n <= m
<1>1. PICK n \in S : \A m \in S : ~ (<<m, n>> \in OpToRel(<, Nat))
  BY NatLessThanWellFounded, WFMin
<1>2. \A m \in S : ~ (m < n)
  BY <1>1 DEF OpToRel
<1> QED
  BY <1>2

\* Among the requests there is one with the best score, be they finite or not:
\* scores are clamped.
LEMMA BestScore ==
    ASSUME TypeOK, NEW requests \in Requests, DOMAIN requests # {}
    PROVE  \E a \in DOMAIN requests : \A b \in DOMAIN requests :
               Score(b, requests[b]) <= Score(a, requests[a])
<1> DEFINE score(a) == Score(a, requests[a])
           gaps == {6000 - score(a) : a \in DOMAIN requests}
<1>1. ASSUME NEW a \in DOMAIN requests PROVE score(a) \in Int /\ score(a) <= 6000
  <2>1. a \in Agent /\ requests[a].merit \in Nat
    BY AskedWithBid
  <2>2. Fairness(a) \in Nat
    BY <2>1, FairnessBounds
  <2>3. Cooldown(a) \in Nat
    BY <2>1, DiscussionAssumption DEF TypeOK, Cooldown
  <2>4. requests[a].merit + Fairness(a) - Cooldown(a) \in Int
    BY <2>1, <2>2, <2>3
  <2> QED
    BY <2>4 DEF Score, Clamp
<1> HIDE DEF score
<1>2. gaps \in SUBSET Nat /\ gaps # {}
  BY <1>1
<1>3. PICK n \in gaps : \A m \in gaps : n <= m
  BY <1>2, LeastNat
<1>4. PICK a \in DOMAIN requests : n = 6000 - score(a)
  BY <1>3
<1>5. \A b \in DOMAIN requests : score(b) <= score(a)
  <2> TAKE b \in DOMAIN requests
  <2>1. 6000 - score(a) <= 6000 - score(b)
    BY <1>3, <1>4
  <2> QED
    BY <1>1, <2>1
<1> QED
  BY <1>5 DEF score

\* The tie-break has a first agent among any that are tied.
LEMMA FirstComes ==
    ASSUME TypeOK, NEW A \in SUBSET Agent, A # {}
    PROVE  \E w \in A : \A b \in A : ComesBefore(w, b)
<1> DEFINE spoken == {turns[a] : a \in A}
<1>1. \A a \in A : turns[a] \in Nat /\ a \in Nat
  BY DiscussionAssumption DEF TypeOK
<1>2. spoken \in SUBSET Nat /\ spoken # {}
  BY <1>1
<1>3. PICK n \in spoken : \A m \in spoken : n <= m
  BY <1>2, LeastNat
<1> DEFINE fewest == {a \in A : turns[a] = n}
<1>4. fewest \in SUBSET Nat /\ fewest # {}
  BY <1>1, <1>3
<1>5. PICK w \in fewest : \A b \in fewest : w <= b
  BY <1>4, LeastNat
<1>6. \A b \in A : ComesBefore(w, b)
  <2> TAKE b \in A
  <2>1. turns[w] <= turns[b] /\ turns[w] = n
    BY <1>3, <1>5
  <2>2. CASE turns[b] = n
    BY <1>5, <2>1, <2>2 DEF ComesBefore
  <2>3. CASE turns[b] # n
    BY <1>1, <1>5, <2>1, <2>3 DEF ComesBefore
  <2> QED
    BY <2>2, <2>3
<1> QED
  BY <1>6

\* Two agents do not come before each other.
LEMMA ComesBeforeAntisymmetric ==
    ASSUME TypeOK, NEW a \in Agent, NEW b \in Agent, ComesBefore(a, b), ComesBefore(b, a)
    PROVE  a = b
<1>1. a \in Nat /\ b \in Nat /\ turns[a] \in Nat /\ turns[b] \in Nat
  BY DiscussionAssumption DEF TypeOK
<1> QED
  BY <1>1 DEF ComesBefore

\* One request wins, if any reaches the threshold: the first of those tied with the best.
LEMMA ArbitrationStep ==
    ASSUME TypeOK
    PROVE  ArbitrationDecides
<1> SUFFICES ASSUME NEW requests \in Requests
             PROVE  Cardinality(Winners(requests)) =
                        IF \E a \in DOMAIN requests : Score(a, requests[a]) >= Threshold
                        THEN 1 ELSE 0
  BY DEF ArbitrationDecides
<1>1. CASE ~ \E a \in DOMAIN requests : Score(a, requests[a]) >= Threshold
  <2>1. Winners(requests) = {}
    BY <1>1 DEF Winners
  <2> QED
    BY <1>1, <2>1, FS_EmptySet
<1>2. CASE \E a \in DOMAIN requests : Score(a, requests[a]) >= Threshold
  <2>1. PICK top \in DOMAIN requests : \A b \in DOMAIN requests :
            Score(b, requests[b]) <= Score(top, requests[top])
    BY <1>2, BestScore
  <2>2. \A a \in DOMAIN requests : a \in Agent /\ Score(a, requests[a]) \in Int
    <3> TAKE a \in DOMAIN requests
    <3>1. a \in Agent /\ requests[a].merit \in Nat /\ requests[a].merit <= 5100
      BY AskedWithBid
    <3> QED
      BY <3>1, ScoreBounds
  <2>3. top \in Tied(requests)
    BY <2>1, <2>2 DEF Tied, TieDelta
  <2>4. Tied(requests) \in SUBSET Agent
    BY <2>2 DEF Tied
  <2>5. PICK w \in Tied(requests) : \A b \in Tied(requests) : ComesBefore(w, b)
    BY <2>3, <2>4, FirstComes
  <2>6. Winners(requests) = {w}
    <3>1. w \in Winners(requests)
      BY <1>2, <2>5 DEF Winners
    <3>2. ASSUME NEW v \in Winners(requests) PROVE v = w
      <4>1. v \in Tied(requests) /\ \A b \in Tied(requests) : ComesBefore(v, b)
        BY <1>2, <3>2 DEF Winners
      <4> QED
        BY <2>4, <2>5, <4>1, ComesBeforeAntisymmetric
    <3> QED
      BY <3>1, <3>2
  <2> QED
    BY <1>2, <2>6, FS_Singleton
<1> QED
  BY <1>1, <1>2

\* Arbitration is deterministic: whoever asks, whatever was granted before and
\* however the scores tie, exactly one request wins if one reaches the
\* threshold, and none otherwise (FloorPolicy.select).
THEOREM ArbitrationCorrect == Spec => []ArbitrationDecides
BY FloorTyped, ArbitrationStep, PTL

-----------------------------------------------------------------------------
(* The rotation. *)

Size == Len(Roster)

\* The place on the roster d places before place j.
Back(j, d) == IF j > d THEN j - d ELSE j - d + Size

\* The quiet turns were spoken by the agents before place j, in their order, and
\* as long as nobody interrupts the speaker is the agent at that place.
Round(j) ==
    /\ \A i \in DOMAIN quiet : quiet[i] = Roster[Back(j, Len(quiet) + 1 - i)]
    /\ pc = "turn" \/ (pc = "after" /\ won = "none") => speaker = Roster[j]

RoundInv ==
    /\ Len(quiet) <= Size
    /\ \E j \in DOMAIN Roster : Round(j)

\* The places of the roster, of which there is one at least.
LEMMA RosterPlaces == Size \in Nat /\ Size >= 1 /\ DOMAIN Roster = 1..Size
<1>1. \E i \in DOMAIN Roster : Roster[i] = First
  BY DiscussionAssumption, RosterAssumption
<1> QED
  BY <1>1, RosterAssumption DEF Size

\* The agent after the one at place j is the one at place j + 1, or the first.
LEMMA NextPlace ==
    ASSUME NEW j \in 1..Size
    PROVE  NextOnRoster(Roster[j]) = Roster[IF j < Size THEN j + 1 ELSE 1]
<1> DEFINE i == CHOOSE i \in DOMAIN Roster : Roster[i] = Roster[j]
<1>1. i = j
  BY RosterAssumption, RosterPlaces
<1>2. Size \in Nat /\ Size >= 1
  BY RosterPlaces
<1>3. j % Size = IF j < Size THEN j ELSE 0
  BY <1>2
<1>4. NextOnRoster(Roster[j]) = Roster[(j % Size) + 1]
  BY <1>1 DEF NextOnRoster, Size
<1> QED
  BY <1>2, <1>3, <1>4

\* A meeting that is on has a speaker with a place, and no quiet turns are due.
LEMMA FreshRound ==
    ASSUME FloorInv', quiet' = <<>>
    PROVE  RoundInv'
<1>1. Size \in Nat /\ Size >= 1 /\ DOMAIN Roster = 1..Size
  BY RosterPlaces
<1>2. CASE speaker' \in Agent
  <2>1. PICK j \in DOMAIN Roster : Roster[j] = speaker'
    BY <1>2, RosterAssumption
  <2>2. Round(j)'
    BY <2>1 DEF Round
  <2> QED
    BY <1>1, <2>2 DEF RoundInv, Size
<1>3. CASE speaker' \notin Agent
  <2>1. pc' = "idle"
    BY <1>3 DEF FloorInv, TypeOK
  <2>2. 1 \in DOMAIN Roster /\ Round(1)'
    BY <1>1, <2>1 DEF Round
  <2> QED
    BY <1>1, <2>2 DEF RoundInv, Size
<1> QED
  BY <1>2, <1>3

\* No turn has been spoken.
LEMMA RoundInit == Init => RoundInv
<1> SUFFICES ASSUME Init PROVE RoundInv
  OBVIOUS
<1>1. Size \in Nat /\ Size >= 1 /\ DOMAIN Roster = 1..Size
  BY RosterPlaces
<1>2. quiet = <<>> /\ pc = "idle"
  BY DEF Init
<1>3. 1 \in DOMAIN Roster /\ Round(1)
  BY <1>1, <1>2 DEF Round
<1> QED
  BY <1>1, <1>2, <1>3 DEF RoundInv, Size

\* A step that keeps the quiet turns, and the speaker unless it interrupts.
LEMMA SameRound ==
    ASSUME RoundInv, quiet' = quiet,
           \/ pc' = "idle"
           \/ pc' = "after" /\ won' # "none"
           \/ /\ speaker' = speaker
              /\ pc' # "idle" /\ (pc' = "turn" \/ won' = "none")
              /\ pc = "turn" \/ (pc = "after" /\ won = "none")
    PROVE  RoundInv'
<1>1. PICK j \in DOMAIN Roster : Round(j)
  BY DEF RoundInv
<1>2. Round(j)'
  BY <1>1 DEF Round
<1> QED
  BY <1>2 DEF RoundInv, Size

\* A quiet turn: the speaker joins those who spoke, and the next one speaks.
LEMMA QuietRound ==
    ASSUME FloorInv, RoundInv, AfterQuietTurn
    PROVE  RoundInv'
<1> DEFINE n == Len(quiet)
           q == Append(quiet, speaker)
<1>1. Size \in Nat /\ Size >= 1 /\ DOMAIN Roster = 1..Size
  BY RosterPlaces
<1>2. PICK j \in DOMAIN Roster : Round(j)
  BY DEF RoundInv
<1>3. /\ speaker \in Agent /\ quiet \in Seq(Agent) /\ speaker = Roster[j]
      /\ speaker' = NextOnRoster(speaker)
      /\ quiet' = Spoke(speaker)
      /\ pc' \in {"turn", "idle"}
  BY <1>2 DEF AfterQuietTurn, AdvanceFloor, NextTurn, BeginTurn, Finish, FloorInv, TypeOK, Round
<1> DEFINE k == IF j < Size THEN j + 1 ELSE 1
<1>4. k \in DOMAIN Roster /\ speaker' = Roster[k]
  BY <1>1, <1>3, NextPlace
<1>5. n \in Nat /\ n <= Size /\ DOMAIN quiet = 1..n
  BY <1>3 DEF RoundInv
<1>6. Len(q) = n + 1 /\ q \in Seq(Agent) /\ DOMAIN q = 1..(n + 1)
  BY <1>3
<1>7. \A d \in 1..(Size - 1) : Back(j, d) = Back(k, d + 1)
  BY <1>1 DEF Back
<1>8. Back(k, 1) = j
  BY <1>1 DEF Back
<1>9. \A i \in 1..(n + 1) : n + 2 - i <= Size => q[i] = Roster[Back(k, n + 2 - i)]
  <2> TAKE i \in 1..(n + 1)
  <2> HAVE n + 2 - i <= Size
  <2>1. CASE i = n + 1
    BY <1>3, <1>5, <1>8, <2>1
  <2>2. CASE i # n + 1
    <3>1. i \in 1..n /\ q[i] = quiet[i]
      BY <1>3, <1>5, <2>2
    <3>2. quiet[i] = Roster[Back(j, n + 1 - i)]
      BY <1>2, <1>5, <3>1 DEF Round
    <3>3. n + 1 - i \in 1..(Size - 1)
      BY <1>1, <1>5, <3>1
    <3>4. Back(j, n + 1 - i) = Back(k, n + 1 - i + 1)
      BY <1>7, <3>3
    <3>5. n + 1 - i + 1 = n + 2 - i
      BY <1>5, <3>1
    <3> QED
      BY <3>1, <3>2, <3>4, <3>5
  <2> QED
    BY <2>1, <2>2
<1> HIDE DEF q, k
<1>10. CASE n < Size
  <2>1. quiet' = q
    BY <1>1, <1>3, <1>5, <1>6, <1>10 DEF Spoke, q, Size
  <2>2. Len(quiet') = n + 1 /\ DOMAIN quiet' = 1..(n + 1)
    BY <1>6, <2>1
  <2>3. \A i \in 1..(n + 1) : n + 2 - i <= Size /\ n + 2 - i = (n + 1) + 1 - i
    BY <1>1, <1>5, <1>10
  <2>4. \A i \in DOMAIN quiet' : quiet'[i] = Roster[Back(k, Len(quiet') + 1 - i)]
    BY <1>9, <2>1, <2>2, <2>3
  <2>5. Round(k)'
    BY <1>4, <2>4 DEF Round, Back, Size
  <2> QED
    BY <1>1, <1>4, <1>5, <1>10, <2>2, <2>5 DEF RoundInv, Size
<1>11. CASE n = Size
  <2>1. quiet' = Tail(q)
    BY <1>1, <1>3, <1>5, <1>6, <1>11 DEF Spoke, q, Size
  <2>2. /\ Len(quiet') = n /\ DOMAIN quiet' = 1..n
        /\ \A i \in 1..n : quiet'[i] = q[i + 1]
    BY <1>1, <1>5, <1>6, <2>1
  <2>3. \A i \in 1..n : /\ i + 1 \in 1..(n + 1)
                         /\ n + 2 - (i + 1) <= Size
                         /\ n + 2 - (i + 1) = n + 1 - i
    BY <1>1, <1>5, <1>11
  <2>4. \A i \in DOMAIN quiet' : quiet'[i] = Roster[Back(k, Len(quiet') + 1 - i)]
    BY <1>9, <2>2, <2>3
  <2>5. Round(k)'
    BY <1>4, <2>4 DEF Round, Back, Size
  <2> QED
    BY <1>1, <1>4, <1>5, <1>11, <2>2, <2>5 DEF RoundInv, Size
<1>12. n < Size \/ n = Size
  <2>1. n \in Nat /\ n <= Size /\ Size \in Nat
    BY <1>1, <1>5
  <2> HIDE DEF n
  <2> QED
    BY <2>1
<1> QED
  BY <1>10, <1>11, <1>12

\* Every step keeps the round; each interruption and each command starts it anew.
LEMMA RoundStep == FloorInv /\ FloorInv' /\ RoundInv /\ [Next]_vars => RoundInv'
<1> SUFFICES ASSUME FloorInv, FloorInv', RoundInv, [Next]_vars PROVE RoundInv'
  OBVIOUS
<1>1. CASE StartMeeting
  BY <1>1, SameRound DEF StartMeeting, commandVars
<1>2. ASSUME NEW n \in 0..MaxTurns, BeginCommand(n) PROVE RoundInv'
  BY <1>2, FreshRound DEF BeginCommand
<1>3. ASSUME NEW requests \in Requests, TakeFloor(requests) PROVE RoundInv'
  <2>1. PICK a \in Winners(requests) : won' = requests[a].intent
    BY <1>3 DEF TakeFloor
  <2>2. won' # "none"
    BY <2>1, WinnerAsked, AskedWithBid DEF Intent
  <2> QED
    BY <1>3, <2>2, SameRound DEF TakeFloor
<1>4. CASE EndStream
  BY <1>4, SameRound DEF EndStream, floorVars, FloorInv, InTurn
<1>5. CASE AfterInterruption \/ AfterInterjection
  BY <1>5, FreshRound DEF AfterInterruption, AfterInterjection
<1>6. CASE AfterQuietTurn
  BY <1>6, QuietRound
<1>7. CASE EndTalk \/ Stop
  BY <1>7, SameRound DEF EndTalk, Stop, Finish
<1>8. CASE UNCHANGED vars
  BY <1>8 DEF vars, floorVars, commandVars, RoundInv, Round, Back, Size
<1> QED
  BY <1>1, <1>2, <1>3, <1>4, <1>5, <1>6, <1>7, <1>8 DEF Next

\* As many quiet turns as there are agents go once round the roster.
LEMMA RoundMeansAll ==
    ASSUME TypeOK, RoundInv
    PROVE  QuietTurnsGoRound
<1> SUFFICES ASSUME Len(quiet) = Len(Roster), NEW a \in Agent
             PROVE  \E i \in DOMAIN quiet : quiet[i] = a
  BY DEF QuietTurnsGoRound
<1>1. Size \in Nat /\ Size >= 1 /\ DOMAIN Roster = 1..Size
  BY RosterPlaces
<1>2. PICK j \in DOMAIN Roster : Round(j)
  BY DEF RoundInv
<1>3. PICK m \in DOMAIN Roster : Roster[m] = a
  BY RosterAssumption
<1> DEFINE d == IF j > m THEN j - m ELSE j - m + Size
           i == Size + 1 - d
<1>4. i \in 1..Size /\ Size + 1 - i = d /\ Back(j, d) = m
  BY <1>1 DEF Back
<1>5. DOMAIN quiet = 1..Size /\ Len(quiet) = Size
  BY DEF TypeOK, Size
<1> HIDE DEF d, i
<1>6. quiet[i] = Roster[Back(j, d)]
  BY <1>2, <1>4, <1>5 DEF Round
<1> QED
  BY <1>3, <1>4, <1>5, <1>6

\* As long as nobody interrupts, each agent speaks in as many turns as there are
\* agents, for any roster and from whichever speaker the quiet turns begin
\* (floor.rotated).
THEOREM RotationCorrect == Spec => []QuietTurnsGoRound
<1>1. Init => FloorInv /\ RoundInv
  BY FloorInit, RoundInit
<1>2. FloorInv /\ RoundInv /\ [Next]_vars => FloorInv' /\ RoundInv'
  BY FloorStep, RoundStep
<1>3. FloorInv /\ RoundInv => QuietTurnsGoRound
  BY RoundMeansAll DEF FloorInv
<1> QED
  BY <1>1, <1>2, <1>3, PTL DEF Spec

=============================================================================
