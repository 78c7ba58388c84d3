----------------------------- MODULE Discussion -----------------------------
(***************************************************************************)
(* The floor of one meeting: who speaks to whom, who may interrupt, and    *)
(* who speaks next.  A turn is run by the controller of meeting-run or, on *)
(* its own, by talk; both hold the meeting lock until they end, and may    *)
(* stop anywhere.  What is left then is what the log holds.                *)
(*                                                                         *)
(* Simplifications.                                                        *)
(*  - A listener's request is a bid: its intent, and the weighted sum of   *)
(*    its urgency, relevance, novelty and confidence (its merit).          *)
(*    Listeners leave estimated_segments and explicitly_addressed alone.   *)
(*  - Scores are in units of 1/6000, in which a score is exact as long as  *)
(*    nobody was granted the floor more than MaxGrants times.              *)
(*  - The gate lets every listener through whom a segment mentions, so any *)
(*    of them may ask at any segment; requests that win nothing, segments  *)
(*    and failed evaluations change nothing here.                          *)
(*  - Both commands are refused unless the meeting is discussing; here it  *)
(*    is, once started.                                                    *)
(***************************************************************************)
EXTENDS Integers, FiniteSets, Sequences

CONSTANTS
    Agent,        \* agent ids: numbers, in the order of the names
    Roster,       \* the agents in the order of the configuration
    First,        \* the configured initial speaker
    Second,       \* and addressee
    Bids,         \* what a listener may ask for
    MaxGrants,    \* bound on the grants to one agent
    MaxTurns,     \* bound on --turns
    Nobody

Intent == {"brief_interjection", "replace_speaker", "replace_addressee"}

ASSUME DiscussionAssumption ==
    /\ Agent \subseteq Nat
    /\ Nobody \notin Agent
    /\ First \in Agent /\ Second \in Agent /\ First # Second
    /\ Bids \subseteq [intent : Intent, merit : 0..5100]
    /\ MaxGrants \in 0..5
    /\ MaxTurns \in Nat \ {0}

ASSUME RosterAssumption ==
    /\ Roster \in Seq(Agent)
    /\ \A a \in Agent : \E i \in DOMAIN Roster : Roster[i] = a
    /\ \A i, j \in DOMAIN Roster : Roster[i] = Roster[j] => i = j

VARIABLES
    \* MeetingState and FloorPolicy, as a resume would rebuild them
    speaker, addressee, returnTo,
    turns,         \* speaking_turns
    consecutive,   \* consecutive_grants
    \* the command in progress
    pc,            \* "idle", in a "turn", or "after" one
    left,          \* turns the controller has left; 0 for talk
    won,           \* the intent that ended the turn
    \* read by the properties only
    which,         \* the first turn of the command, or a later one
    interjector,   \* the winner of the last grant, if it was an interjection
    quiet          \* who spoke in the latest turns that ended in a rotation

floorVars   == <<speaker, addressee, returnTo>>
policyVars  == <<turns, consecutive>>
commandVars == <<pc, left, won, which>>
vars        == <<floorVars, policyVars, commandVars, interjector, quiet>>

Init ==
    /\ speaker = Nobody /\ addressee = Nobody /\ returnTo = Nobody
    /\ turns = [a \in Agent |-> 0]
    /\ consecutive = [a \in Agent |-> 0]
    /\ pc = "idle" /\ left = 0 /\ won = "none" /\ which = "first"
    /\ interjector = Nobody
    /\ quiet = <<>>

TypeOK ==
    /\ {speaker, addressee, returnTo, interjector} \subseteq Agent \cup {Nobody}
    /\ turns \in [Agent -> 0..MaxGrants]
    /\ consecutive \in [Agent -> 0..MaxGrants]
    /\ \A a \in Agent : consecutive[a] <= turns[a]
    /\ pc \in {"idle", "turn", "after"}
    /\ left \in 0..MaxTurns
    /\ won \in Intent \cup {"none"}
    /\ which \in {"first", "later"}
    /\ quiet \in Seq(Agent)
    /\ speaker = Nobody <=> addressee = Nobody
    /\ pc # "idle" => speaker # Nobody

-----------------------------------------------------------------------------
(* Faulty variants of definitions below, each a slip the code could contain. *)

\* A grant that starts the winner's streak anew.
NoCooldown(a) == 0

\* Rotation between speaker and addressee instead of along the roster.
NextIsAddressee(a) == addressee

\* A supersede event that apply does not know.
KeepReturn == UNCHANGED floorVars

\* Near-ties decided by the speaking turns alone.
SpokenLess(a, b) == turns[a] <= turns[b]

\* A restored speaker who is nobody.
LoseSpeaker ==
    /\ speaker' = Nobody
    /\ UNCHANGED <<addressee, returnTo>>

-----------------------------------------------------------------------------
(* FloorPolicy *)

Threshold == 3900     \* grant_threshold .65
TieDelta  == 300      \* tie_delta .05

Clamp(x) == IF x < 0 THEN 0 ELSE IF x > 6000 THEN 6000 ELSE x

\* Weight .10, over 1 + the speaking turns.
Fairness(a) == 600 \div (1 + turns[a])

\* Weight .10, times the streak over max_consecutive_grants, which is 2.
Cooldown(a) == 300 * consecutive[a]

Score(a, bid) == Clamp(bid.merit + Fairness(a) - Cooldown(a))

\* Fewer speaking turns first, then the name.
ComesBefore(a, b) == turns[a] < turns[b] \/ (turns[a] = turns[b] /\ a <= b)

\* Requests are a function from the agents who ask to their bids.
Tied(requests) ==
    {a \in DOMAIN requests : \A b \in DOMAIN requests :
        Score(b, requests[b]) - Score(a, requests[a]) <= TieDelta}

\* select: if the top reaches the threshold, the first of those near it.
Winners(requests) ==
    IF \E a \in DOMAIN requests : Score(a, requests[a]) >= Threshold
    THEN {a \in Tied(requests) : \A b \in Tied(requests) : ComesBefore(a, b)}
    ELSE {}

\* grant
CountGrant(a) ==
    /\ turns' = [turns EXCEPT ![a] = @ + 1]
    /\ consecutive' = [b \in Agent |-> IF b = a THEN consecutive[a] + 1 ELSE 0]

-----------------------------------------------------------------------------
(* run, or the first meeting-run, starts the meeting. *)

BeginTurn(n, w) ==
    /\ pc' = "turn" /\ left' = n /\ won' = "none" /\ which' = w

Finish ==
    /\ pc' = "idle" /\ left' = 0 /\ won' = "none" /\ which' = "first"

StartMeeting ==
    /\ pc = "idle" /\ speaker = Nobody
    /\ speaker' = First /\ addressee' = Second
    /\ UNCHANGED <<returnTo, policyVars, commandVars, interjector, quiet>>

\* meeting-run with n turns, or talk with n = 0.
BeginCommand(n) ==
    /\ pc = "idle" /\ speaker # Nobody
    /\ BeginTurn(n, "first")
    /\ quiet' = <<>>
    /\ UNCHANGED <<floorVars, policyVars, interjector>>

\* The provider fails, or the process is killed.
Stop ==
    /\ pc # "idle"
    /\ Finish
    /\ UNCHANGED <<floorVars, policyVars, interjector, quiet>>

-----------------------------------------------------------------------------
(* run_speaking_turn *)

\* floor.granted
GrantFloor(a, intent) ==
    /\ CountGrant(a)
    /\ speaker' = IF intent = "replace_addressee" THEN speaker ELSE a
    /\ addressee' = IF intent = "replace_addressee" THEN a ELSE addressee
    /\ returnTo' = IF intent = "brief_interjection" THEN speaker ELSE returnTo

\* Some of the listeners ask after a segment, and one of them wins.
TakeFloor(requests) ==
    /\ pc = "turn"
    /\ speaker \notin DOMAIN requests
    /\ \E a \in Winners(requests) :
          /\ turns[a] < MaxGrants
          /\ GrantFloor(a, requests[a].intent)
          /\ won' = requests[a].intent
          /\ interjector' = IF won' = "brief_interjection" THEN a ELSE Nobody
    /\ pc' = "after"
    /\ UNCHANGED <<left, which, quiet>>

\* The stream ends without that.
EndStream ==
    /\ pc = "turn"
    /\ pc' = "after"
    /\ UNCHANGED <<floorVars, policyVars, left, won, which, interjector, quiet>>

-----------------------------------------------------------------------------
(* MeetingController.run after a turn. *)

\* brief.interjection_completed
CompleteInterjection ==
    /\ speaker' = returnTo
    /\ returnTo' = Nobody
    /\ UNCHANGED addressee

\* brief.interjection_superseded
Supersede ==
    /\ returnTo' = Nobody
    /\ UNCHANGED <<speaker, addressee>>

NextOnRoster(a) ==
    LET i == CHOOSE i \in DOMAIN Roster : Roster[i] = a
    IN  Roster[(i % Len(Roster)) + 1]

\* floor.rotated; a roster has two agents at least, as a meeting needs two to
\* start.
AdvanceFloor ==
    /\ speaker' = NextOnRoster(speaker)
    /\ addressee' = speaker
    /\ UNCHANGED returnTo

NextTurn == IF left > 1 THEN BeginTurn(left - 1, "later") ELSE Finish

\* The speakers of the last quiet turns, a round of them at most.
Spoke(a) ==
    LET q == Append(quiet, a)
    IN  IF Len(q) > Len(Roster) THEN Tail(q) ELSE q

AfterInterruption ==
    /\ pc = "after" /\ left > 0
    /\ won # "none"
    /\ IF won = "brief_interjection" \/ returnTo = Nobody
         THEN UNCHANGED floorVars
         ELSE Supersede
    /\ NextTurn
    /\ quiet' = <<>>
    /\ UNCHANGED <<policyVars, interjector>>

AfterInterjection ==
    /\ pc = "after" /\ left > 0
    /\ won = "none" /\ returnTo # Nobody
    /\ CompleteInterjection
    /\ NextTurn
    /\ quiet' = <<>>
    /\ UNCHANGED <<policyVars, interjector>>

AfterQuietTurn ==
    /\ pc = "after" /\ left > 0
    /\ won = "none" /\ returnTo = Nobody
    /\ AdvanceFloor
    /\ NextTurn
    /\ quiet' = Spoke(speaker)
    /\ UNCHANGED <<policyVars, interjector>>

\* talk leaves the floor as the turn left it.
EndTalk ==
    /\ pc = "after" /\ left = 0
    /\ Finish
    /\ UNCHANGED <<floorVars, policyVars, interjector, quiet>>

-----------------------------------------------------------------------------

Requests == UNION {[A -> Bids] : A \in SUBSET Agent}

Next ==
    \/ StartMeeting
    \/ \E n \in 0..MaxTurns : BeginCommand(n)
    \/ \E requests \in Requests : TakeFloor(requests)
    \/ EndStream
    \/ AfterInterruption \/ AfterInterjection \/ AfterQuietTurn \/ EndTalk
    \/ Stop

Spec == Init /\ [][Next]_vars

-----------------------------------------------------------------------------
(* Properties. *)

\* As long as nobody interrupts, the floor goes round: in as many turns as
\* there are agents, each speaks.
QuietTurnsGoRound ==
    Len(quiet) = Len(Roster) =>
        \A a \in Agent : \E i \in DOMAIN quiet : quiet[i] = a

\* Within a run, a speaker waits to get the floor back only while the one who
\* interjected has it, and that is somebody else.
ReturnAwaitsInterjector ==
    pc = "turn" /\ which = "later" /\ returnTo # Nobody =>
        /\ speaker = interjector
        /\ returnTo # speaker

\* README.md: arbitration is deterministic.  Whatever is asked and whoever has
\* spoken, exactly one request wins if one reaches the threshold, else none.
ArbitrationDecides ==
    pc = "turn" => \A requests \in Requests :
        Cardinality(Winners(requests)) =
            IF \E a \in DOMAIN requests : Score(a, requests[a]) >= Threshold
            THEN 1 ELSE 0

\* README.md: the cooldown applies across grants.  After two in a row, an agent
\* wins only over those who have less to say.
CooldownYields ==
    pc = "turn" => \A requests \in Requests : \A a \in Winners(requests) :
        consecutive[a] >= 2 =>
            \A b \in DOMAIN requests \ {a} : requests[b].merit < requests[a].merit

=============================================================================
