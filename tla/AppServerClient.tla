--------------------------- MODULE AppServerClient ---------------------------
(***************************************************************************)
(* The client of codex app-server: one JSON message per line in each       *)
(* direction, one request outstanding, and slots of one turn each.  A slot *)
(* starts a fresh thread and a turn on it, answers the turn's tool calls   *)
(* through the task environment, collects completed items, and ends with   *)
(* the turn's completion, its fixed deadline, a protocol failure, another  *)
(* exception or the cancellation of its caller.                            *)
(*                                                                         *)
(* A thread and its turn are one number, the slot's.  A message carries    *)
(* the turn it claims to be about, the id it bears (response, call, item)  *)
(* and whether the rest of its fields pass the client's validation.  The   *)
(* server is not part of the repository: it answers, runs turns, and may   *)
(* deviate MaxFaults times: with any message the client can tell from the  *)
(* one due, by not reading for a while or for ever, by closing its stdin,  *)
(* or with a name that the client cannot encode when it sends it back.     *)
(*                                                                         *)
(* A send writes to a buffer and then awaits a drain, which returns at     *)
(* once unless too much is waiting to be read; it raises once the pipe is  *)
(* broken, as it is some time after the server closed it or died.          *)
(***************************************************************************)
EXTENDS TaskEnvironment, Naturals, Sequences, FiniteSets

CONSTANTS
    Positions,   \* the position 1..3 of each slot, in the order they run
    ReadLimit,   \* READ_ONLY_TOOL_LIMITS at the positions below 3
    MaxCalls,    \* bound on the tool calls of one turn
    MaxFaults,   \* bound on the server's deviations
    MaxQueue     \* bound on the messages the server is ahead of the client

ASSUME ClientAssumption ==
    /\ MaxCalls \in Nat
    /\ MaxFaults \in Nat
    /\ MaxQueue \in Nat
    /\ ReadLimit \in [1..2 -> Nat]

ASSUME PositionsAssumption == Positions \in Seq(1..3)

Slot == 1..Len(Positions)

\* An error is an exception that no interrupt follows: it is not of the two types
\* run_slot handles, or it is raised by the interrupt itself.
Outcome == {"completed", "deadline", "protocol", "error", "cancelled"}

VARIABLES
    pc,           \* where run_slot, or initialize, is
    drain,        \* whether it awaits the drain of what it sent
    slot,         \* the slot under way
    nextId,       \* the client's request counter
    calls,        \* call ids of the active turn
    answers,      \* ids of the final answers among its completed items
    active,       \* whether the client knows of the turn
    interrupted,  \* whether _interrupt_once has been called for it
    stop,         \* the outcome that awaits the tool call, or the drain
    results,      \* the outcome of each slot that ended
    toClient, toServer,
    pipe,         \* the server's stdin and the buffer before it
    turn,         \* the server's turn of each slot
    faults,       \* deviations so far
    asked,        \* tool calls each turn has made
    answered,     \* replies to them the client has sent
    finals,       \* final answers each turn has given before it ended
    forwarded,    \* tools forwarded to the task environment in each slot
    interrupts    \* turn/interrupt requests sent for each slot

local == <<pc, drain, slot, nextId, calls, answers, active, interrupted, stop, results>>
wire == <<toClient, toServer, pipe>>
server == <<turn, asked, finals>>
ledger == <<answered, forwarded, interrupts>>
clientVars == <<local, wire, server, faults, ledger, execVars>>

Message == [kind : {"result", "read", "exec", "request", "native", "usage", "answer", "done", "odd"},
            id : Nat, turn : Nat, ok : {"good", "bad"}]

Msg(kind, id, t, ok) == [kind |-> kind, id |-> id, turn |-> t, ok |-> ok]

ServerRequests == {"read", "exec", "request"}
Tools == {"read", "exec"}
Running == {"begin", "thread", "turn", "listen", "exec", "refusing", "failing", "leaving"}

ClientInit ==
    /\ ExecInit
    /\ pc = "new" /\ drain = "no" /\ slot = 0 /\ nextId = 0
    /\ calls = {} /\ answers = {}
    /\ active = "no" /\ interrupted = "no" /\ stop = "none"
    /\ results = <<>>
    /\ toClient = <<>> /\ toServer = <<>> /\ pipe = "clear"
    /\ turn = [k \in Slot |-> "none"]
    /\ faults = 0
    /\ asked = [k \in Slot |-> 0] /\ answered = [k \in Slot |-> 0]
    /\ finals = [k \in Slot |-> 0] /\ interrupts = [k \in Slot |-> 0]
    /\ forwarded = [k \in Slot |-> <<>>]

ClientTypeOK ==
    /\ ExecTypeOK
    /\ pc \in {"new", "init", "ready", "over"} \cup Running
    /\ drain \in {"no", "yes"}
    /\ slot \in 0..Len(Positions)
    /\ nextId \in Nat
    /\ calls \subseteq Nat /\ answers \subseteq Nat
    /\ active \in {"no", "yes"} /\ interrupted \in {"no", "yes"}
    /\ stop \in {"none", "deadline", "protocol", "cancelled"}
    /\ results \in Seq([outcome : Outcome, active : {"no", "yes"}])
    /\ pipe \in {"clear", "backed", "broken"}
    /\ toClient \in Seq(Message)
    /\ toServer \in Seq([kind : STRING, id : Nat, turn : Nat])
    /\ turn \in [Slot -> {"none", "running", "ended"}]
    /\ faults \in Nat
    /\ asked \in [Slot -> Nat] /\ answered \in [Slot -> Nat]
    /\ finals \in [Slot -> Nat] /\ interrupts \in [Slot -> Nat]
    /\ forwarded \in [Slot -> Seq(Tools)]

Request(kind, id) == [kind |-> kind, id |-> id, turn |-> slot]
\* An answer to a server request.  Which one is clear from the order.
Reply(t) == [kind |-> "reply", id |-> 0, turn |-> t]

-----------------------------------------------------------------------------
(* Faulty variants of definitions below, each a slip the code could contain. *)

\* A completion whose status is not looked at.
AnyCompletion(m) == m.kind = "done" /\ m.turn = slot /\ Cardinality(answers) = 1

\* A budget that is compared before the call is counted.
OverLimitBefore(m) == Positions[slot] < 3 /\ Cardinality(calls) > ReadLimit[Positions[slot]]

\* Handlers that interrupt without looking whether one did already.
AlwaysInterrupts == active = "yes"

-----------------------------------------------------------------------------
(* What the client makes of a message. *)

\* A message _request refuses while it waits for the response nextId - 1: a
\* server request, a usage or native-capability notification, the response to
\* another request, an error, or a result that validation refuses.
OutOfPhase(m) ==
    \/ m.kind \in ServerRequests \cup {"usage", "native"}
    \/ m.kind = "result" /\ (m.id # nextId - 1 \/ m.ok = "bad")

\* A notification _request drops: items and completions of earlier turns.
Dropped(m) == m.kind \in {"answer", "done"}

\* The checks of a tool call: its scope, its call id, its arguments, and that
\* exec is offered in this slot.
ToolAllowed(m) ==
    /\ m.kind \in Tools
    /\ m.turn = slot
    /\ m.id \notin calls
    /\ m.ok = "good"
    /\ m.kind = "exec" => Positions[slot] = 3

\* The read-only budget, of which the call itself is already a part.
OverLimit(m) ==
    Positions[slot] < 3 /\ Cardinality(calls \cup {m.id}) > ReadLimit[Positions[slot]]

ItemAccepted(m) == m.kind = "answer" /\ m.turn = slot /\ m.id \notin answers

CompletionAccepted(m) ==
    /\ m.kind = "done"
    /\ m.turn = slot
    /\ m.ok = "good"
    /\ Cardinality(answers) = 1

UsageAccepted(m) == m.kind = "usage" /\ m.turn = slot /\ m.ok = "good"

\* A message that ends an active turn as a protocol failure.
TurnViolation(m) ==
    m.kind # "odd" /\ ~ (ToolAllowed(m) \/ ItemAccepted(m) \/ CompletionAccepted(m) \/ UsageAccepted(m))

-----------------------------------------------------------------------------
(* Sending. *)

\* The server deviates.
Falters == faults < MaxFaults /\ faults' = faults + 1

\* JsonlStreamTransport.send: what is written while the server does not read is
\* backed up, and the drain may have to wait for it.
Writes(messages) ==
    /\ pipe # "broken"
    /\ toServer' = toServer \o messages
    /\ \/ pipe = "clear" /\ pipe' = "clear" /\ drain' = "no" /\ UNCHANGED faults
       \/ /\ pipe' = "backed" /\ drain' \in {"no", "yes"}
          /\ IF pipe = "clear" THEN Falters ELSE UNCHANGED faults

\* The encoder refuses the message, or it is beyond the cap: a protocol failure.
Unsendable == Falters /\ UNCHANGED <<toServer, pipe>> /\ drain' = "no"

\* The drain raises ConnectionResetError or BrokenPipeError.
SendBreaks == pipe = "broken" /\ UNCHANGED <<toServer, pipe, faults>> /\ drain' = "no"

SendsNothing == UNCHANGED <<toServer, pipe, faults>> /\ drain' = "no"

\* run_slot ends, or initialize raises.
EndSlot(outcome) ==
    /\ results' = IF slot = 0 THEN results
                  ELSE Append(results, [outcome |-> outcome, active |-> active])
    /\ pc' = IF outcome = "completed" /\ slot < Len(Positions) THEN "ready" ELSE "over"
    /\ stop' = "none"

\* A protocol failure is on its way to run_slot's handler.
Fails == pc' = "failing" /\ UNCHANGED <<stop, results>>

\* _interrupt_once has something to do.
MayInterrupt == active = "yes" /\ interrupted = "no"

\* It is awaited at a place, for the sake of an outcome.
Interrupt(at, outcome) ==
    /\ nextId' = nextId + 1
    /\ interrupted' = "yes"
    /\ \/ /\ Writes(<<Request("interrupt", nextId)>>)
          /\ pc' = at /\ stop' = outcome
          /\ interrupts' = [interrupts EXCEPT ![slot] = @ + 1]
          /\ UNCHANGED results
       \/ Unsendable /\ EndSlot("error") /\ UNCHANGED interrupts
       \/ SendBreaks /\ EndSlot("error") /\ UNCHANGED interrupts

Ends(outcome) == EndSlot(outcome) /\ SendsNothing /\ UNCHANGED <<nextId, interrupted, interrupts>>

\* The handlers of run_slot, outside the scope of its deadline.
GivesUp(outcome) == IF MayInterrupt THEN Interrupt("leaving", outcome) ELSE Ends(outcome)

\* _request, as far as the message sent.
SendsRequest(kind, at) ==
    /\ nextId' = nextId + 1
    /\ \/ Writes(<<Request(kind, nextId)>>) /\ pc' = at /\ UNCHANGED <<stop, results>>
       \/ Unsendable /\ Fails
       \/ SendBreaks /\ EndSlot("error")

\* A tool call is answered and the turn goes on.
AnswersTool(t) ==
    /\ \/ /\ Writes(<<Reply(t)>>)
          /\ pc' = "listen"
          /\ answered' = [answered EXCEPT ![slot] = @ + 1]
          /\ UNCHANGED <<stop, results>>
       \/ Unsendable /\ Fails /\ UNCHANGED answered
       \/ SendBreaks /\ EndSlot("error") /\ UNCHANGED answered
    /\ UNCHANGED <<nextId, interrupted, interrupts>>

\* A request the client refuses is answered before that is a failure; one whose id
\* is not an id is not answered.
RefusesRequest(t) ==
    /\ \/ Writes(<<Reply(t)>>) /\ pc' = "refusing" /\ UNCHANGED <<stop, results>>
       \/ Unsendable /\ Fails
       \/ SendBreaks /\ EndSlot("error")
    /\ UNCHANGED <<nextId, interrupted, interrupts>>

FailsAtOnce == Fails /\ SendsNothing /\ UNCHANGED <<nextId, interrupted, interrupts>>

-----------------------------------------------------------------------------
(* The client.  Every step that receives takes the head of toClient. *)

Took(m) ==
    /\ drain = "no"
    /\ toClient # <<>>
    /\ m = Head(toClient)
    /\ toClient' = Tail(toClient)

\* What a step leaves alone that sends and ends slots.
rest == <<slot, calls, answers, active, server, forwarded>>

Initialize ==
    /\ pc = "new"
    /\ SendsRequest("initialize", "init")
    /\ UNCHANGED <<rest, interrupted, toClient, answered, interrupts, execVars>>

BeginSlot ==
    /\ pc = "ready" /\ drain = "no"
    /\ slot < Len(Positions)
    /\ pc' = "begin"
    /\ slot' = slot + 1
    /\ calls' = {} /\ answers' = {} /\ active' = "no" /\ interrupted' = "no"
    /\ UNCHANGED <<drain, nextId, stop, results, wire, server, faults, ledger, execVars>>

\* thread/start of the slot.
StartsThread ==
    /\ pc = "begin"
    /\ SendsRequest("thread", "thread")
    /\ UNCHANGED <<rest, interrupted, toClient, answered, interrupts, execVars>>

\* The response due arrives: the initialized notification is sent, the turn is
\* started on the thread, or the turn is active.
ResponseAccepted(m) ==
    /\ Took(m)
    /\ m.kind = "result" /\ ~ OutOfPhase(m)
    /\ \/ /\ pc = "init"
          /\ \/ Writes(<<Request("initialized", 0)>>) /\ pc' = "ready" /\ UNCHANGED <<stop, results>>
             \/ SendBreaks /\ EndSlot("error")
          /\ UNCHANGED <<nextId, active>>
       \/ pc = "thread" /\ SendsRequest("turn", "turn") /\ UNCHANGED active
       \/ /\ pc = "turn"
          /\ pc' = "listen" /\ active' = "yes"
          /\ SendsNothing
          /\ UNCHANGED <<nextId, stop, results>>
    /\ UNCHANGED <<slot, calls, answers, interrupted, server, ledger, execVars>>

NotificationDropped(m) ==
    /\ pc \in {"init", "thread", "turn"}
    /\ Took(m)
    /\ Dropped(m)
    /\ UNCHANGED <<local, toServer, pipe, server, faults, ledger, execVars>>

\* A request fails before the turn is active.
RequestFails(m) ==
    /\ pc \in {"init", "thread", "turn"}
    /\ Took(m)
    /\ OutOfPhase(m)
    /\ IF m.kind \in ServerRequests THEN RefusesRequest(m.turn) ELSE FailsAtOnce
    /\ UNCHANGED <<rest, answered, execVars>>

\* What a message raises is not a protocol failure: a number or a nesting beyond
\* what json.loads takes, or an argument of a tool call that has no UTF-8 form.
MessageRaises(m) ==
    /\ pc \in {"init", "thread", "turn", "listen"}
    /\ Took(m)
    /\ m.kind = "odd"
    /\ Ends("error")
    /\ UNCHANGED <<rest, answered, execVars>>

\* A tool call within the budget is forwarded to the task environment, which
\* may reject it at once (an invalid request, no ssh): then the reply is sent.
ToolForwarded(m) ==
    /\ pc = "listen"
    /\ Took(m)
    /\ ToolAllowed(m)
    /\ ~ OverLimit(m)
    /\ calls' = calls \cup {m.id}
    /\ forwarded' = [forwarded EXCEPT ![slot] = Append(@, m.kind)]
    /\ \/ /\ ExecSpawns
          /\ pc' = "exec"
          /\ UNCHANGED <<drain, nextId, interrupted, stop, results, toServer, pipe, faults, answered,
                         interrupts>>
       \/ AnswersTool(m.turn) /\ UNCHANGED execVars
    /\ UNCHANGED <<slot, answers, active, server>>

\* Beyond the budget the client answers by itself.
ToolRefused(m) ==
    /\ pc = "listen"
    /\ Took(m)
    /\ ToolAllowed(m)
    /\ OverLimit(m)
    /\ calls' = calls \cup {m.id}
    /\ AnswersTool(m.turn)
    /\ UNCHANGED <<slot, answers, active, server, forwarded, execVars>>

\* The command has ended, timed out or failed, and the call is answered.
ToolAnswered ==
    /\ pc = "exec"
    /\ stop = "none"
    /\ ExecEnds({"waiting"} \cup Stopping)
    /\ AnswersTool(slot)
    /\ UNCHANGED <<rest, toClient>>

NotificationRecorded(m) ==
    /\ pc = "listen"
    /\ Took(m)
    /\ ItemAccepted(m) \/ UsageAccepted(m)
    /\ answers' = IF ItemAccepted(m) THEN answers \cup {m.id} ELSE answers
    /\ UNCHANGED <<pc, drain, slot, nextId, calls, active, interrupted, stop, results, toServer,
                   pipe, server, faults, ledger, execVars>>

TurnCompletes(m) ==
    /\ pc = "listen"
    /\ Took(m)
    /\ CompletionAccepted(m)
    /\ Ends("completed")
    /\ UNCHANGED <<rest, answered, execVars>>

\* A forbidden request and an invalid tool call are answered first.
TurnFails(m) ==
    /\ pc = "listen"
    /\ Took(m)
    /\ TurnViolation(m)
    /\ IF m.kind \in ServerRequests THEN RefusesRequest(m.turn) ELSE FailsAtOnce
    /\ UNCHANGED <<rest, answered, execVars>>

\* Whoever refused a request interrupts an active turn himself, within the scope
\* of the deadline, and then fails.
RefusalGoesOn ==
    /\ pc = "refusing" /\ drain = "no"
    /\ IF MayInterrupt THEN Interrupt("refusing", "none") ELSE FailsAtOnce
    /\ UNCHANGED <<rest, toClient, answered, execVars>>

\* The handler of protocol failures.
FailureHandled ==
    /\ pc = "failing"
    /\ GivesUp("protocol")
    /\ UNCHANGED <<rest, toClient, answered, execVars>>

\* The interrupt has been drained.
Leaves ==
    /\ pc = "leaving" /\ drain = "no"
    /\ Ends(stop)
    /\ UNCHANGED <<rest, toClient, answered, execVars>>

\* stdout ends because the server is gone.
TransportEnds ==
    /\ pc \in {"init", "thread", "turn", "listen"} /\ drain = "no"
    /\ toClient = <<>>
    /\ FailsAtOnce
    /\ UNCHANGED <<rest, toClient, answered, execVars>>

\* timeout_at or a caller cancels run_slot while it awaits a tool call, which
\* is stopped first; a call already being stopped ends the slot at once.
StopsTool(reason) ==
    /\ pc = "exec"
    /\ call \in {"waiting", "stop_timeout"}
    /\ ExecCancelled
    /\ stop' = reason
    /\ UNCHANGED <<pc, drain, nextId, interrupted, results, wire, faults, ledger, rest>>

LeavesTool(reason) ==
    /\ pc = "exec"
    /\ call \in {"stop_cancel", "stop_error"}
    /\ ExecCancelled
    /\ IF "cancelled" \in {stop, reason} THEN Ends("cancelled") ELSE GivesUp("deadline")
    /\ UNCHANGED <<rest, toClient, answered>>

\* The tool call has been stopped.
ToolUnwinds ==
    /\ pc = "exec"
    /\ stop # "none"
    /\ ExecEnds(Stopping)
    /\ IF stop = "cancelled" THEN Ends("cancelled") ELSE GivesUp("deadline")
    /\ UNCHANGED <<rest, toClient, answered>>

\* Where run_slot awaits the server, to say something or to read.
AwaitsServer == pc \in {"thread", "turn", "listen"} \/ (pc = "refusing" /\ drain = "yes")

\* The deadline does not cover the drain of the interrupt that it causes.
Deadline ==
    \/ stop # "deadline" /\ StopsTool("deadline")
    \/ stop # "deadline" /\ LeavesTool("deadline")
    \/ /\ AwaitsServer
       /\ GivesUp("deadline")
       /\ UNCHANGED <<rest, toClient, answered, execVars>>

\* wait_for around the tool call has a timer of its own for the same instant:
\* it may fire alone, before timeout_at, or after it.
ToolTimer ==
    /\ pc = "exec"
    /\ \/ /\ call \in {"waiting", "stop_timeout"}
          /\ ExecCancelled
          /\ UNCHANGED <<local, wire, server, faults, ledger>>
       \/ stop = "deadline" /\ LeavesTool("deadline")

\* The caller is cancelled: nothing is interrupted.
SlotCancelled ==
    \/ stop # "cancelled" /\ StopsTool("cancelled")
    \/ LeavesTool("cancelled")
    \/ /\ AwaitsServer \/ (pc = "leaving" /\ drain = "yes")
       /\ Ends("cancelled")
       /\ UNCHANGED <<rest, toClient, answered, execVars>>

-----------------------------------------------------------------------------
(* The server. *)

Tells(m) == toClient' = Append(toClient, m)

\* It reads a request: it answers, and turn/start makes the turn run; after an
\* interrupt the turn ends as interrupted.
ServerAnswers ==
    /\ toServer # <<>>
    /\ toServer' = Tail(toServer)
    /\ LET m == Head(toServer)
           answer == Msg("result", m.id, m.turn, "good")
       IN \/ m.kind \in {"reply", "initialized"} /\ UNCHANGED <<toClient, turn>>
          \/ m.kind \in {"initialize", "thread"} /\ Tells(answer) /\ UNCHANGED turn
          \/ /\ m.kind = "turn"
             /\ Tells(answer)
             /\ turn' = [turn EXCEPT ![m.turn] = "running"]
          \/ /\ m.kind = "interrupt"
             /\ toClient' = toClient
                   \o (IF turn[m.turn] = "running" THEN <<Msg("done", 0, m.turn, "bad")>> ELSE <<>>)
                   \o <<answer>>
             /\ turn' = [turn EXCEPT ![m.turn] = "ended"]
    /\ UNCHANGED <<local, pipe, faults, asked, finals, ledger, execVars>>

ServerCalls(k, tool) ==
    /\ turn[k] = "running"
    /\ asked[k] < MaxCalls
    /\ asked' = [asked EXCEPT ![k] = @ + 1]
    /\ Tells(Msg(tool, asked'[k], k, "good"))
    /\ UNCHANGED <<local, toServer, pipe, turn, faults, finals, ledger, execVars>>

ServerConcludes(k) ==
    /\ turn[k] = "running"
    /\ finals[k] = 0
    /\ finals' = [finals EXCEPT ![k] = 1]
    /\ Tells(Msg("answer", 1, k, "good"))
    /\ UNCHANGED <<local, toServer, pipe, turn, faults, asked, ledger, execVars>>

ServerCompletes(k) ==
    /\ turn[k] = "running"
    /\ finals[k] = 1
    /\ turn' = [turn EXCEPT ![k] = "ended"]
    /\ Tells(Msg("done", 0, k, "good"))
    /\ UNCHANGED <<local, toServer, pipe, faults, asked, finals, ledger, execVars>>

\* A message that is not due: about another turn, repeated, refused by the
\* checks of its fields, of a forbidden kind, or a second final answer.
Deviation(k) ==
    {Msg(kind, 0, k, "bad") : kind \in {"result", "read", "request", "native", "usage", "done", "odd"}}
    \cup {Msg("usage", 0, k, "good"), Msg("exec", 1, k, "good")}
    \cup {Msg("answer", i, k, "good") : i \in 1..2}

ServerDeviates(k, m) ==
    /\ Falters
    /\ turn[k] # "none"
    /\ Tells(m)
    /\ asked' = IF m.kind \in Tools /\ turn[k] = "running" THEN [asked EXCEPT ![k] = @ + 1] ELSE asked
    /\ finals' = IF m.kind = "answer" /\ turn[k] = "running" THEN [finals EXCEPT ![k] = @ + 1] ELSE finals
    /\ UNCHANGED <<local, toServer, pipe, turn, ledger, execVars>>

ServerStep ==
    \/ ServerAnswers
    \/ /\ Len(toClient) < MaxQueue
       /\ \E k \in Slot :
                       \/ \E tool \in Tools : ServerCalls(k, tool)
                       \/ ServerConcludes(k)
                       \/ ServerCompletes(k)
                       \/ \E m \in Deviation(k) : ServerDeviates(k, m)

ExecStep ==
    /\ SshExits \/ ExecGivesUp \/ GraceEnds
    /\ UNCHANGED <<local, wire, server, faults, ledger>>

Receives ==
    \E m \in {Head(toClient) : i \in 1..Len(toClient)} :
        \/ ResponseAccepted(m) \/ NotificationDropped(m) \/ RequestFails(m)
        \/ MessageRaises(m)
        \/ ToolForwarded(m) \/ ToolRefused(m) \/ NotificationRecorded(m)
        \/ TurnCompletes(m) \/ TurnFails(m)

Initializes == Initialize \/ Receives \/ RefusalGoesOn \/ FailureHandled

RunsSlot ==
    \/ BeginSlot \/ StartsThread \/ Receives \/ ToolAnswered \/ ToolUnwinds
    \/ RefusalGoesOn \/ FailureHandled \/ Leaves

\* It reads some or all of what is backed up.
PipeFlows ==
    /\ pipe = "backed"
    /\ \/ pipe' = "clear"
       \/ drain = "yes" /\ UNCHANGED pipe
    /\ drain' = "no"
    /\ UNCHANGED <<pc, nextId, interrupted, stop, results, toClient, toServer, faults, ledger, rest,
                   execVars>>

\* It has died, or deviates by closing its stdin, and the client notices: a drain
\* raises.
PipeBreaks(died) ==
    /\ pipe # "broken"
    /\ pipe' = "broken"
    /\ drain' = "no"
    /\ IF died THEN UNCHANGED faults ELSE Falters
    /\ IF drain = "yes" THEN EndSlot("error") ELSE UNCHANGED <<pc, stop, results>>
    /\ UNCHANGED <<nextId, interrupted, toClient, toServer, ledger, rest, execVars>>

-----------------------------------------------------------------------------
(* What a slot's result means. *)

\* Slot: a result is returned only for a turn that the server itself ended with
\* exactly one final answer, all of whose tool calls have been answered, and
\* that was never interrupted.
ResultIsWholeTurn ==
    \A k \in DOMAIN results : results[k].outcome = "completed" =>
        /\ turn[k] = "ended"
        /\ finals[k] = 1
        /\ asked[k] = answered[k]
        /\ interrupts[k] = 0

\* A turn the client knows of is interrupted exactly once when the deadline or a
\* protocol failure ends its slot, not twice because two handlers do it, and never
\* when it completed.  Nothing promises that of a slot that ends with another
\* exception or a cancellation: its turn may be left running, but then it is the
\* trial's last, and no turn ever runs beside another slot's.
GivenUpTurnIsInterrupted ==
    /\ \A k \in Slot : interrupts[k] <= 1
    /\ \A k \in DOMAIN results :
          /\ results[k].active = "no" \/ results[k].outcome = "completed" => interrupts[k] = 0
          /\ results[k].active = "yes" /\ results[k].outcome \in {"deadline", "protocol"} =>
                interrupts[k] = 1
    /\ \A k \in Slot : turn[k] = "running" => k = slot

\* The slots that only investigate forward at most their budget of reads, and
\* nothing that executes, whatever the server asks for and however it repeats.
InvestigationIsBounded ==
    \A k \in Slot : Positions[k] < 3 =>
        /\ Len(forwarded[k]) <= ReadLimit[Positions[k]]
        /\ \A i \in DOMAIN forwarded[k] : forwarded[k][i] = "read"

=============================================================================
