------------------------- MODULE AppServerTrialProofs -------------------------
(***************************************************************************)
(* Safety of the app-server trial, for any slots, servers and processes.   *)
(*                                                                         *)
(* HostInv says what is left to undo at each stage of close; CallInv says  *)
(* where the ssh process of a tool call may be once run_slot is not in the *)
(* call any more, which rests on the client's BooksInv.  The close, the    *)
(* client and the ssh process only meet in stage, pc and call, so the      *)
(* invariants are proved one by one.                                       *)
(***************************************************************************)
EXTENDS AppServerClientProofs

\* What is done by the time each stage of close is reached, unless close has a
\* cleanup error: the process is reaped, its stderr not drained, the jail gone.
\* Before close begins nothing has been left, and after it only in order or
\* because a shielded wait was cancelled.
HostInv ==
    /\ stage \in Entering \cup {"body"} => left = "no"
    /\ left = "yes" => stage = "left" \/ closer = "background"
    /\ stage \in {"stderr", "jail", "left"} => process \in {"none", "dead"} \/ error = "yes"
    /\ stage \in {"jail", "left"} => stderr # "draining" \/ error = "yes"
    /\ stage = "left" => jail = "none" \/ error = "yes"

\* Nothing has been set up yet.
LEMMA HostInit == Init => HostInv
BY DEF Init, HostInv, Entering

\* The steps of the client, the server and the ssh process leave the host alone.
LEMMA HostStep == ASSUME HostInv, [Next]_vars PROVE HostInv'
<1> USE DEF HostInv, Entering
<1>1. CASE UNCHANGED hostVars
  BY <1>1 DEF hostVars
<1>2. CASE Prepares \/ Spawns \/ Initialized \/ BodyEnds
  BY <1>2 DEF Prepares, Spawns, Initialized, BodyEnds, StartFails
<1>3. CASE CloseStep
  BY <1>3 DEF CloseStep, Terminates, Reaps, AwaitsStderr, RemovesJail
<1>4. CASE Cancel
  <2>1. CASE CancelEntering
    BY <2>1 DEF CancelEntering
  <2>2. CASE CancelBody
    BY <2>2 DEF CancelBody
  <2>3. CASE CancelShielded
    BY <2>3 DEF CancelShielded, Closing
  <2>4. CASE CancelClose
    BY <2>4 DEF CancelClose
  <2> QED
    BY <1>4, <2>1, <2>2, <2>3, <2>4 DEF Cancel
<1>5. CASE ProcessExits \/ StderrEnds
  BY <1>5 DEF ProcessExits, StderrEnds
<1>6. CASE PipeMoves \/ ServerWorks \/ ClientWorks \/ TimePasses \/ ToolTimePasses \/ ExecWorks
  BY <1>1, <1>6 DEF PipeMoves, ServerWorks, ClientWorks, TimePasses, ToolTimePasses, ExecWorks
<1>7. CASE UNCHANGED vars
  BY <1>1, <1>7 DEF vars
<1> QED
  BY <1>2, <1>3, <1>4, <1>5, <1>6, <1>7 DEF Next

-----------------------------------------------------------------------------
(* The tool call. *)

\* A slot that was ended by its deadline or by a cancellation, or whose interrupt
\* failed.
CutShort ==
    \E k \in DOMAIN results :
        \/ results[k].outcome \in {"cancelled", "deadline"}
        \/ results[k].outcome = "error" /\ interrupted = "yes"

\* Only while run_slot awaits a tool call may the call wait or be stopping, and no
\* drain is awaited then; a process that is left behind is one whose slot was cut
\* short, or is being interrupted because of its deadline.
CallInv ==
    /\ pc = "exec" => drain = "no"
    /\ pc # "exec" => call \in {"idle", "detached", "abandoned"}
    /\ pc # "exec" /\ call # "idle" =>
          (pc = "over" /\ CutShort) \/ (pc = "leaving" /\ stop = "deadline")

\* No slot runs before the body, and none is in a call or an interrupt after it.
StageInv ==
    /\ stage \in Entering => slot = 0
    /\ stage \notin Entering \cup {"body"} => pc \notin {"exec", "leaving"}

\* No slot has run yet.
LEMMA CallInit == Init => CallInv /\ StageInv
BY DEF Init, ClientInit, ExecInit, CallInv, StageInv

\* What a step may do to the tool call and to the place run_slot is at.
Waits == UNCHANGED <<pc, call, stop, results, interrupted>> /\ drain' \in {"no", drain}
Outside == pc \notin {"exec", "leaving", "over"} /\ UNCHANGED call /\ pc' # "exec"
Held == pc' = "exec" /\ drain' = "no"
Unwound == call' = "idle" /\ pc' # "exec"
Cut == /\ call' \in {"detached", "abandoned"}
       /\ (pc' = "over" /\ CutShort') \/ (pc' = "leaving" /\ stop' = "deadline")
Left == pc = "leaving" /\ UNCHANGED call /\ pc' = "over" /\ (stop = "deadline" => CutShort')

CallMoves == Waits \/ Outside \/ Held \/ Unwound \/ Cut \/ Left

\* Each keeps CallInv.
LEMMA CallMovesKeep == ASSUME CallInv, CallMoves PROVE CallInv'
<1> USE DEF CallInv
<1>1. CASE Waits
  BY <1>1 DEF Waits, CutShort
<1>2. CASE Outside
  BY <1>2 DEF Outside
<1>3. CASE Held
  BY <1>3 DEF Held
<1>4. CASE Unwound
  BY <1>4 DEF Unwound
<1>5. CASE Cut
  BY <1>5 DEF Cut
<1>6. CASE Left
  BY <1>6 DEF Left
<1> QED
  BY <1>1, <1>2, <1>3, <1>4, <1>5, <1>6 DEF CallMoves

\* The end of a slot that was cut short.
LEMMA EndCuts ==
    ASSUME BooksInv, slot \in Slot, NEW outcome, EndSlot(outcome),
           outcome \in {"cancelled", "deadline"} \/ (outcome = "error" /\ interrupted' = "yes")
    PROVE  pc' = "over" /\ CutShort'
<1> DEFINE new == [outcome |-> outcome, active |-> active]
<1>1. results' = Append(results, new) /\ pc' = "over"
  BY PositionsAssumption DEF EndSlot, Slot
<1>2. new \in SlotResult /\ new.outcome = outcome /\ results \in Seq(SlotResult)
  BY DEF BooksInv, SlotInv, ResultInv, SlotResult, Outcome
<1> HIDE DEF new
<1>3. Len(results) + 1 \in DOMAIN results' /\ results'[Len(results) + 1] = new
  BY <1>1, <1>2
<1> QED
  BY <1>1, <1>2, <1>3 DEF CutShort

\* What sends and ends slots does not begin a tool call.
LEMMA NoCallBegins ==
    ASSUME \/ \E outcome : EndSlot(outcome) \/ Ends(outcome) \/ GivesUp(outcome)
           \/ \E kind, at : SendsRequest(kind, at) /\ at # "exec"
           \/ \E t : AnswersTool(t) \/ RefusesRequest(t)
           \/ FailsAtOnce
           \/ \E at, outcome : Interrupt(at, outcome) /\ at # "exec"
    PROVE  pc' # "exec"
<1>1. ASSUME NEW outcome, EndSlot(outcome) PROVE pc' # "exec"
  BY <1>1 DEF EndSlot
<1>2. ASSUME Fails PROVE pc' # "exec"
  BY <1>2 DEF Fails
<1>3. ASSUME NEW at, NEW outcome, Interrupt(at, outcome), at # "exec" PROVE pc' # "exec"
  BY <1>1, <1>3 DEF Interrupt
<1>4. ASSUME NEW outcome, GivesUp(outcome) PROVE pc' # "exec"
  BY <1>1, <1>3, <1>4 DEF GivesUp, Ends
<1>5. ASSUME NEW kind, NEW at, SendsRequest(kind, at), at # "exec" PROVE pc' # "exec"
  BY <1>1, <1>2, <1>5 DEF SendsRequest
<1>6. ASSUME NEW t, AnswersTool(t) PROVE pc' # "exec"
  BY <1>1, <1>2, <1>6 DEF AnswersTool
<1>7. ASSUME NEW t, RefusesRequest(t) PROVE pc' # "exec"
  BY <1>1, <1>2, <1>7 DEF RefusesRequest
<1> QED
  BY <1>1, <1>2, <1>3, <1>4, <1>5, <1>6, <1>7 DEF Ends, FailsAtOnce

\* A tool call that is being left: its slot ends, or is interrupted first.
LEMMA LeavingCuts ==
    ASSUME BooksInv, pc = "exec", NEW outcome \in {"cancelled", "deadline"},
           Ends(outcome) \/ (outcome = "deadline" /\ GivesUp(outcome))
    PROVE  (pc' = "over" /\ CutShort') \/ (pc' = "leaving" /\ stop' = "deadline")
<1>1. slot \in Slot
  BY DEF BooksInv, SlotInv, Live
<1>2. CASE Ends(outcome)
  BY <1>1, <1>2, EndCuts DEF Ends
<1>3. CASE outcome = "deadline" /\ Interrupt("leaving", outcome)
  <2>1. CASE EndSlot("error")
    BY <1>1, <1>3, <2>1, EndCuts DEF Interrupt
  <2> QED
    BY <1>3, <2>1 DEF Interrupt
<1> QED
  BY <1>2, <1>3 DEF GivesUp

\* A message is taken outside a tool call.
LEMMA ReceivesCallMoves == ASSUME Receives PROVE CallMoves
<1> PICK m : \/ ResponseAccepted(m) \/ NotificationDropped(m) \/ RequestFails(m)
             \/ MessageRaises(m)
             \/ ToolForwarded(m) \/ ToolRefused(m) \/ NotificationRecorded(m)
             \/ TurnCompletes(m) \/ TurnFails(m)
  BY DEF Receives
<1> USE DEF CallMoves
<1>1. CASE ResponseAccepted(m)
  <2>1. pc \in {"init", "thread", "turn"} /\ UNCHANGED call
    BY <1>1 DEF ResponseAccepted, execVars
  <2>2. pc' # "exec"
    BY <1>1, NoCallBegins DEF ResponseAccepted
  <2> QED
    BY <2>1, <2>2 DEF Outside
<1>2. CASE NotificationDropped(m)
  BY <1>2 DEF NotificationDropped, local, execVars, Waits
<1>3. CASE RequestFails(m)
  BY <1>3, NoCallBegins DEF RequestFails, execVars, Outside
<1>4. CASE MessageRaises(m)
  BY <1>4, NoCallBegins DEF MessageRaises, execVars, Outside
<1>5. CASE ToolForwarded(m)
  <2>1. pc = "listen" /\ drain = "no"
    BY <1>5 DEF ToolForwarded, Took
  <2>2. CASE pc' = "exec" /\ UNCHANGED drain
    BY <2>1, <2>2 DEF Held
  <2>3. CASE AnswersTool(m.turn) /\ UNCHANGED call
    BY <2>1, <2>3, NoCallBegins DEF Outside
  <2> QED
    BY <1>5, <2>2, <2>3 DEF ToolForwarded, execVars
<1>6. CASE ToolRefused(m)
  BY <1>6, NoCallBegins DEF ToolRefused, execVars, Outside
<1>7. CASE NotificationRecorded(m)
  BY <1>7 DEF NotificationRecorded, execVars, Waits
<1>8. CASE TurnCompletes(m)
  BY <1>8, NoCallBegins DEF TurnCompletes, execVars, Outside
<1>9. CASE TurnFails(m)
  BY <1>9, NoCallBegins DEF TurnFails, execVars, Outside
<1> QED
  BY <1>1, <1>2, <1>3, <1>4, <1>5, <1>6, <1>7, <1>8, <1>9

\* A tool call under way is cancelled and goes on stopping, or is left.
LEMMA StopCallMoves ==
    ASSUME CallInv, BooksInv, NEW reason \in {"cancelled", "deadline"},
           StopsTool(reason) \/ (LeavesTool(reason) /\ UNCHANGED <<slot, active>>)
    PROVE  CallMoves
<1> USE DEF CallMoves
<1>1. CASE StopsTool(reason)
  BY <1>1 DEF StopsTool, Held, CallInv
<1>2. CASE LeavesTool(reason)
  <2>1. call' \in {"detached", "abandoned"}
    BY <1>2 DEF LeavesTool, ExecCancelled
  <2>2. pc = "exec" /\ (Ends("cancelled") \/ GivesUp("deadline"))
    BY <1>2 DEF LeavesTool
  <2> QED
    BY <2>1, <2>2, LeavingCuts DEF Cut
<1> QED
  BY <1>1, <1>2

\* The other steps of the client.
LEMMA ClientCallMoves ==
    ASSUME CallInv, BooksInv,
           \/ BeginSlot \/ StartsThread \/ Initialize \/ ToolAnswered \/ ToolUnwinds
           \/ RefusalGoesOn \/ FailureHandled \/ Leaves
           \/ Deadline \/ ToolTimer \/ SlotCancelled \/ TransportEnds
    PROVE  CallMoves
<1> USE DEF CallMoves
<1>1. CASE BeginSlot
  BY <1>1 DEF BeginSlot, execVars, Outside
<1>2. CASE StartsThread \/ Initialize
  BY <1>2, NoCallBegins DEF StartsThread, Initialize, execVars, Outside
<1>3. CASE ToolAnswered
  BY <1>3, NoCallBegins DEF ToolAnswered, ExecEnds, Unwound
<1>4. CASE ToolUnwinds
  BY <1>4, NoCallBegins DEF ToolUnwinds, ExecEnds, Unwound
<1>5. CASE RefusalGoesOn
  <2>1. pc' # "exec"
    BY <1>5, NoCallBegins DEF RefusalGoesOn
  <2> QED
    BY <1>5, <2>1 DEF RefusalGoesOn, execVars, Outside
<1>6. CASE FailureHandled
  BY <1>6, NoCallBegins DEF FailureHandled, execVars, Outside
<1>7. CASE Leaves
  <2>1. pc = "leaving" /\ Ends(stop) /\ UNCHANGED call /\ stop \in {"deadline", "protocol"}
    BY <1>7 DEF Leaves, execVars, BooksInv, SlotInv
  <2>2. pc' = "over"
    BY <2>1 DEF Ends, EndSlot
  <2>3. stop = "deadline" => CutShort'
    BY <2>1, EndCuts DEF Ends, BooksInv, SlotInv
  <2> QED
    BY <2>1, <2>2, <2>3 DEF Left
<1>8. CASE Deadline
  <2>1. CASE AwaitsServer /\ GivesUp("deadline") /\ UNCHANGED call
    BY <2>1, NoCallBegins DEF AwaitsServer, Outside
  <2> QED
    BY <1>8, <2>1, StopCallMoves DEF Deadline, execVars, LeavesTool, rest
<1>9. CASE ToolTimer
  <2>1. CASE pc = "exec" /\ UNCHANGED local
    BY <2>1 DEF local, Held, CallInv
  <2> QED
    BY <1>9, <2>1, StopCallMoves DEF ToolTimer, LeavesTool, rest
<1>10. CASE SlotCancelled
  <2>1. CASE AwaitsServer /\ Ends("cancelled") /\ UNCHANGED call
    BY <2>1, NoCallBegins DEF AwaitsServer, Outside
  <2>2. CASE pc = "leaving" /\ Ends("cancelled") /\ UNCHANGED call
    BY <2>2, EndCuts DEF Ends, Left, BooksInv, SlotInv
  <2> QED
    BY <1>10, <2>1, <2>2, StopCallMoves DEF SlotCancelled, execVars, LeavesTool, rest
<1>11. CASE TransportEnds
  BY <1>11, NoCallBegins DEF TransportEnds, execVars, Outside
<1> QED
  BY <1>1, <1>2, <1>3, <1>4, <1>5, <1>6, <1>7, <1>8, <1>9, <1>10, <1>11

\* The pipe, which may break under the drain of an interrupt.
LEMMA PipeCallMoves == ASSUME CallInv, BooksInv, PipeMoves PROVE CallMoves
<1> USE DEF CallMoves
<1>1. CASE PipeFlows
  BY <1>1 DEF PipeFlows, rest, execVars, Waits
<1>2. CASE \E died \in BOOLEAN : PipeBreaks(died)
  <2>1. UNCHANGED <<call, interrupted>> /\ drain' = "no"
    BY <1>2 DEF PipeBreaks, execVars
  <2>2. CASE drain = "yes" /\ EndSlot("error")
    <3>1. pc # "exec" /\ pc # "over" /\ pc' # "exec"
      BY <2>2 DEF CallInv, BooksInv, SlotInv, Running, EndSlot
    <3>2. CASE pc = "leaving"
      BY <2>1, <2>2, <3>2, EndCuts DEF Left, BooksInv, SlotInv
    <3> QED
      BY <2>1, <3>1, <3>2 DEF Outside
  <2>3. CASE UNCHANGED <<pc, stop, results>>
    BY <2>1, <2>3 DEF Waits
  <2> QED
    BY <1>2, <2>2, <2>3 DEF PipeBreaks
<1> QED
  BY <1>1, <1>2 DEF PipeMoves

\* Every step keeps CallInv.
LEMMA CallStep == ASSUME CallInv, BooksInv, [Next]_vars PROVE CallInv'
<1>1. CASE UNCHANGED clientVars
  BY <1>1, CallMovesKeep DEF clientVars, local, execVars, CallMoves, Waits
<1>2. CASE Prepares \/ Spawns \/ Initialized \/ BodyEnds \/ CloseStep \/ ProcessExits \/ StderrEnds
  BY <1>1, <1>2 DEF Prepares, Spawns, Initialized, BodyEnds, CloseStep, Terminates, Reaps, AwaitsStderr,
                    RemovesJail, ProcessExits, StderrEnds
<1>3. CASE Cancel
  <2>1. CASE CancelEntering
    BY <2>1, CallMovesKeep DEF CancelEntering, execVars, CallMoves, Waits
  <2> QED
    BY <1>1, <1>3, <2>1, ClientCallMoves, CallMovesKeep DEF Cancel, CancelBody, CancelShielded, CancelClose
<1>4. CASE PipeMoves
  BY <1>4, PipeCallMoves, CallMovesKeep
<1>5. CASE ServerWorks
  BY <1>5, CallMovesKeep DEF ServerWorks, ServerStep, ServerAnswers, ServerCalls, ServerConcludes,
                             ServerCompletes, ServerDeviates, local, execVars, CallMoves, Waits
<1>6. CASE ClientWorks
  BY <1>6, ReceivesCallMoves, ClientCallMoves, CallMovesKeep DEF ClientWorks, Initializes, RunsSlot
<1>7. CASE TimePasses \/ ToolTimePasses
  BY <1>7, ClientCallMoves, CallMovesKeep DEF TimePasses, ToolTimePasses
<1>8. CASE ExecWorks
  <2>1. UNCHANGED local /\ (UNCHANGED call \/ call = "waiting")
    BY <1>8 DEF ExecWorks, ExecStep, SshExits, ExecGivesUp, GraceEnds
  <2>2. CASE UNCHANGED call
    BY <2>1, <2>2, CallMovesKeep DEF local, CallMoves, Waits
  <2>3. CASE call = "waiting"
    BY <2>1, <2>3, CallMovesKeep DEF local, CallInv, CallMoves, Held
  <2> QED
    BY <2>1, <2>2, <2>3
<1>9. CASE UNCHANGED vars
  BY <1>1, <1>9 DEF vars
<1> QED
  BY <1>2, <1>3, <1>4, <1>5, <1>6, <1>7, <1>8, <1>9 DEF Next

\* A message does not change the slot.
LEMMA ReceivesInSlot == ASSUME Receives PROVE UNCHANGED slot
BY DEF Receives, ResponseAccepted, NotificationDropped, RequestFails, MessageRaises, ToolForwarded,
       ToolRefused, NotificationRecorded, TurnCompletes, TurnFails, rest, local

\* The host leaves the body only between slots, and enters it before the first.
LEMMA StageStep == ASSUME StageInv, BooksInv, [Next]_vars PROVE StageInv'
<1> USE DEF StageInv, Entering
<1>0. slot = 0 => pc \notin {"exec", "leaving"}
  BY PositionsAssumption DEF BooksInv, SlotInv, Live, Slot
<1>1. CASE UNCHANGED <<pc, slot, stage>>
  BY <1>1
<1>2. CASE Prepares \/ Spawns \/ Initialized \/ BodyEnds
  BY <1>0, <1>2 DEF Prepares, Spawns, Initialized, BodyEnds, StartFails, clientVars, local
<1>3. CASE CloseStep
  BY <1>3 DEF CloseStep, Terminates, Reaps, AwaitsStderr, RemovesJail, clientVars, local
<1>4. CASE Cancel
  <2>1. CASE CancelEntering
    BY <1>0, <2>1 DEF CancelEntering
  <2>2. CASE CancelBody
    BY <2>2 DEF CancelBody
  <2>3. CASE CancelShielded \/ CancelClose
    BY <2>3 DEF CancelShielded, CancelClose, Closing, clientVars, local
  <2> QED
    BY <1>4, <2>1, <2>2, <2>3 DEF Cancel
<1>5. CASE ProcessExits \/ StderrEnds
  BY <1>1, <1>5 DEF ProcessExits, StderrEnds, clientVars, local
<1>6. CASE PipeMoves
  <2>1. UNCHANGED <<slot, stage>>
    BY <1>6 DEF PipeMoves, PipeFlows, PipeBreaks, rest, hostVars
  <2>2. UNCHANGED pc \/ pc' \in {"ready", "over"}
    BY <1>6 DEF PipeMoves, PipeFlows, PipeBreaks, EndSlot
  <2> QED
    BY <2>1, <2>2
<1>7. CASE ServerWorks
  BY <1>1, <1>7 DEF ServerWorks, ServerStep, ServerAnswers, ServerCalls, ServerConcludes,
                    ServerCompletes, ServerDeviates, local, hostVars
<1>8. CASE ClientWorks
  <2>1. stage \in {"entering", "body"} /\ UNCHANGED stage
    BY <1>8 DEF ClientWorks, hostVars
  <2>2. stage = "entering" => UNCHANGED slot
    BY <1>8, ReceivesInSlot DEF ClientWorks, Initializes, Initialize, RefusalGoesOn, FailureHandled,
                                TransportEnds, rest
  <2> QED
    BY <2>1, <2>2
<1>9. CASE TimePasses \/ ToolTimePasses
  BY <1>9 DEF TimePasses, ToolTimePasses, hostVars
<1>10. CASE ExecWorks
  BY <1>1, <1>10 DEF ExecWorks, ExecStep, local, hostVars
<1>11. CASE UNCHANGED vars
  BY <1>1, <1>11 DEF vars, clientVars, hostVars, local
<1> QED
  BY <1>2, <1>3, <1>4, <1>5, <1>6, <1>7, <1>8, <1>9, <1>10, <1>11 DEF Next

-----------------------------------------------------------------------------
TrialInv == HostInv /\ CallInv /\ StageInv

\* They hold in every reachable state.
THEOREM TrialInvariant == Spec => []TrialInv
<1>1. Init => TrialInv
  BY HostInit, CallInit DEF TrialInv
<1>2. TrialInv /\ TurnInv /\ [Next]_vars => TrialInv'
  BY HostStep, CallStep, StageStep DEF TrialInv, TurnInv
<1> QED
  BY <1>1, <1>2, TurnInvariant, PTL DEF Spec

(* A trial left without a cleanup error, and not closing in the background, has
   no process, no stderr drain and no jail; an ssh process of a tool call
   survives only when its slot was cut short.  For any slots and any server
   (AppServerTrial.close and SshDockerTaskEnvironment.exec). *)
THEOREM LeavesNothing == Spec => []NothingOutlivesTrial
<1>1. TrialInv => NothingOutlivesTrial
  <2> SUFFICES ASSUME HostInv, CallInv, StageInv, left = "yes", closer # "background", error = "no"
               PROVE  /\ process \in {"none", "dead"} /\ stderr # "draining" /\ jail = "none"
                      /\ call # "idle" => CutShort
                      /\ call \in {"idle", "detached", "abandoned"}
    BY DEF TrialInv, NothingOutlivesTrial, CutShort
  <2>1. stage = "left"
    BY DEF HostInv
  <2>2. pc \notin {"exec", "leaving"}
    BY <2>1 DEF StageInv, Entering
  <2> QED
    BY <2>1, <2>2 DEF HostInv, CallInv
<1> QED
  BY <1>1, TrialInvariant, PTL

(* close never removes the jail under a process that may still run, unless it
   has a cleanup error to raise. *)
THEOREM JailGoesLastCorrect == Spec => JailGoesLast
<1>1. TrialInv /\ [Next]_vars => [jail = "present" /\ jail' = "none" =>
                                   process \in {"none", "dead"} \/ error = "yes"]_vars
  <2> SUFFICES ASSUME TrialInv, [Next]_vars, jail = "present", jail' = "none"
               PROVE  process \in {"none", "dead"} \/ error = "yes"
    OBVIOUS
  <2>1. jail' = jail \/ stage = "jail" \/ jail' = "present"
    <3>1. CASE CloseStep
      BY <3>1 DEF CloseStep, Terminates, Reaps, AwaitsStderr, RemovesJail
    <3>2. CASE Cancel
      <4>1. CASE CancelBody \/ CancelEntering \/ CancelShielded \/ CancelClose
        BY <4>1 DEF CancelBody, CancelEntering, CancelShielded, CancelClose
      <4> QED
        BY <3>2, <4>1 DEF Cancel
    <3>3. CASE Prepares \/ Spawns \/ Initialized \/ BodyEnds \/ ProcessExits \/ StderrEnds
      BY <3>3 DEF Prepares, Spawns, Initialized, BodyEnds, ProcessExits, StderrEnds
    <3>4. CASE PipeMoves \/ ServerWorks \/ ClientWorks \/ TimePasses \/ ToolTimePasses \/ ExecWorks
      BY <3>4 DEF PipeMoves, ServerWorks, ClientWorks, TimePasses, ToolTimePasses, ExecWorks, hostVars
    <3>5. CASE UNCHANGED vars
      BY <3>5 DEF vars, hostVars
    <3> QED
      BY <3>1, <3>2, <3>3, <3>4, <3>5 DEF Next
  <2> QED
    BY <2>1 DEF TrialInv, HostInv
<1> QED
  BY <1>1, TrialInvariant, PTL DEF Spec, JailGoesLast

=============================================================================
