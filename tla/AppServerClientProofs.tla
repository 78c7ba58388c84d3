------------------------ MODULE AppServerClientProofs ------------------------
(***************************************************************************)
(* Three properties of run_slot, for any slots and budgets: the budget of  *)
(* an investigating slot, the interrupt of a turn that is given up, and    *)
(* that a completed slot is about a whole turn.  SlotInv and ResultInv say *)
(* where run_slot is, what it has done to its turn and what it returned,   *)
(* whichever send fails on the way; WireInv says what the two message      *)
(* queues hold.                                                            *)
(***************************************************************************)
EXTENDS AppServerTrial, FiniteSetTheorems, SequenceTheorems, TLAPS

\* Where run_slot is in the middle of a turn that may still complete.
Live == {"begin", "thread", "turn", "listen", "exec"}

-----------------------------------------------------------------------------
(* Where run_slot is. *)

\* Only a failure of initialize is handled outside a slot.  A turn the client has
\* interrupted is being given up, and nobody but the slot itself waits for a drain
\* or holds the outcome that its interrupt delays.
SlotInv ==
    /\ slot \in 0..Len(Positions)
    /\ pc \in {"new", "init", "ready", "over"} \cup Running
    /\ active \in {"no", "yes"} /\ interrupted \in {"no", "yes"}
    /\ pc \in {"new", "init"} => slot = 0
    /\ pc \in Live \cup {"leaving"} => slot \in Slot
    /\ drain = "yes" => pc \in Running \cup {"init", "ready"}
    /\ drain = "yes" /\ pc = "ready" => slot = 0
    /\ active = "yes" => slot \in Slot
    /\ interrupted = "yes" => active = "yes" /\ pc \in {"refusing", "failing", "leaving", "over"}
    /\ pc = "leaving" => interrupted = "yes" /\ stop \in {"deadline", "protocol"}

SlotResult == [outcome : Outcome, active : {"no", "yes"}]

\* Each slot that began has a result but the one under way, which has been
\* interrupted if the client knows that it was; every slot but the last that
\* began has completed.
ResultInv ==
    /\ results \in Seq(SlotResult)
    /\ interrupts \in [Slot -> 0..1]
    /\ Len(results) = IF pc \in Running /\ slot # 0 THEN slot - 1 ELSE slot
    /\ \A k \in Slot : k > slot => interrupts[k] = 0
    /\ pc \in Running /\ slot # 0 => interrupts[slot] = IF interrupted = "yes" THEN 1 ELSE 0
    /\ \A k \in DOMAIN results : k < slot \/ pc # "over" => results[k].outcome = "completed"
    /\ \A k \in DOMAIN results :
          /\ results[k].active = "no" \/ results[k].outcome = "completed" => interrupts[k] = 0
          /\ results[k].active = "yes" /\ results[k].outcome \in {"deadline", "protocol"} =>
                interrupts[k] = 1

BooksInv == SlotInv /\ ResultInv

\* Nothing runs yet.
LEMMA BooksInit == Init => BooksInv
<1> SUFFICES ASSUME Init PROVE BooksInv
  OBVIOUS
<1>1. /\ pc = "new" /\ slot = 0 /\ drain = "no" /\ active = "no" /\ interrupted = "no"
      /\ results = <<>> /\ interrupts = [k \in Slot |-> 0]
  BY DEF Init, ClientInit
<1>2. DOMAIN results = {} /\ Len(results) = 0 /\ results \in Seq(SlotResult)
  BY <1>1
<1>3. SlotInv
  BY <1>1, PositionsAssumption DEF SlotInv, Live, Running
<1>4. ResultInv
  BY <1>1, <1>2 DEF ResultInv, Running
<1> QED
  BY <1>3, <1>4 DEF BooksInv

\* The end of a slot: a completed one has not been interrupted, one whose turn is
\* given up has, if it was active, and the interrupt itself may fail.
LEMMA EndKeepsBooks ==
    ASSUME BooksInv, NEW outcome \in Outcome, EndSlot(outcome), UNCHANGED <<slot, active, interrupts>>,
           drain' = "no", pc \in Running \/ slot = 0,
           UNCHANGED interrupted \/ (interrupted = "no" /\ interrupted' = "yes" /\ outcome = "error"),
           outcome = "completed" => interrupted = "no" /\ slot # 0,
           active = "yes" /\ outcome \in {"deadline", "protocol"} => interrupted = "yes",
           interrupted' = "yes" => active = "yes"
    PROVE  BooksInv'
<1> USE DEF BooksInv
<1>0. Len(Positions) \in Nat /\ slot \in Nat /\ (slot # 0 => slot \in Slot)
  BY PositionsAssumption DEF SlotInv, Slot
<1>1. pc' \in {"ready", "over"} /\ (outcome # "completed" => pc' = "over") /\ pc' \notin Running
  BY DEF EndSlot, Running
<1>2. SlotInv'
  <2>1. interrupted' = "yes" => pc' = "over"
    BY <1>1
  <2> QED
    BY <1>1, <2>1 DEF SlotInv, Live
<1>3. CASE slot = 0
  <2>1. UNCHANGED <<results, interrupts, slot, active>>
    BY <1>3 DEF EndSlot
  <2>2. results = <<>> /\ DOMAIN results = {} /\ Len(results') = slot'
    BY <1>3, <2>1 DEF ResultInv
  <2> QED
    BY <1>1, <1>2, <1>3, <2>1, <2>2 DEF ResultInv
<1>4. CASE slot # 0
  <2> DEFINE new == [outcome |-> outcome, active |-> active]
  <2>1. results' = Append(results, new) /\ new \in SlotResult
    BY <1>4 DEF EndSlot, SlotResult, BooksInv, SlotInv
  <2>2. Len(results) = slot - 1 /\ interrupts[slot] = IF interrupted = "yes" THEN 1 ELSE 0
    BY <1>4 DEF ResultInv
  <2>3. new.outcome = outcome /\ new.active = active
    OBVIOUS
  <2> HIDE DEF new
  <2>4. /\ results' \in Seq(SlotResult)
        /\ Len(results') = slot
        /\ DOMAIN results' = 1..slot
        /\ results'[slot] = new
        /\ \A k \in 1..slot : k # slot => k \in DOMAIN results /\ results'[k] = results[k]
    BY <1>0, <1>4, <2>1, <2>2 DEF ResultInv
  <2>5. \A k \in 1..slot : k # slot => results[k].outcome = "completed"
    <3>1. \A k \in 1..slot : k # slot => k < slot
      BY <1>0
    <3> QED
      BY <2>4, <3>1 DEF ResultInv
  <2>6. \A k \in DOMAIN results' : k < slot \/ pc' # "over" => results'[k].outcome = "completed"
    BY <1>0, <1>1, <2>3, <2>4, <2>5
  <2>7. \A k \in DOMAIN results' :
          /\ results'[k].active = "no" \/ results'[k].outcome = "completed" => interrupts[k] = 0
          /\ results'[k].active = "yes" /\ results'[k].outcome \in {"deadline", "protocol"} =>
                interrupts[k] = 1
    <3> TAKE k \in DOMAIN results'
    <3>1. CASE k = slot
      <4>1. interrupted = "yes" => active = "yes"
        BY DEF SlotInv
      <4> QED
        BY <2>2, <2>3, <2>4, <3>1, <4>1
    <3>2. CASE k # slot
      BY <2>4, <3>2 DEF ResultInv
    <3> QED
      BY <3>1, <3>2
  <2> QED
    BY <1>0, <1>1, <1>2, <1>4, <2>4, <2>6, <2>7 DEF ResultInv
<1> QED
  BY <1>3, <1>4

\* run_slot ends without an interrupt.
LEMMA EndsKeepsBooks ==
    ASSUME BooksInv, NEW outcome \in Outcome, Ends(outcome), UNCHANGED <<slot, active>>,
           pc \in Running \/ slot = 0,
           outcome = "completed" => interrupted = "no" /\ slot # 0,
           active = "yes" /\ outcome \in {"deadline", "protocol"} => interrupted = "yes"
    PROVE  BooksInv'
<1>1. EndSlot(outcome) /\ drain' = "no" /\ UNCHANGED <<interrupted, interrupts>>
  BY DEF Ends, SendsNothing
<1>2. interrupted' = "yes" => active = "yes"
  BY <1>1 DEF BooksInv, SlotInv
<1> QED
  BY <1>1, <1>2, EndKeepsBooks

\* The interrupt is sent, or its failure ends the slot.
LEMMA InterruptKeepsBooks ==
    ASSUME BooksInv, NEW at, NEW outcome, Interrupt(at, outcome), MayInterrupt,
           UNCHANGED <<slot, active>>, pc \in Running,
           at = "refusing" \/ (at = "leaving" /\ outcome \in {"deadline", "protocol"})
    PROVE  BooksInv'
<1> USE DEF BooksInv, MayInterrupt
<1>0. slot \in Slot /\ slot \in Nat /\ slot # 0 /\ active = "yes" /\ interrupted = "no" /\ interrupted' = "yes"
  BY DEF SlotInv, Slot, Interrupt
<1>1. CASE EndSlot("error") /\ UNCHANGED interrupts /\ drain' = "no"
  <2>1. "error" \in Outcome
    BY DEF Outcome
  <2> QED
    BY <1>0, <1>1, <2>1, EndKeepsBooks
<1>2. CASE /\ drain' \in {"no", "yes"}
           /\ pc' = at /\ stop' = outcome
           /\ interrupts' = [interrupts EXCEPT ![slot] = @ + 1]
           /\ UNCHANGED results
  <2>1. pc' \in Running /\ pc' \in {"refusing", "leaving"} /\ pc' \notin Live /\ pc # "over"
    BY <1>2 DEF Running, Live
  <2>2. SlotInv'
    BY <1>0, <1>2, <2>1 DEF SlotInv
  <2>3. interrupts[slot] = 0 /\ Len(results) = slot - 1
    BY <1>0 DEF ResultInv
  <2>4. /\ interrupts' \in [Slot -> 0..1] /\ interrupts'[slot] = 1
        /\ \A k \in Slot : k # slot => interrupts'[k] = interrupts[k]
    BY <1>0, <1>2, <2>3 DEF ResultInv
  <2>5. \A k \in DOMAIN results : k \in Slot /\ k # slot
    <3>1. DOMAIN results = 1..slot - 1
      BY <2>3, <1>0 DEF ResultInv
    <3> QED
      BY <1>0, <3>1 DEF Slot
  <2>6. \A k \in Slot : k > slot => k # slot
    BY <1>0
  <2>7. ResultInv'
    BY <1>0, <1>2, <2>1, <2>3, <2>4, <2>5, <2>6 DEF ResultInv
  <2> QED
    BY <2>2, <2>7
<1> QED
  BY <1>1, <1>2 DEF Interrupt, Writes, Unsendable, SendBreaks

\* The handlers of run_slot.
LEMMA GivesUpKeepsBooks ==
    ASSUME BooksInv, NEW outcome \in {"deadline", "protocol"}, GivesUp(outcome),
           UNCHANGED <<slot, active>>, pc \in Running
    PROVE  BooksInv'
<1>1. CASE MayInterrupt
  BY <1>1, InterruptKeepsBooks DEF GivesUp
<1>2. CASE ~ MayInterrupt
  <2>1. Ends(outcome) /\ outcome \in Outcome /\ outcome # "completed"
    BY <1>2 DEF GivesUp, Outcome
  <2>2. active = "yes" => interrupted = "yes"
    BY <1>2 DEF MayInterrupt, BooksInv, SlotInv
  <2> QED
    BY <2>1, <2>2, EndsKeepsBooks
<1> QED
  BY <1>1, <1>2

-----------------------------------------------------------------------------
(* What the steps do to the books. *)

\* run_slot goes on.
LEMMA StaysKeepsBooks ==
    ASSUME BooksInv, SlotInv', UNCHANGED <<slot, active, results, interrupted, interrupts>>,
           pc' # "over" => pc # "over", slot # 0 => (pc' \in Running <=> pc \in Running)
    PROVE  BooksInv'
<1>1. ResultInv'
  BY DEF BooksInv, ResultInv
<1> QED
  BY <1>1 DEF BooksInv

\* A step that changes nothing the books are about.
LEMMA QuietKeepsBooks ==
    ASSUME BooksInv, UNCHANGED <<pc, slot, active, stop, results, interrupted, interrupts>>,
           UNCHANGED drain \/ drain' = "no"
    PROVE  BooksInv'
<1>1. SlotInv'
  BY DEF BooksInv, SlotInv
<1> QED
  BY <1>1, StaysKeepsBooks

\* A protocol failure, while initialize or the slot is not yet over.
LEMMA FailsKeepsBooks ==
    ASSUME BooksInv, Fails, UNCHANGED <<slot, active, interrupted, interrupts>>, drain' = "no",
           pc \in Running \cup {"new", "init"}
    PROVE  BooksInv'
<1>1. pc' = "failing" /\ UNCHANGED results
  BY DEF Fails
<1>2. SlotInv'
  BY <1>1 DEF BooksInv, SlotInv, Running, Live
<1>3. slot # 0 => pc \in Running
  BY DEF BooksInv, SlotInv
<1> QED
  BY <1>1, <1>2, <1>3, StaysKeepsBooks DEF Running

\* An exception.
LEMMA ErrorKeepsBooks ==
    ASSUME BooksInv, EndSlot("error"), UNCHANGED <<slot, active, interrupted, interrupts>>, drain' = "no",
           pc \in Running \/ slot = 0
    PROVE  BooksInv'
<1>1. "error" \in Outcome
  BY DEF Outcome
<1>2. interrupted' = "yes" => active = "yes"
  BY DEF BooksInv, SlotInv
<1> QED
  BY <1>1, <1>2, EndKeepsBooks

\* The requests of initialize, of the thread and of the turn.
LEMMA SendsRequestKeepsBooks ==
    ASSUME BooksInv, NEW kind, NEW at, SendsRequest(kind, at),
           UNCHANGED <<slot, active, interrupted, interrupts>>,
           \/ pc = "new" /\ at = "init"
           \/ pc = "begin" /\ at = "thread"
           \/ pc = "thread" /\ at = "turn"
    PROVE  BooksInv'
<1>1. pc \in Running \cup {"new", "init"} /\ (pc \in Running \/ slot = 0) /\ pc # "over"
  BY DEF BooksInv, SlotInv, Running
<1>2. CASE pc' = at /\ UNCHANGED <<stop, results>> /\ drain' \in {"no", "yes"}
  <2>1. SlotInv'
    BY <1>2 DEF BooksInv, SlotInv, Running, Live
  <2>2. slot # 0 => pc \in Running /\ pc' \in Running
    BY <1>1, <1>2 DEF BooksInv, SlotInv, Running
  <2> QED
    BY <1>1, <1>2, <2>1, <2>2, StaysKeepsBooks
<1>3. CASE Fails /\ drain' = "no"
  BY <1>1, <1>3, FailsKeepsBooks
<1>4. CASE EndSlot("error") /\ drain' = "no"
  BY <1>1, <1>4, ErrorKeepsBooks
<1> QED
  BY <1>2, <1>3, <1>4 DEF SendsRequest, Writes, Unsendable, SendBreaks

\* The answer to a tool call.
LEMMA AnswersToolKeepsBooks ==
    ASSUME BooksInv, NEW t, AnswersTool(t), UNCHANGED <<slot, active>>, pc \in {"listen", "exec"}
    PROVE  BooksInv'
<1>1. pc \in Running /\ UNCHANGED <<interrupted, interrupts>>
  BY DEF AnswersTool, Running
<1>2. CASE pc' = "listen" /\ UNCHANGED <<stop, results>> /\ drain' \in {"no", "yes"}
  <2>1. SlotInv'
    BY <1>1, <1>2 DEF BooksInv, SlotInv, Running, Live
  <2> QED
    BY <1>1, <1>2, <2>1, StaysKeepsBooks DEF Running
<1>3. CASE Fails /\ drain' = "no"
  BY <1>1, <1>3, FailsKeepsBooks
<1>4. CASE EndSlot("error") /\ drain' = "no"
  BY <1>1, <1>4, ErrorKeepsBooks
<1> QED
  BY <1>2, <1>3, <1>4 DEF AnswersTool, Writes, Unsendable, SendBreaks

\* The answer to a request the client refuses.
LEMMA RefusesRequestKeepsBooks ==
    ASSUME BooksInv, NEW t, RefusesRequest(t), UNCHANGED <<slot, active>>,
           pc \in {"init", "thread", "turn", "listen"}
    PROVE  BooksInv'
<1>1. /\ pc \in Running \cup {"new", "init"} /\ UNCHANGED <<interrupted, interrupts>>
      /\ pc \in Running \/ slot = 0
  BY DEF RefusesRequest, Running, BooksInv, SlotInv
<1>2. CASE pc' = "refusing" /\ UNCHANGED <<stop, results>> /\ drain' \in {"no", "yes"}
  <2>1. SlotInv'
    BY <1>1, <1>2 DEF BooksInv, SlotInv, Running, Live
  <2> QED
    BY <1>1, <1>2, <2>1, StaysKeepsBooks DEF Running
<1>3. CASE Fails /\ drain' = "no"
  BY <1>1, <1>3, FailsKeepsBooks
<1>4. CASE EndSlot("error") /\ drain' = "no"
  BY <1>1, <1>4, ErrorKeepsBooks
<1> QED
  BY <1>2, <1>3, <1>4 DEF RefusesRequest, Writes, Unsendable, SendBreaks

\* A failure without an answer.
LEMMA FailsAtOnceKeepsBooks ==
    ASSUME BooksInv, FailsAtOnce, UNCHANGED <<slot, active>>, pc \in Running \cup {"new", "init"}
    PROVE  BooksInv'
BY FailsKeepsBooks DEF FailsAtOnce, SendsNothing

\* The messages.
LEMMA ReceivesKeepsBooks ==
    ASSUME BooksInv, Receives
    PROVE  BooksInv'
<1> PICK m : \/ ResponseAccepted(m) \/ NotificationDropped(m) \/ RequestFails(m)
             \/ MessageRaises(m)
             \/ ToolForwarded(m) \/ ToolRefused(m) \/ NotificationRecorded(m)
             \/ TurnCompletes(m) \/ TurnFails(m)
  BY DEF Receives
<1>1. CASE ResponseAccepted(m)
  <2>1. UNCHANGED <<slot, interrupted, interrupts>>
    BY <1>1 DEF ResponseAccepted, ledger
  <2>2. CASE pc = "init" /\ UNCHANGED active
    <3>1. slot = 0
      BY <2>2 DEF BooksInv, SlotInv
    <3>2. CASE pc' = "ready" /\ UNCHANGED <<stop, results>> /\ drain' \in {"no", "yes"}
      <4>1. SlotInv'
        BY <2>1, <2>2, <3>1, <3>2 DEF BooksInv, SlotInv, Running, Live
      <4> QED
        BY <2>1, <2>2, <3>1, <3>2, <4>1, StaysKeepsBooks
    <3>3. CASE EndSlot("error") /\ drain' = "no"
      BY <2>1, <2>2, <3>1, <3>3, ErrorKeepsBooks
    <3> QED
      BY <1>1, <2>2, <3>2, <3>3 DEF ResponseAccepted, Writes, SendBreaks
  <2>3. CASE pc = "thread" /\ SendsRequest("turn", "turn") /\ UNCHANGED active
    BY <2>1, <2>3, SendsRequestKeepsBooks
  <2>4. CASE pc = "turn" /\ pc' = "listen" /\ active' = "yes" /\ SendsNothing /\ UNCHANGED <<stop, results>>
    <3>1. slot \in Slot /\ interrupted = "no" /\ drain' = "no"
      BY <2>4 DEF BooksInv, SlotInv, Live, SendsNothing
    <3>2. SlotInv'
      BY <2>1, <2>4, <3>1 DEF BooksInv, SlotInv, Running, Live
    <3>3. ResultInv'
      BY <2>1, <2>4, <3>1 DEF BooksInv, ResultInv, Running
    <3> QED
      BY <3>2, <3>3 DEF BooksInv
  <2> QED
    BY <1>1, <2>2, <2>3, <2>4 DEF ResponseAccepted
<1>2. CASE NotificationDropped(m)
  BY <1>2, QuietKeepsBooks DEF NotificationDropped, local, ledger
<1>3. CASE RequestFails(m)
  <2>1. pc \in {"init", "thread", "turn"} /\ UNCHANGED <<slot, active>>
    BY <1>3 DEF RequestFails, rest
  <2>2. RefusesRequest(m.turn) \/ FailsAtOnce
    BY <1>3 DEF RequestFails
  <2> QED
    BY <2>1, <2>2, RefusesRequestKeepsBooks, FailsAtOnceKeepsBooks DEF Running
<1>4. CASE MessageRaises(m)
  <2>1. /\ pc \in Running \/ slot = 0
        /\ Ends("error") /\ UNCHANGED <<slot, active>> /\ "error" \in Outcome
    BY <1>4 DEF MessageRaises, rest, Running, Outcome, BooksInv, SlotInv
  <2> QED
    BY <2>1, EndsKeepsBooks
<1>5. CASE ToolForwarded(m)
  <2>1. pc = "listen" /\ UNCHANGED <<slot, active>>
    BY <1>5 DEF ToolForwarded
  <2>2. CASE pc' = "exec" /\ UNCHANGED <<drain, interrupted, stop, results, interrupts>>
    <3>1. SlotInv'
      BY <2>1, <2>2 DEF BooksInv, SlotInv, Running, Live
    <3> QED
      BY <2>1, <2>2, <3>1, StaysKeepsBooks DEF Running
  <2>3. CASE AnswersTool(m.turn)
    BY <2>1, <2>3, AnswersToolKeepsBooks
  <2> QED
    BY <1>5, <2>2, <2>3 DEF ToolForwarded
<1>6. CASE ToolRefused(m)
  BY <1>6, AnswersToolKeepsBooks DEF ToolRefused
<1>7. CASE NotificationRecorded(m)
  BY <1>7, QuietKeepsBooks DEF NotificationRecorded, ledger
<1>8. CASE TurnCompletes(m)
  <2>1. pc = "listen" /\ Ends("completed") /\ UNCHANGED <<slot, active>> /\ "completed" \in Outcome
    BY <1>8 DEF TurnCompletes, rest, Outcome
  <2>2. interrupted = "no" /\ slot # 0
    BY <2>1 DEF BooksInv, SlotInv, Live, Slot
  <2> QED
    BY <2>1, <2>2, EndsKeepsBooks DEF Running
<1>9. CASE TurnFails(m)
  <2>1. pc = "listen" /\ UNCHANGED <<slot, active>>
    BY <1>9 DEF TurnFails, rest
  <2>2. RefusesRequest(m.turn) \/ FailsAtOnce
    BY <1>9 DEF TurnFails
  <2> QED
    BY <2>1, <2>2, RefusesRequestKeepsBooks, FailsAtOnceKeepsBooks DEF Running
<1> QED
  BY <1>1, <1>2, <1>3, <1>4, <1>5, <1>6, <1>7, <1>8, <1>9

\* A tool call that is left ends its slot.
LEMMA LeavesToolKeepsBooks ==
    ASSUME BooksInv, NEW reason, LeavesTool(reason), UNCHANGED <<slot, active>>
    PROVE  BooksInv'
<1>1. pc = "exec" /\ (Ends("cancelled") \/ GivesUp("deadline"))
  BY DEF LeavesTool
<1>2. "cancelled" \in Outcome /\ pc \in Running
  BY <1>1 DEF Outcome, Running
<1> QED
  BY <1>1, <1>2, EndsKeepsBooks, GivesUpKeepsBooks

\* A tool call that is being stopped keeps its slot.
LEMMA StopsToolKeepsBooks ==
    ASSUME BooksInv, NEW reason, StopsTool(reason)
    PROVE  BooksInv'
<1>1. /\ pc = "exec" /\ pc' = "exec"
      /\ UNCHANGED <<drain, slot, active, results, interrupted, interrupts>>
  BY DEF StopsTool, ledger, rest
<1>2. SlotInv'
  BY <1>1 DEF BooksInv, SlotInv, Running, Live
<1> QED
  BY <1>1, <1>2, StaysKeepsBooks DEF Running

\* The other steps of run_slot.
LEMMA BodyKeepsBooks ==
    ASSUME BooksInv,
           \/ ToolAnswered \/ ToolUnwinds \/ RefusalGoesOn \/ FailureHandled \/ Leaves
           \/ Deadline \/ ToolTimer \/ SlotCancelled \/ TransportEnds
    PROVE  BooksInv'
<1>a. "cancelled" \in Outcome /\ "deadline" \in Outcome /\ "protocol" \in Outcome
  BY DEF Outcome
<1>b. ASSUME AwaitsServer PROVE pc \in Running
  BY <1>b DEF AwaitsServer, Running
<1>1. CASE ToolAnswered
  BY <1>1, AnswersToolKeepsBooks DEF ToolAnswered, rest
<1>2. CASE ToolUnwinds
  <2>1. pc \in Running /\ UNCHANGED <<slot, active>> /\ (Ends("cancelled") \/ GivesUp("deadline"))
    BY <1>2 DEF ToolUnwinds, rest, Running
  <2> QED
    BY <1>a, <2>1, EndsKeepsBooks, GivesUpKeepsBooks
<1>3. CASE RefusalGoesOn
  <2>1. pc = "refusing" /\ pc \in Running /\ UNCHANGED <<slot, active>>
    BY <1>3 DEF RefusalGoesOn, rest, Running
  <2>2. CASE MayInterrupt
    BY <1>3, <2>1, <2>2, InterruptKeepsBooks DEF RefusalGoesOn
  <2>3. CASE ~ MayInterrupt
    BY <1>3, <2>1, <2>3, FailsAtOnceKeepsBooks DEF RefusalGoesOn
  <2> QED
    BY <2>2, <2>3
<1>4. CASE FailureHandled
  BY <1>4, GivesUpKeepsBooks DEF FailureHandled, rest, Running
<1>5. CASE Leaves
  <2>1. pc = "leaving" /\ Ends(stop) /\ UNCHANGED <<slot, active>>
    BY <1>5 DEF Leaves, rest
  <2>2. interrupted = "yes" /\ stop \in {"deadline", "protocol"}
    BY <2>1 DEF BooksInv, SlotInv
  <2> QED
    BY <1>a, <2>1, <2>2, EndsKeepsBooks DEF Running
<1>6. CASE Deadline
  <2>1. CASE StopsTool("deadline")
    BY <2>1, StopsToolKeepsBooks
  <2>2. CASE LeavesTool("deadline")
    BY <2>2, LeavesToolKeepsBooks DEF LeavesTool, rest
  <2>3. CASE AwaitsServer /\ GivesUp("deadline") /\ UNCHANGED rest
    BY <1>b, <2>3, GivesUpKeepsBooks DEF rest
  <2> QED
    BY <1>6, <2>1, <2>2, <2>3 DEF Deadline
<1>7. CASE ToolTimer
  <2>1. CASE UNCHANGED <<local, ledger>>
    BY <2>1, QuietKeepsBooks DEF local, ledger
  <2>2. CASE LeavesTool("deadline")
    BY <2>2, LeavesToolKeepsBooks DEF LeavesTool, rest
  <2> QED
    BY <1>7, <2>1, <2>2 DEF ToolTimer
<1>8. CASE SlotCancelled
  <2>1. CASE StopsTool("cancelled")
    BY <2>1, StopsToolKeepsBooks
  <2>2. CASE LeavesTool("cancelled")
    BY <2>2, LeavesToolKeepsBooks DEF LeavesTool, rest
  <2>3. CASE (AwaitsServer \/ pc = "leaving") /\ Ends("cancelled") /\ UNCHANGED rest
    BY <1>a, <1>b, <2>3, EndsKeepsBooks DEF rest, Running
  <2> QED
    BY <1>8, <2>1, <2>2, <2>3 DEF SlotCancelled
<1>9. CASE TransportEnds
  <2>1. pc \in Running \cup {"new", "init"} /\ FailsAtOnce /\ UNCHANGED <<slot, active>>
    BY <1>9 DEF TransportEnds, rest, Running
  <2> QED
    BY <2>1, FailsAtOnceKeepsBooks
<1> QED
  BY <1>1, <1>2, <1>3, <1>4, <1>5, <1>6, <1>7, <1>8, <1>9

\* A slot begins.
LEMMA BeginKeepsBooks == ASSUME BooksInv, BeginSlot PROVE BooksInv'
<1>1. /\ pc = "ready" /\ slot < Len(Positions) /\ pc' = "begin" /\ slot' = slot + 1
      /\ active' = "no" /\ interrupted' = "no" /\ drain = "no" /\ UNCHANGED <<drain, stop, results, interrupts>>
  BY DEF BeginSlot, ledger
<1>2. slot \in Nat /\ slot' \in Slot /\ slot' \in Nat /\ slot' > slot /\ slot' # 0 /\ Len(Positions) \in Nat
      /\ slot' \in 0..Len(Positions)
  BY <1>1, PositionsAssumption DEF BooksInv, SlotInv, Slot
<1>3. SlotInv'
  BY <1>1, <1>2 DEF SlotInv, Running, Live
<1>4. Len(results) = slot' - 1 /\ pc' \in Running
  BY <1>1, <1>2 DEF BooksInv, ResultInv, Running
<1>5. interrupts'[slot'] = 0 /\ \A k \in Slot : k > slot' => interrupts'[k] = 0
  <2>1. \A k \in Slot : k > slot' => k > slot
    BY <1>2 DEF Slot
  <2> QED
    BY <1>1, <1>2, <2>1 DEF BooksInv, ResultInv
<1>6. \A k \in DOMAIN results : results[k].outcome = "completed"
  BY <1>1 DEF BooksInv, ResultInv
<1>7. ResultInv'
  BY <1>1, <1>2, <1>4, <1>5, <1>6 DEF BooksInv, ResultInv
<1> QED
  BY <1>3, <1>7 DEF BooksInv

\* Every step.  The host and the server leave the books alone, but for the break
\* of a pipe that a send waits for.
LEMMA BooksStep == ASSUME BooksInv, [Next]_vars PROVE BooksInv'
<1>0. ASSUME UNCHANGED <<local, ledger>> PROVE BooksInv'
  BY <1>0, QuietKeepsBooks DEF local, ledger
<1>1. CASE UNCHANGED clientVars
  BY <1>0, <1>1 DEF clientVars
<1>2. CASE Prepares \/ Spawns \/ Initialized \/ BodyEnds \/ CloseStep \/ ProcessExits \/ StderrEnds
  BY <1>1, <1>2 DEF Prepares, Spawns, Initialized, BodyEnds, CloseStep, Terminates, Reaps, AwaitsStderr,
                    RemovesJail, ProcessExits, StderrEnds
<1>3. CASE Cancel
  <2>1. CASE CancelEntering
    BY <2>1, QuietKeepsBooks DEF CancelEntering, rest, ledger
  <2> QED
    BY <1>1, <1>3, <2>1, BodyKeepsBooks DEF Cancel, CancelBody, CancelShielded, CancelClose
<1>4. CASE PipeMoves
  <2>1. CASE PipeFlows
    BY <2>1, QuietKeepsBooks DEF PipeFlows, rest, ledger
  <2>2. CASE \E died \in BOOLEAN : PipeBreaks(died)
    <3>1. drain' = "no" /\ UNCHANGED <<slot, active, interrupted, interrupts>>
      BY <2>2 DEF PipeBreaks, rest, ledger
    <3>2. CASE drain = "yes" /\ EndSlot("error")
      <4>1. pc \in Running \/ slot = 0
        BY <3>2 DEF BooksInv, SlotInv
      <4> QED
        BY <3>1, <3>2, <4>1, ErrorKeepsBooks
    <3>3. CASE UNCHANGED <<pc, stop, results>>
      BY <3>1, <3>3, QuietKeepsBooks
    <3> QED
      BY <2>2, <3>2, <3>3 DEF PipeBreaks
  <2> QED
    BY <1>4, <2>1, <2>2 DEF PipeMoves
<1>5. CASE ServerWorks
  <2>1. UNCHANGED <<local, ledger>>
    BY <1>5 DEF ServerWorks, ServerStep, ServerAnswers, ServerCalls, ServerConcludes, ServerCompletes,
                ServerDeviates
  <2> QED
    BY <1>0, <2>1
<1>6. CASE ClientWorks
  <2>1. CASE Initialize
    BY <2>1, SendsRequestKeepsBooks DEF Initialize, rest
  <2>2. CASE StartsThread
    BY <2>2, SendsRequestKeepsBooks DEF StartsThread, rest
  <2> QED
    BY <1>6, <2>1, <2>2, ReceivesKeepsBooks, BodyKeepsBooks, BeginKeepsBooks
    DEF ClientWorks, Initializes, RunsSlot
<1>7. CASE TimePasses \/ ToolTimePasses
  BY <1>7, BodyKeepsBooks DEF TimePasses, ToolTimePasses
<1>8. CASE ExecWorks
  BY <1>0, <1>8 DEF ExecWorks, ExecStep
<1>9. CASE UNCHANGED vars
  BY <1>1, <1>9 DEF vars
<1> QED
  BY <1>2, <1>3, <1>4, <1>5, <1>6, <1>7, <1>8, <1>9 DEF Next

-----------------------------------------------------------------------------
(* The budget of an investigating slot. *)

\* The calls of the turn, which refused calls are among, bound what was
\* forwarded; the slots to come have forwarded nothing.
BudgetInv ==
    /\ IsFiniteSet(calls)
    /\ forwarded \in [Slot -> Seq(Tools)]
    /\ \A k \in Slot : k > slot => forwarded[k] = <<>>
    /\ slot \in Slot => Len(forwarded[slot]) <= Cardinality(calls)
    /\ InvestigationIsBounded

\* Nothing is forwarded before the first slot.
LEMMA BudgetInit == Init => BudgetInv
<1> SUFFICES ASSUME Init PROVE BudgetInv
  OBVIOUS
<1>1. slot = 0 /\ calls = {} /\ forwarded = [k \in Slot |-> <<>>]
  BY DEF Init, ClientInit
<1>2. IsFiniteSet(calls)
  BY <1>1, FS_EmptySet
<1>3. slot \notin Slot
  BY <1>1, PositionsAssumption DEF Slot
<1>4. \A k \in Slot : Positions[k] < 3 => 0 <= ReadLimit[Positions[k]]
  <2> TAKE k \in Slot
  <2>1. Positions[k] \in 1..3
    BY PositionsAssumption DEF Slot
  <2> QED
    BY <2>1, ClientAssumption
<1>5. InvestigationIsBounded
  BY <1>1, <1>4 DEF InvestigationIsBounded
<1>6. forwarded \in [Slot -> Seq(Tools)]
  BY <1>1
<1> QED
  BY <1>1, <1>2, <1>3, <1>5, <1>6 DEF BudgetInv

\* What a step may do to the calls of the turn and to what was forwarded: nothing,
\* or a call enters the books, and is refused or forwarded within the budget.
Passes == UNCHANGED <<slot, calls, forwarded>>

Refuses == UNCHANGED <<slot, forwarded>> /\ \E m : calls' = calls \cup {m.id}

Forwards ==
    /\ UNCHANGED slot
    /\ pc = "listen"
    /\ \E m :
          /\ ToolAllowed(m)
          /\ ~ OverLimit(m)
          /\ calls' = calls \cup {m.id}
          /\ forwarded' = [forwarded EXCEPT ![slot] = Append(@, m.kind)]

BudgetMoves == Passes \/ Refuses \/ Forwards \/ BeginSlot

\* Every step is one of these.
LEMMA NextIsBudgetMove == ASSUME [Next]_vars PROVE BudgetMoves
<1>0. ASSUME UNCHANGED rest \/ UNCHANGED <<local, ledger>> PROVE BudgetMoves
  BY <1>0 DEF rest, local, ledger, BudgetMoves, Passes
<1>1. CASE UNCHANGED clientVars
  BY <1>0, <1>1 DEF clientVars
<1>2. CASE Prepares \/ Spawns \/ Initialized \/ BodyEnds \/ CloseStep \/ ProcessExits \/ StderrEnds
  BY <1>1, <1>2 DEF Prepares, Spawns, Initialized, BodyEnds, CloseStep, Terminates, Reaps, AwaitsStderr,
                    RemovesJail, ProcessExits, StderrEnds
<1>3. ASSUME Deadline \/ ToolTimer \/ SlotCancelled \/ TransportEnds \/ ToolAnswered \/ ToolUnwinds
             \/ RefusalGoesOn \/ FailureHandled \/ Leaves \/ Initialize \/ StartsThread
      PROVE  BudgetMoves
  <2>1. UNCHANGED rest \/ UNCHANGED <<local, ledger>>
    BY <1>3 DEF Deadline, ToolTimer, SlotCancelled, TransportEnds, ToolAnswered, ToolUnwinds,
                RefusalGoesOn, FailureHandled, Leaves, Initialize, StartsThread, StopsTool, LeavesTool
  <2> QED
    BY <1>0, <2>1
<1>4. CASE Cancel
  BY <1>0, <1>1, <1>3, <1>4 DEF Cancel, CancelEntering, CancelBody, CancelShielded, CancelClose
<1>5. CASE PipeMoves
  BY <1>0, <1>5 DEF PipeMoves, PipeFlows, PipeBreaks
<1>6. CASE ServerWorks
  BY <1>0, <1>6 DEF ServerWorks, ServerStep, ServerAnswers, ServerCalls, ServerConcludes, ServerCompletes,
                    ServerDeviates
<1>7. ASSUME NEW m,
             \/ ResponseAccepted(m) \/ NotificationDropped(m) \/ RequestFails(m) \/ MessageRaises(m)
             \/ ToolForwarded(m) \/ ToolRefused(m) \/ NotificationRecorded(m)
             \/ TurnCompletes(m) \/ TurnFails(m)
      PROVE  BudgetMoves
  <2>1. CASE ToolForwarded(m)
    BY <2>1 DEF ToolForwarded, BudgetMoves, Forwards
  <2>2. CASE ToolRefused(m)
    BY <2>2 DEF ToolRefused, BudgetMoves, Refuses
  <2>3. CASE ~ ToolForwarded(m) /\ ~ ToolRefused(m)
    <3>1. UNCHANGED rest \/ UNCHANGED <<local, ledger>> \/ UNCHANGED <<slot, calls, forwarded>>
      BY <1>7, <2>3 DEF ResponseAccepted, NotificationDropped, RequestFails, MessageRaises,
                        NotificationRecorded, TurnCompletes, TurnFails, ledger, SendsRequest,
                        SendsNothing, Fails, EndSlot
    <3> QED
      BY <1>0, <3>1 DEF BudgetMoves, Passes
  <2> QED
    BY <2>1, <2>2, <2>3
<1>8. CASE ClientWorks
  BY <1>3, <1>7, <1>8 DEF ClientWorks, Initializes, RunsSlot, Receives, BudgetMoves
<1>9. CASE TimePasses \/ ToolTimePasses
  BY <1>3, <1>9 DEF TimePasses, ToolTimePasses
<1>10. CASE ExecWorks
  BY <1>0, <1>10 DEF ExecWorks, ExecStep
<1>11. CASE UNCHANGED vars
  BY <1>1, <1>11 DEF vars
<1> QED
  BY <1>2, <1>4, <1>5, <1>6, <1>8, <1>9, <1>10, <1>11 DEF Next

\* The moves keep BudgetInv.
LEMMA BudgetStep == ASSUME SlotInv, BudgetInv, BudgetMoves PROVE BudgetInv'
<1> USE DEF BudgetInv
<1>1. CASE Passes
  BY <1>1 DEF Passes, InvestigationIsBounded
<1>2. CASE Refuses
  <2>1. UNCHANGED <<slot, forwarded>>
    BY <1>2 DEF Refuses
  <2>2. PICK id : calls' = calls \cup {id}
    BY <1>2 DEF Refuses
  <2>3. IsFiniteSet(calls') /\ Cardinality(calls) <= Cardinality(calls')
    <3>1. /\ IsFiniteSet(calls \cup {id})
          /\ \/ Cardinality(calls \cup {id}) = Cardinality(calls)
             \/ Cardinality(calls \cup {id}) = Cardinality(calls) + 1
      BY FS_AddElement
    <3>2. Cardinality(calls) \in Nat
      BY FS_CardinalityType
    <3> QED
      BY <2>2, <3>1, <3>2
  <2>4. slot \in Slot => Len(forwarded[slot]) \in Nat
    OBVIOUS
  <2>5. slot \in Slot => Len(forwarded[slot]) <= Cardinality(calls')
    BY <2>2, <2>3, <2>4, FS_CardinalityType
  <2> QED
    BY <2>1, <2>3, <2>5 DEF InvestigationIsBounded
<1>3. CASE Forwards
  <2>1. UNCHANGED slot /\ slot \in Slot
    BY <1>3 DEF Forwards, SlotInv, Live
  <2>2. PICK m : /\ ToolAllowed(m)
                 /\ ~ OverLimit(m)
                 /\ calls' = calls \cup {m.id}
                 /\ forwarded' = [forwarded EXCEPT ![slot] = Append(@, m.kind)]
    BY <1>3 DEF Forwards
  <2>3. /\ IsFiniteSet(calls')
        /\ Cardinality(calls) \in Nat
        /\ Cardinality(calls') = Cardinality(calls) + 1
    BY <2>2, FS_AddElement, FS_CardinalityType DEF ToolAllowed
  <2> DEFINE old == forwarded[slot]
             new == Append(old, m.kind)
  <2>4. old \in Seq(Tools) /\ m.kind \in Tools
    BY <2>1, <2>2 DEF ToolAllowed
  <2>5. new \in Seq(Tools) /\ Len(new) = Len(old) + 1 /\ Len(old) \in Nat /\ Len(old) <= Cardinality(calls)
    BY <2>1, <2>4
  <2>6. Len(new) <= Cardinality(calls')
    BY <2>3, <2>5
  <2>7. forwarded' \in [Slot -> Seq(Tools)] /\ forwarded'[slot] = new
        /\ \A k \in Slot : k # slot => forwarded'[k] = forwarded[k]
    BY <2>1, <2>2, <2>5
  <2>8. Positions[slot] < 3 =>
            /\ Len(new) <= ReadLimit[Positions[slot]]
            /\ \A i \in DOMAIN new : new[i] = "read"
    <3> SUFFICES ASSUME Positions[slot] < 3
                 PROVE  /\ Len(new) <= ReadLimit[Positions[slot]]
                        /\ \A i \in DOMAIN new : new[i] = "read"
      OBVIOUS
    <3>1. Positions[slot] \in 1..2
      BY <2>1, PositionsAssumption DEF Slot
    <3>2. ReadLimit[Positions[slot]] \in Nat
      BY <3>1, ClientAssumption
    <3>3. Cardinality(calls') <= ReadLimit[Positions[slot]]
      BY <2>2, <2>3, <3>2 DEF OverLimit
    <3>4. Len(new) <= ReadLimit[Positions[slot]]
      BY <2>3, <2>5, <2>6, <3>2, <3>3
    <3>5. m.kind = "read"
      BY <2>2, <3>1 DEF ToolAllowed, Tools
    <3>6. \A i \in DOMAIN old : old[i] = "read"
      BY <2>1 DEF InvestigationIsBounded
    <3>7. \A i \in DOMAIN new : new[i] = "read"
      BY <2>4, <3>5, <3>6
    <3> QED
      BY <3>4, <3>7
  <2> HIDE DEF old, new
  <2>9. InvestigationIsBounded'
    BY <2>7, <2>8 DEF InvestigationIsBounded
  <2>10. \A k \in Slot : k > slot' => forwarded'[k] = <<>>
    BY <2>1, <2>7 DEF Slot
  <2> QED
    BY <2>1, <2>3, <2>6, <2>7, <2>9, <2>10
<1>4. CASE BeginSlot
  <2>1. slot' = slot + 1 /\ calls' = {} /\ slot < Len(Positions) /\ UNCHANGED forwarded
    BY <1>4 DEF BeginSlot, ledger
  <2>2. slot \in Nat /\ slot' \in Slot /\ slot' > slot
    BY <2>1, PositionsAssumption DEF SlotInv, Slot
  <2>3. IsFiniteSet(calls') /\ Cardinality(calls') = 0
    BY <2>1, FS_EmptySet
  <2>4. Len(forwarded'[slot']) <= Cardinality(calls')
    BY <2>1, <2>2, <2>3
  <2>5. \A k \in Slot : k > slot' => forwarded'[k] = <<>>
    BY <2>1, <2>2 DEF Slot
  <2> QED
    BY <2>1, <2>3, <2>4, <2>5 DEF InvestigationIsBounded
<1> QED
  BY <1>1, <1>2, <1>3, <1>4 DEF BudgetMoves

(* A slot that investigates forwards at most its budget of reads, and nothing
   that executes, however many calls the server makes and repeats: for any
   budgets (_handle_tool_call and READ_ONLY_TOOL_LIMITS). *)
THEOREM InvestigationBounded == Spec => []InvestigationIsBounded
<1>1. Init => BooksInv /\ BudgetInv
  BY BooksInit, BudgetInit
<1>2. BooksInv /\ BudgetInv /\ [Next]_vars => BooksInv' /\ BudgetInv'
  BY NextIsBudgetMove, BooksStep, BudgetStep DEF BooksInv
<1>3. BudgetInv => InvestigationIsBounded
  BY DEF BudgetInv
<1> QED
  BY <1>1, <1>2, <1>3, PTL DEF Spec

-----------------------------------------------------------------------------
(* The messages. *)

ToServer ==
    [kind : {"initialize", "initialized", "thread", "turn", "interrupt", "reply"}, id : Nat, turn : Nat]

WireType ==
    /\ nextId \in Nat
    /\ toClient \in Seq(Message)
    /\ toServer \in Seq(ToServer)
    /\ turn \in [Slot -> {"none", "running", "ended"}]
    /\ asked \in [Slot -> Nat] /\ answered \in [Slot -> Nat] /\ finals \in [Slot -> Nat]

\* The slots whose turn/start may have been sent.
Begun == {k \in Slot : k < slot \/ (k = slot /\ pc \notin {"begin", "thread"})}

\* What the client has sent: turn/start once for each turn, before its interrupt.
OutboundInv ==
    /\ \A k \in Slot \ Begun : turn[k] = "none"
    /\ \A i \in DOMAIN toServer : toServer[i].kind \in {"turn", "interrupt"} => toServer[i].turn \in Begun
    /\ \A i, j \in DOMAIN toServer :
          /\ toServer[i].kind = "turn"
          /\ toServer[j].kind \in {"turn", "interrupt"}
          /\ toServer[i].turn = toServer[j].turn
          => i <= j
    /\ \A i \in DOMAIN toServer : toServer[i].kind = "turn" => turn[toServer[i].turn] = "none"

Completion(m) == m.kind = "done" /\ m.ok = "good"

\* What the server has sent: a turn's messages come once it runs, its completion
\* with the one final answer when it ends.
InboundInv ==
    /\ \A i \in DOMAIN toClient : toClient[i].kind # "result" =>
          toClient[i].turn \in Slot /\ turn[toClient[i].turn] # "none"
    /\ \A i \in DOMAIN toClient : Completion(toClient[i]) =>
          turn[toClient[i].turn] = "ended" /\ finals[toClient[i].turn] = 1
    /\ \A k \in Slot : turn[k] = "none" =>
          asked[k] = 0 /\ answered[k] = 0 /\ (k = slot => pc # "exec")

Calls(m, k) == IF m.kind \in Tools /\ m.turn = k THEN 1 ELSE 0

\* f[i] is the number of calls of the turn under way that are answered, being
\* executed, or among the first i messages to come.
Tally(f) ==
    /\ f[0] = answered[slot] + (IF pc = "exec" THEN 1 ELSE 0)
    /\ \A i \in 1..Len(toClient) : f[i] = f[i - 1] + Calls(toClient[i], slot)
    /\ turn[slot] = "running" => f[Len(toClient)] = asked[slot]
    /\ \A i \in 1..Len(toClient) :
          Completion(toClient[i]) /\ toClient[i].turn = slot => f[i] = asked[slot]

TallyInv ==
    pc \in Live /\ turn[slot] # "none" => \E f \in [0..Len(toClient) -> Nat] : Tally(f)

\* ResultIsWholeTurn but for the interrupts.
WholeTurns ==
    \A k \in DOMAIN results : results[k].outcome = "completed" =>
        turn[k] = "ended" /\ finals[k] = 1 /\ asked[k] = answered[k]

WireInv == WireType /\ OutboundInv /\ InboundInv /\ TallyInv /\ WholeTurns

\* A sequence without its head.
LEMMA TailFacts ==
    ASSUME NEW S, NEW s \in Seq(S), s # <<>>
    PROVE  /\ Len(s) \in Nat /\ Len(s) >= 1 /\ DOMAIN s = 1..Len(s)
           /\ Head(s) = s[1] /\ s[1] \in S
           /\ Tail(s) \in Seq(S) /\ Len(Tail(s)) = Len(s) - 1 /\ DOMAIN Tail(s) = 1..Len(s) - 1
           /\ \A i \in 1..Len(s) - 1 : i + 1 \in 1..Len(s) /\ Tail(s)[i] = s[i + 1]
OBVIOUS

\* One sequence after another.
LEMMA ConcatFacts ==
    ASSUME NEW S, NEW s \in Seq(S), NEW t \in Seq(S)
    PROVE  /\ Len(s) \in Nat /\ Len(t) \in Nat
           /\ DOMAIN s = 1..Len(s) /\ DOMAIN t = 1..Len(t)
           /\ s \o t \in Seq(S) /\ Len(s \o t) = Len(s) + Len(t)
           /\ DOMAIN (s \o t) = 1..Len(s) + Len(t)
           /\ \A i \in 1..Len(s) : (s \o t)[i] = s[i]
           /\ \A i \in 1..Len(s) + Len(t) : i > Len(s) => i - Len(s) \in 1..Len(t) /\ (s \o t)[i] = t[i - Len(s)]
OBVIOUS

\* Requests of other kinds, replies and interrupts may follow what was sent.
LEMMA OutboundSends ==
    ASSUME WireType, OutboundInv,
           NEW more \in Seq(ToServer), toServer' = toServer \o more,
           \A i \in DOMAIN more : more[i].kind # "turn"
               /\ (more[i].kind = "interrupt" => more[i].turn \in Begun'),
           UNCHANGED turn, Begun \subseteq Begun'
    PROVE  OutboundInv'
<1>1. /\ Len(toServer) \in Nat /\ Len(more) \in Nat
      /\ DOMAIN toServer = 1..Len(toServer) /\ DOMAIN more = 1..Len(more)
      /\ DOMAIN toServer' = 1..Len(toServer) + Len(more)
      /\ \A i \in DOMAIN toServer : toServer'[i] = toServer[i]
      /\ \A i \in DOMAIN toServer' :
            i > Len(toServer) => i - Len(toServer) \in DOMAIN more /\ toServer'[i] = more[i - Len(toServer)]
  BY ConcatFacts DEF WireType
<1>2. \A i \in DOMAIN toServer' : i \in DOMAIN toServer \/ i > Len(toServer)
  BY <1>1
<1>3. \A i \in DOMAIN toServer' : toServer'[i].kind = "turn" => i \in DOMAIN toServer
  BY <1>1, <1>2
<1>4. \A i \in DOMAIN toServer' : toServer'[i].kind \in {"turn", "interrupt"} => toServer'[i].turn \in Begun'
  <2> TAKE i \in DOMAIN toServer'
  <2>1. CASE i \in DOMAIN toServer
    BY <1>1, <2>1 DEF OutboundInv
  <2>2. CASE i > Len(toServer)
    BY <1>1, <2>2
  <2> QED
    BY <1>2, <2>1, <2>2
<1>5. \A i, j \in DOMAIN toServer' :
          /\ toServer'[i].kind = "turn"
          /\ toServer'[j].kind \in {"turn", "interrupt"}
          /\ toServer'[i].turn = toServer'[j].turn
          => i <= j
  <2> TAKE i, j \in DOMAIN toServer'
  <2> HAVE /\ toServer'[i].kind = "turn"
           /\ toServer'[j].kind \in {"turn", "interrupt"}
           /\ toServer'[i].turn = toServer'[j].turn
  <2>1. i \in DOMAIN toServer /\ toServer'[i] = toServer[i]
    BY <1>1, <1>3
  <2>2. CASE j \in DOMAIN toServer
    BY <1>1, <2>1, <2>2 DEF OutboundInv
  <2>3. CASE j > Len(toServer)
    BY <1>1, <2>1, <2>3
  <2> QED
    BY <1>2, <2>2, <2>3
<1>6. \A i \in DOMAIN toServer' : toServer'[i].kind = "turn" => turn'[toServer'[i].turn] = "none"
  BY <1>1, <1>3 DEF OutboundInv
<1>7. \A k \in Slot \ Begun' : turn'[k] = "none"
  BY DEF OutboundInv
<1> QED
  BY <1>4, <1>5, <1>6, <1>7 DEF OutboundInv

\* turn/start is sent when the thread has started.
LEMMA OutboundStarts ==
    ASSUME WireType, OutboundInv, slot \in Slot, pc = "thread", pc' = "turn", UNCHANGED <<slot, turn>>,
           toServer' = Append(toServer, Request("turn", nextId))
    PROVE  OutboundInv'
<1> DEFINE new == Request("turn", nextId)
<1>1. new \in ToServer /\ new.kind = "turn" /\ new.turn = slot
  BY DEF Request, Slot, WireType, ToServer
<1> HIDE DEF new
<1>2. /\ Len(toServer) \in Nat /\ DOMAIN toServer = 1..Len(toServer)
      /\ DOMAIN toServer' = 1..Len(toServer) + 1
      /\ \A i \in DOMAIN toServer : toServer'[i] = toServer[i]
      /\ toServer'[Len(toServer) + 1] = new
  BY <1>1 DEF WireType, new
<1>3. \A i \in DOMAIN toServer' : i \in DOMAIN toServer \/ i = Len(toServer) + 1
  BY <1>2
<1>4. \A i \in DOMAIN toServer : toServer[i].kind \in {"turn", "interrupt"} => toServer[i].turn # slot
  <2> TAKE i \in DOMAIN toServer
  <2> HAVE toServer[i].kind \in {"turn", "interrupt"}
  <2>1. toServer[i].turn \in Begun
    BY DEF OutboundInv
  <2> QED
    BY <2>1 DEF Begun, Slot
<1>5. Begun' = Begun \cup {slot}
  BY DEF Begun, Slot
<1>6. turn[slot] = "none"
  <2>1. slot \notin Begun
    BY DEF Begun, Slot
  <2> QED
    BY <2>1 DEF OutboundInv
<1>7. \A i \in DOMAIN toServer' : toServer'[i].kind \in {"turn", "interrupt"} => toServer'[i].turn \in Begun'
  BY <1>1, <1>2, <1>3, <1>5 DEF OutboundInv
<1>8. \A i, j \in DOMAIN toServer' :
          /\ toServer'[i].kind = "turn"
          /\ toServer'[j].kind \in {"turn", "interrupt"}
          /\ toServer'[i].turn = toServer'[j].turn
          => i <= j
  <2> TAKE i, j \in DOMAIN toServer'
  <2> HAVE /\ toServer'[i].kind = "turn"
           /\ toServer'[j].kind \in {"turn", "interrupt"}
           /\ toServer'[i].turn = toServer'[j].turn
  <2>1. CASE j = Len(toServer) + 1
    BY <1>2, <2>1
  <2>2. CASE j \in DOMAIN toServer
    <3>1. toServer'[i].turn # slot
      BY <1>2, <1>4, <2>2
    <3>2. i \in DOMAIN toServer
      BY <1>1, <1>2, <1>3, <3>1
    <3> QED
      BY <1>2, <2>2, <3>2 DEF OutboundInv
  <2> QED
    BY <1>3, <2>1, <2>2
<1>9. \A i \in DOMAIN toServer' : toServer'[i].kind = "turn" => turn'[toServer'[i].turn] = "none"
  BY <1>1, <1>2, <1>3, <1>6 DEF OutboundInv
<1>10. \A k \in Slot \ Begun' : turn'[k] = "none"
  BY <1>5 DEF OutboundInv
<1> QED
  BY <1>7, <1>8, <1>9, <1>10 DEF OutboundInv

\* The client takes a message, or none.
LEMMA InboundReceives ==
    ASSUME WireType, InboundInv,
           toClient' = toClient \/ (toClient # <<>> /\ toClient' = Tail(toClient)),
           UNCHANGED server,
           \A k \in Slot : turn[k] = "none" => answered'[k] = 0 /\ (k = slot' => pc' # "exec")
    PROVE  InboundInv'
<1>1. \A i \in DOMAIN toClient' : \E j \in DOMAIN toClient : toClient'[i] = toClient[j]
  <2>1. CASE toClient' = toClient
    BY <2>1
  <2>2. CASE toClient # <<>> /\ toClient' = Tail(toClient)
    BY <2>2, TailFacts DEF WireType
  <2> QED
    BY <2>1, <2>2
<1> QED
  BY <1>1 DEF InboundInv, server, Completion

\* The tally goes on when a message has been taken.
LEMMA TallyTakes ==
    ASSUME WireType, NEW f \in [0..Len(toClient) -> Nat], Tally(f), NEW m, Took(m), UNCHANGED <<server, slot>>,
           f[1] = answered'[slot] + (IF pc' = "exec" THEN 1 ELSE 0)
    PROVE  \E g \in [0..Len(toClient') -> Nat] : Tally(g)'
<1>1. PICK len \in Nat : len = Len(toClient)
  BY DEF WireType
<1>2. /\ len >= 1 /\ Len(toClient') = len - 1
      /\ \A i \in 1..len - 1 : i + 1 \in 1..len /\ toClient'[i] = toClient[i + 1]
  BY <1>1, TailFacts DEF Took, WireType
<1>3. PICK g \in [0..len - 1 -> Nat] : \A i \in 0..len - 1 : i + 1 \in 0..len /\ g[i] = f[i + 1]
  <2>1. \A i \in 0..len - 1 : i + 1 \in 0..len
    BY <1>2
  <2>2. [i \in 0..len - 1 |-> f[i + 1]] \in [0..len - 1 -> Nat]
    BY <1>1, <2>1
  <2> QED
    BY <2>1, <2>2
<1>4. g[0] = f[1] /\ g[len - 1] = f[len]
  <2>1. 0 \in 0..len - 1 /\ len - 1 \in 0..len - 1 /\ 0 + 1 = 1 /\ (len - 1) + 1 = len
    BY <1>2
  <2> QED
    BY <1>3, <2>1
<1>6. \A i \in 1..len - 1 : g[i] = g[i - 1] + Calls(toClient'[i], slot)
  <2> TAKE i \in 1..len - 1
  <2>1. i \in 0..len - 1 /\ i - 1 \in 0..len - 1 /\ (i - 1) + 1 = i /\ (i + 1) - 1 = i /\ i + 1 \in 1..len
    BY <1>2
  <2>2. f[i + 1] = f[(i + 1) - 1] + Calls(toClient[i + 1], slot)
    BY <1>1, <2>1 DEF Tally
  <2> QED
    BY <1>2, <1>3, <2>1, <2>2
<1>7. \A i \in 1..len - 1 : Completion(toClient'[i]) /\ toClient'[i].turn = slot => g[i] = asked[slot]
  <2> TAKE i \in 1..len - 1
  <2>1. i \in 0..len - 1 /\ i + 1 \in 1..len
    BY <1>2
  <2> QED
    BY <1>1, <1>2, <1>3, <2>1 DEF Tally
<1>8. turn[slot] = "running" => g[len - 1] = asked[slot]
  BY <1>1, <1>4 DEF Tally
<1>9. Tally(g)'
  BY <1>2, <1>4, <1>6, <1>7, <1>8 DEF Tally, server, Completion
<1> QED
  BY <1>2, <1>9

\* The tally goes on when the server has said more.
LEMMA TallyHears ==
    ASSUME WireType, NEW f \in [0..Len(toClient) -> Nat], Tally(f), UNCHANGED <<slot, pc, answered>>,
           NEW m \in Message, toClient' = Append(toClient, m),
           turn'[slot] = "running" => turn[slot] = "running" /\ asked'[slot] = asked[slot] + Calls(m, slot),
           \A i \in DOMAIN toClient : Completion(toClient[i]) /\ toClient[i].turn = slot =>
               asked'[slot] = asked[slot],
           Completion(m) /\ m.turn = slot => turn[slot] = "running" /\ asked'[slot] = asked[slot]
    PROVE  \E g \in [0..Len(toClient') -> Nat] : Tally(g)'
<1>1. PICK len \in Nat : len = Len(toClient)
  BY DEF WireType
<1>2. /\ Len(toClient') = len + 1 /\ toClient'[len + 1] = m
      /\ \A i \in 1..len : toClient'[i] = toClient[i]
  BY <1>1 DEF WireType
<1>3. Calls(m, slot) \in {0, 1}
  BY DEF Calls
<1>4. f[len] + Calls(m, slot) \in Nat /\ f[len] \in Nat
  <2>1. len \in 0..len
    OBVIOUS
  <2> QED
    BY <1>1, <1>3, <2>1
<1>5. PICK g \in [0..len + 1 -> Nat] :
          g[len + 1] = f[len] + Calls(m, slot) /\ \A i \in 0..len : i \in 0..len + 1 /\ g[i] = f[i]
  <2> DEFINE g == [i \in 0..len + 1 |-> IF i = len + 1 THEN f[len] + Calls(m, slot) ELSE f[i]]
  <2>1. g \in [0..len + 1 -> Nat]
    BY <1>1, <1>4
  <2>2. g[len + 1] = f[len] + Calls(m, slot) /\ \A i \in 0..len : i \in 0..len + 1 /\ g[i] = f[i]
    OBVIOUS
  <2> QED
    BY <2>1, <2>2
<1>6. g[0] = f[0] /\ g[len] = f[len]
  <2>1. 0 \in 0..len /\ len \in 0..len
    OBVIOUS
  <2> QED
    BY <1>5, <2>1
<1>8. \A i \in 1..len + 1 : i \in 1..len \/ i = len + 1
  OBVIOUS
<1>9. \A i \in 1..len + 1 : g[i] = g[i - 1] + Calls(toClient'[i], slot)
  <2> TAKE i \in 1..len + 1
  <2>1. CASE i \in 1..len
    <3>1. i \in 0..len /\ i - 1 \in 0..len
      BY <2>1
    <3>2. f[i] = f[i - 1] + Calls(toClient[i], slot)
      BY <1>1, <2>1 DEF Tally
    <3> QED
      BY <1>2, <1>5, <2>1, <3>1, <3>2
  <2>2. CASE i = len + 1
    <3>1. (len + 1) - 1 = len
      OBVIOUS
    <3> QED
      BY <1>2, <1>5, <1>6, <2>2, <3>1
  <2> QED
    BY <1>8, <2>1, <2>2
<1>10. turn'[slot] = "running" => g[len + 1] = asked'[slot]
  BY <1>1, <1>5 DEF Tally
<1>11. \A i \in 1..len + 1 : Completion(toClient'[i]) /\ toClient'[i].turn = slot => g[i] = asked'[slot]
  <2> TAKE i \in 1..len + 1
  <2> HAVE Completion(toClient'[i]) /\ toClient'[i].turn = slot
  <2>1. CASE i \in 1..len
    <3>1. i \in DOMAIN toClient /\ i \in 0..len
      BY <1>1, <2>1 DEF WireType
    <3>2. Completion(toClient[i]) /\ toClient[i].turn = slot
      BY <1>2, <2>1
    <3>3. f[i] = asked[slot]
      BY <1>1, <2>1, <3>2 DEF Tally
    <3>4. asked'[slot] = asked[slot]
      BY <3>1, <3>2
    <3> QED
      BY <1>5, <3>1, <3>3, <3>4
  <2>2. CASE i = len + 1
    <3>1. m.kind = "done" /\ turn[slot] = "running" /\ asked'[slot] = asked[slot]
      BY <1>2, <2>2 DEF Completion
    <3>2. Calls(m, slot) = 0
      BY <3>1 DEF Calls, Tools
    <3> QED
      BY <1>1, <1>4, <1>5, <2>2, <3>1, <3>2 DEF Tally
  <2> QED
    BY <1>8, <2>1, <2>2
<1>12. Tally(g)'
  BY <1>2, <1>6, <1>9, <1>10, <1>11 DEF Tally, Completion
<1> QED
  BY <1>2, <1>12

\* Before the turn runs there is nothing to tally.
LEMMA TallyStarts ==
    ASSUME WireType, InboundInv, slot \in Slot, turn[slot] = "none", UNCHANGED <<slot, pc, answered, asked>>,
           NEW more \in Seq(Message), toClient' = toClient \o more,
           \A i \in DOMAIN more : more[i].kind \notin Tools /\ ~ Completion(more[i])
    PROVE  \E g \in [0..Len(toClient') -> Nat] : Tally(g)'
<1>1. PICK len \in Nat : len = Len(toClient')
  BY ConcatFacts DEF WireType
<1>2. ASSUME NEW i \in 1..len
      PROVE  ~ (toClient'[i].kind \in Tools /\ toClient'[i].turn = slot)
             /\ ~ (Completion(toClient'[i]) /\ toClient'[i].turn = slot)
  <2>1. /\ Len(toClient) \in Nat /\ DOMAIN toClient = 1..Len(toClient)
        /\ i <= Len(toClient) => i \in DOMAIN toClient /\ toClient'[i] = toClient[i]
        /\ i > Len(toClient) => i - Len(toClient) \in DOMAIN more /\ toClient'[i] = more[i - Len(toClient)]
    BY <1>1, ConcatFacts DEF WireType
  <2>2. CASE i <= Len(toClient)
    <3>1. toClient'[i].kind # "result" => turn[toClient'[i].turn] # "none"
      BY <2>1, <2>2 DEF InboundInv
    <3> QED
      BY <3>1 DEF Completion, Tools
  <2>3. CASE i > Len(toClient)
    BY <2>1, <2>3
  <2> QED
    BY <2>1, <2>2, <2>3
<1>3. asked'[slot] = 0 /\ answered'[slot] = 0 /\ pc' # "exec"
  BY DEF InboundInv
<1>4. PICK g \in [0..len -> Nat] : \A i \in 0..len : g[i] = 0
  <2>1. [i \in 0..len |-> 0] \in [0..len -> Nat]
    OBVIOUS
  <2> QED
    BY <2>1
<1>5. g[0] = 0 /\ g[len] = 0
  BY <1>4
<1>6. \A i \in 1..len : g[i] = g[i - 1] + Calls(toClient'[i], slot)
  <2> TAKE i \in 1..len
  <2>1. i \in 0..len /\ i - 1 \in 0..len
    OBVIOUS
  <2>2. Calls(toClient'[i], slot) = 0
    BY <1>2 DEF Calls
  <2> QED
    BY <1>4, <2>1, <2>2
<1>7. Tally(g)'
  BY <1>1, <1>2, <1>3, <1>5, <1>6 DEF Tally, Completion
<1> QED
  BY <1>1, <1>7

-----------------------------------------------------------------------------
(* The moves of the client as the messages see them. *)

Unmoved == UNCHANGED <<pc, slot, nextId, results, toClient, toServer, server, answered>>

Received == toClient' = toClient \/ (toClient # <<>> /\ toClient' = Tail(toClient))

\* What is written beyond the requests of a turn: nothing, a reply, a request that
\* concerns no turn, or the interrupt of the slot's own turn.
Adds ==
    /\ nextId' \in Nat
    /\ \E more \in Seq(ToServer) :
          /\ toServer' = toServer \o more
          /\ \A i \in DOMAIN more : more[i].kind # "turn"
                /\ (more[i].kind = "interrupt" => slot \in Slot /\ more[i].turn = slot)

\* The client is not, or no longer, in the middle of a turn that may complete.  A
\* slot has completed only by an accepted completion.
OffTurn ==
    /\ pc' \notin Live
    /\ UNCHANGED <<slot, server, answered>>
    /\ Received
    /\ Adds
    /\ \/ UNCHANGED results
       \/ /\ pc \in Running /\ slot # 0
          /\ \E r : /\ results' = Append(results, r)
                    /\ r.outcome = "completed" =>
                          pc = "listen" /\ \E m : Took(m) /\ CompletionAccepted(m)

\* A message that is no tool call is taken; turn/start follows thread/start.
Reads ==
    /\ UNCHANGED <<slot, results, server, answered>>
    /\ pc \in Live \ {"exec"} /\ pc' \in Live \ {"exec"}
    /\ \E m : Took(m) /\ m.kind \notin Tools
    /\ \/ (pc' \in {"begin", "thread"} <=> pc \in {"begin", "thread"}) /\ UNCHANGED <<toServer, nextId>>
       \/ /\ pc = "thread" /\ pc' = "turn"
          /\ toServer' = Append(toServer, Request("turn", nextId))
          /\ nextId' = nextId + 1

AnswersCall ==
    /\ toServer' = Append(toServer, Reply(slot))
    /\ answered' = [answered EXCEPT ![slot] = @ + 1]

\* A tool call is taken, and executed or answered.
TakesCall ==
    /\ UNCHANGED <<slot, results, server, nextId>>
    /\ pc = "listen"
    /\ \E m : Took(m) /\ m.kind \in Tools /\ m.turn = slot
    /\ \/ pc' = "exec" /\ UNCHANGED <<toServer, answered>>
       \/ pc' = "listen" /\ AnswersCall

\* The call that was executed is answered.
EndsCall ==
    /\ UNCHANGED <<slot, results, server, nextId, toClient>>
    /\ pc = "exec" /\ pc' = "listen"
    /\ AnswersCall

\* A slot begins, and asks for its thread.
Starts ==
    /\ UNCHANGED <<results, toClient, server, answered>>
    /\ \/ BeginSlot /\ UNCHANGED <<toServer, nextId>>
       \/ /\ pc = "begin" /\ pc' = "thread" /\ UNCHANGED slot
          /\ toServer' = Append(toServer, Request("thread", nextId))
          /\ nextId' = nextId + 1

ClientMoves == Unmoved \/ OffTurn \/ Reads \/ TakesCall \/ EndsCall \/ Starts

\* Nothing is written.
LEMMA NothingAdds == ASSUME WireType, UNCHANGED <<toServer, nextId>> PROVE Adds
<1>1. <<>> \in Seq(ToServer) /\ toServer' = toServer \o <<>> /\ DOMAIN <<>> = {}
  BY DEF WireType
<1> QED
  BY <1>1 DEF Adds, WireType

\* One message is written.
LEMMA OneAdds ==
    ASSUME WireType, NEW new \in ToServer, toServer' = toServer \o <<new>>, nextId' \in Nat,
           new.kind # "turn", new.kind = "interrupt" => slot \in Slot /\ new.turn = slot
    PROVE  Adds
<1>1. <<new>> \in Seq(ToServer) /\ \A i \in DOMAIN <<new>> : <<new>>[i] = new
  OBVIOUS
<1> QED
  BY <1>1 DEF Adds

\* A reply is written.
LEMMA ReplyAdds ==
    ASSUME WireType, NEW t \in Nat, toServer' = toServer \o <<Reply(t)>>, UNCHANGED nextId
    PROVE  Adds
<1>1. Reply(t) \in ToServer /\ Reply(t).kind = "reply"
  BY DEF Reply, ToServer
<1> HIDE DEF Reply
<1> QED
  BY <1>1, OneAdds DEF WireType

\* A request is written, whose id is taken.
LEMMA RequestAdds ==
    ASSUME WireType, SlotInv, NEW kind \in {"initialize", "thread", "interrupt"},
           toServer' = toServer \o <<Request(kind, nextId)>>, nextId' = nextId + 1,
           kind = "interrupt" => slot \in Slot
    PROVE  Adds
<1> DEFINE new == Request(kind, nextId)
<1>1. slot \in Nat /\ nextId' \in Nat
  BY DEF SlotInv, WireType
<1>2. new \in ToServer /\ new.kind = kind /\ new.turn = slot
  BY <1>1 DEF Request, ToServer, WireType
<1> HIDE DEF new
<1>3. toServer' = toServer \o <<new>>
  BY DEF new
<1> QED
  BY <1>1, <1>2, <1>3, OneAdds

\* A slot, or initialize, ends.
LEMMA EndIsOffTurn ==
    ASSUME NEW outcome, EndSlot(outcome), Adds, Received, UNCHANGED <<slot, server, answered>>,
           pc \in Running \/ slot = 0,
           outcome = "completed" => pc = "listen" /\ \E m : Took(m) /\ CompletionAccepted(m)
    PROVE  ClientMoves
<1> DEFINE r == [outcome |-> outcome, active |-> active]
<1>1. pc' \notin Live
  BY DEF EndSlot, Live
<1>2. slot = 0 => UNCHANGED results
  BY DEF EndSlot
<1>3. slot # 0 => results' = Append(results, r)
  BY DEF EndSlot
<1>4. r.outcome = outcome
  OBVIOUS
<1> HIDE DEF r
<1> QED
  BY <1>1, <1>2, <1>3, <1>4 DEF ClientMoves, OffTurn

\* It goes on outside a turn, or towards the end of one.
LEMMA StrayIsOffTurn ==
    ASSUME pc' \notin Live, Adds, Received, UNCHANGED <<slot, server, answered, results>>
    PROVE  ClientMoves
BY DEF ClientMoves, OffTurn

\* run_slot ends without an interrupt.
LEMMA EndsMoves ==
    ASSUME WireType, NEW outcome, Ends(outcome), Received, UNCHANGED <<slot, server, answered>>,
           pc \in Running \/ slot = 0,
           outcome = "completed" => pc = "listen" /\ \E m : Took(m) /\ CompletionAccepted(m)
    PROVE  ClientMoves
<1>1. EndSlot(outcome) /\ UNCHANGED <<toServer, nextId>>
  BY DEF Ends, SendsNothing
<1> QED
  BY <1>1, NothingAdds, EndIsOffTurn

\* A protocol failure is noticed.
LEMMA FailsMoves ==
    ASSUME WireType, Fails, UNCHANGED <<toServer, slot, server, answered>>, nextId' \in Nat, Received
    PROVE  ClientMoves
<1>1. pc' = "failing" /\ UNCHANGED results
  BY DEF Fails
<1>2. <<>> \in Seq(ToServer) /\ toServer' = toServer \o <<>> /\ DOMAIN <<>> = {}
  BY DEF WireType
<1>3. Adds
  BY <1>2 DEF Adds
<1> QED
  BY <1>1, <1>3, StrayIsOffTurn DEF Live

\* Another exception ends the slot.
LEMMA ErrorMoves ==
    ASSUME WireType, EndSlot("error"), UNCHANGED <<toServer, slot, server, answered>>, nextId' \in Nat, Received,
           pc \in Running \/ slot = 0
    PROVE  ClientMoves
<1>1. <<>> \in Seq(ToServer) /\ toServer' = toServer \o <<>> /\ DOMAIN <<>> = {}
  BY DEF WireType
<1>2. Adds
  BY <1>1 DEF Adds
<1> QED
  BY <1>2, EndIsOffTurn

\* The interrupt.
LEMMA InterruptMoves ==
    ASSUME WireType, SlotInv, NEW at, NEW outcome, Interrupt(at, outcome), MayInterrupt, at \notin Live,
           UNCHANGED <<slot, server, answered>>, Received, pc \in Running
    PROVE  ClientMoves
<1>1. nextId' = nextId + 1 /\ nextId' \in Nat /\ slot \in Slot
  BY DEF Interrupt, WireType, MayInterrupt, SlotInv
<1>2. CASE toServer' = toServer \o <<Request("interrupt", nextId)>> /\ pc' = at /\ UNCHANGED results
  <2>1. Adds
    BY <1>1, <1>2, RequestAdds
  <2> QED
    BY <1>2, <2>1, StrayIsOffTurn
<1>3. CASE EndSlot("error") /\ UNCHANGED toServer
  BY <1>1, <1>3, ErrorMoves
<1> QED
  BY <1>2, <1>3 DEF Interrupt, Writes, Unsendable, SendBreaks

\* The handlers of run_slot.
LEMMA GivesUpMoves ==
    ASSUME WireType, SlotInv, NEW outcome, outcome # "completed", GivesUp(outcome),
           UNCHANGED <<slot, server, answered>>, Received, pc \in Running
    PROVE  ClientMoves
<1>1. CASE MayInterrupt
  BY <1>1, InterruptMoves DEF GivesUp, Live
<1>2. CASE ~ MayInterrupt
  BY <1>2, EndsMoves DEF GivesUp
<1> QED
  BY <1>1, <1>2

\* A failure, at once or after an answer.
LEMMA FailsAtOnceMoves ==
    ASSUME WireType, FailsAtOnce, UNCHANGED <<slot, server, answered>>, Received
    PROVE  ClientMoves
BY FailsMoves DEF FailsAtOnce, SendsNothing, WireType

LEMMA RefusesRequestMoves ==
    ASSUME WireType, NEW t \in Nat, RefusesRequest(t), UNCHANGED <<slot, server, answered>>, Received,
           pc \in Running \/ slot = 0
    PROVE  ClientMoves
<1>1. UNCHANGED nextId /\ nextId' \in Nat
  BY DEF RefusesRequest, WireType
<1>2. CASE toServer' = toServer \o <<Reply(t)>> /\ pc' = "refusing" /\ UNCHANGED results
  BY <1>1, <1>2, ReplyAdds, StrayIsOffTurn DEF Live
<1>3. CASE Fails /\ UNCHANGED toServer
  BY <1>1, <1>3, FailsMoves
<1>4. CASE EndSlot("error") /\ UNCHANGED toServer
  BY <1>1, <1>4, ErrorMoves
<1> QED
  BY <1>2, <1>3, <1>4 DEF RefusesRequest, Writes, Unsendable, SendBreaks

\* A tool call is answered, or the answer fails.
LEMMA AnswersToolMoves ==
    ASSUME WireType, AnswersTool(slot), UNCHANGED <<slot, server>>, pc \in Live, Received
    PROVE  \/ ClientMoves
           \/ pc' = "listen" /\ AnswersCall /\ UNCHANGED <<slot, results, server, nextId>>
<1>1. UNCHANGED nextId /\ nextId' \in Nat
  BY DEF AnswersTool, WireType
<1>2. CASE /\ toServer' = toServer \o <<Reply(slot)>> /\ pc' = "listen"
           /\ answered' = [answered EXCEPT ![slot] = @ + 1]
           /\ UNCHANGED results
  <2>1. toServer' = Append(toServer, Reply(slot))
    BY <1>2 DEF WireType
  <2> QED
    BY <1>1, <1>2, <2>1 DEF AnswersCall
<1>3. CASE Fails /\ UNCHANGED <<toServer, answered>>
  BY <1>1, <1>3, FailsMoves
<1>4. CASE EndSlot("error") /\ UNCHANGED <<toServer, answered>>
  BY <1>1, <1>4, ErrorMoves DEF Live, Running
<1> QED
  BY <1>2, <1>3, <1>4 DEF AnswersTool, Writes, Unsendable, SendBreaks

\* The requests.
LEMMA SendsRequestMoves ==
    ASSUME WireType, NEW kind, NEW at, SendsRequest(kind, at), UNCHANGED <<slot, server, answered>>, Received,
           pc \in Running \/ slot = 0
    PROVE  \/ ClientMoves
           \/ /\ pc' = at /\ UNCHANGED results /\ nextId' = nextId + 1
              /\ toServer' = toServer \o <<Request(kind, nextId)>>
<1>1. nextId' = nextId + 1 /\ nextId' \in Nat
  BY DEF SendsRequest, WireType
<1>2. CASE Fails /\ UNCHANGED toServer
  BY <1>1, <1>2, FailsMoves
<1>3. CASE EndSlot("error") /\ UNCHANGED toServer
  BY <1>1, <1>3, ErrorMoves
<1> QED
  BY <1>1, <1>2, <1>3 DEF SendsRequest, Writes, Unsendable, SendBreaks

\* The messages.
LEMMA ReceivesMoves ==
    ASSUME WireType, SlotInv, Receives
    PROVE  ClientMoves
<1> PICK m : \/ ResponseAccepted(m) \/ NotificationDropped(m) \/ RequestFails(m)
             \/ MessageRaises(m)
             \/ ToolForwarded(m) \/ ToolRefused(m) \/ NotificationRecorded(m)
             \/ TurnCompletes(m) \/ TurnFails(m)
  BY DEF Receives
<1>0. Took(m) /\ m \in Message /\ m.turn \in Nat /\ Received /\ toClient # <<>>
  <2>1. Took(m)
    BY DEF ResponseAccepted, NotificationDropped, RequestFails, MessageRaises, ToolForwarded, ToolRefused,
           NotificationRecorded, TurnCompletes, TurnFails
  <2>2. m \in Message
    BY <2>1, TailFacts DEF Took, WireType
  <2> QED
    BY <2>1, <2>2 DEF Took, Received, Message
<1>a. ASSUME pc \in {"init", "thread", "turn", "listen"}
      PROVE  (pc \in Running \/ slot = 0) /\ (pc # "init" => pc \in Live \ {"exec"})
  BY <1>a DEF Running, Live, SlotInv
<1>1. CASE ResponseAccepted(m)
  <2>1. m.kind = "result" /\ m.kind \notin Tools /\ UNCHANGED <<slot, server, answered>>
    BY <1>1 DEF ResponseAccepted, Tools, ledger
  <2>2. CASE pc = "init" /\ UNCHANGED nextId
    <3>1. slot = 0 /\ slot \in Nat
      BY <2>2 DEF SlotInv
    <3>2. CASE toServer' = toServer \o <<Request("initialized", 0)>> /\ pc' = "ready" /\ UNCHANGED results
      <4> DEFINE new == Request("initialized", 0)
      <4>1. new \in ToServer /\ new.kind = "initialized"
        BY <3>1 DEF Request, ToServer
      <4>2. toServer' = toServer \o <<new>>
        BY <3>2
      <4> HIDE DEF new
      <4>3. Adds
        BY <2>2, <4>1, <4>2, OneAdds DEF WireType
      <4> QED
        BY <1>0, <2>1, <3>2, <4>3, StrayIsOffTurn DEF Live
    <3>3. CASE EndSlot("error") /\ UNCHANGED toServer
      BY <1>0, <2>1, <2>2, <3>1, <3>3, ErrorMoves DEF WireType
    <3> QED
      BY <1>1, <2>2, <3>2, <3>3 DEF ResponseAccepted, Writes, SendBreaks
  <2>3. CASE pc = "thread" /\ SendsRequest("turn", "turn")
    <3>1. CASE /\ pc' = "turn" /\ UNCHANGED results /\ nextId' = nextId + 1
               /\ toServer' = toServer \o <<Request("turn", nextId)>>
      <4>1. toServer' = Append(toServer, Request("turn", nextId))
        BY <3>1 DEF WireType
      <4> QED
        BY <1>0, <2>1, <2>3, <3>1, <4>1 DEF ClientMoves, Reads, Live
    <3> QED
      BY <1>0, <1>a, <2>1, <2>3, <3>1, SendsRequestMoves
  <2>4. CASE pc = "turn" /\ pc' = "listen" /\ SendsNothing /\ UNCHANGED <<nextId, results>>
    BY <1>0, <2>1, <2>4 DEF ClientMoves, Reads, Live, SendsNothing
  <2> QED
    BY <1>1, <2>2, <2>3, <2>4 DEF ResponseAccepted
<1>2. CASE NotificationDropped(m)
  <2>1. /\ pc \in {"init", "thread", "turn"} /\ m.kind \notin Tools
        /\ UNCHANGED <<pc, slot, results, nextId, toServer, server, answered>>
    BY <1>2 DEF NotificationDropped, Dropped, Tools, local, ledger
  <2>2. CASE pc = "init"
    BY <1>0, <2>1, <2>2, NothingAdds, StrayIsOffTurn DEF Live
  <2>3. CASE pc # "init"
    BY <1>0, <2>1, <2>3 DEF ClientMoves, Reads, Live
  <2> QED
    BY <2>2, <2>3
<1>3. CASE RequestFails(m)
  <2>1. pc \in {"init", "thread", "turn"} /\ UNCHANGED <<slot, server, answered>>
    BY <1>3 DEF RequestFails, rest
  <2>2. RefusesRequest(m.turn) \/ FailsAtOnce
    BY <1>3 DEF RequestFails
  <2> QED
    BY <1>0, <1>a, <2>1, <2>2, RefusesRequestMoves, FailsAtOnceMoves
<1>4. CASE MessageRaises(m)
  <2>1. /\ pc \in {"init", "thread", "turn", "listen"} /\ UNCHANGED <<slot, server, answered>>
        /\ Ends("error")
    BY <1>4 DEF MessageRaises, rest
  <2> QED
    BY <1>0, <1>a, <2>1, EndsMoves
<1>5. CASE ToolForwarded(m)
  <2>1. pc = "listen" /\ m.kind \in Tools /\ m.turn = slot /\ UNCHANGED <<slot, server>>
    BY <1>5 DEF ToolForwarded, ToolAllowed
  <2>2. CASE pc' = "exec" /\ UNCHANGED <<nextId, results, toServer, answered>>
    BY <1>0, <2>1, <2>2 DEF ClientMoves, TakesCall
  <2>3. CASE AnswersTool(m.turn)
    <3>1. CASE pc' = "listen" /\ AnswersCall /\ UNCHANGED <<slot, results, server, nextId>>
      BY <1>0, <2>1, <3>1 DEF ClientMoves, TakesCall
    <3> QED
      BY <1>0, <2>1, <2>3, <3>1, AnswersToolMoves DEF Live
  <2> QED
    BY <1>5, <2>2, <2>3 DEF ToolForwarded
<1>6. CASE ToolRefused(m)
  <2>1. pc = "listen" /\ m.kind \in Tools /\ m.turn = slot /\ UNCHANGED <<slot, server>> /\ AnswersTool(slot)
    BY <1>6 DEF ToolRefused, ToolAllowed
  <2>2. CASE pc' = "listen" /\ AnswersCall /\ UNCHANGED <<slot, results, server, nextId>>
    BY <1>0, <2>1, <2>2 DEF ClientMoves, TakesCall
  <2> QED
    BY <1>0, <2>1, <2>2, AnswersToolMoves DEF Live
<1>7. CASE NotificationRecorded(m)
  <2>1. /\ m.kind \notin Tools
        /\ UNCHANGED <<pc, slot, nextId, results, toServer, server, answered>> /\ pc = "listen"
    BY <1>7 DEF NotificationRecorded, ItemAccepted, UsageAccepted, Tools, ledger
  <2> QED
    BY <1>0, <2>1 DEF ClientMoves, Reads, Live
<1>8. CASE TurnCompletes(m)
  <2>1. pc = "listen" /\ CompletionAccepted(m) /\ Ends("completed") /\ UNCHANGED <<slot, server, answered>>
    BY <1>8 DEF TurnCompletes, rest
  <2> QED
    BY <1>0, <1>a, <2>1, EndsMoves
<1>9. CASE TurnFails(m)
  <2>1. pc = "listen" /\ UNCHANGED <<slot, server, answered>>
    BY <1>9 DEF TurnFails, rest
  <2>2. RefusesRequest(m.turn) \/ FailsAtOnce
    BY <1>9 DEF TurnFails
  <2> QED
    BY <1>0, <1>a, <2>1, <2>2, RefusesRequestMoves, FailsAtOnceMoves
<1> QED
  BY <1>1, <1>2, <1>3, <1>4, <1>5, <1>6, <1>7, <1>8, <1>9

\* A tool call that is left ends its slot.
LEMMA LeavesToolMoves ==
    ASSUME WireType, SlotInv, NEW reason, LeavesTool(reason), UNCHANGED <<slot, server, toClient, answered>>
    PROVE  ClientMoves
<1>1. pc = "exec" /\ pc \in Running /\ (Ends("cancelled") \/ GivesUp("deadline")) /\ Received
  BY DEF LeavesTool, Running, Received
<1> QED
  BY <1>1, EndsMoves, GivesUpMoves

\* The other steps of run_slot.
LEMMA BodyMoves ==
    ASSUME WireType, SlotInv,
           \/ ToolAnswered \/ ToolUnwinds \/ RefusalGoesOn \/ FailureHandled \/ Leaves
           \/ Deadline \/ ToolTimer \/ SlotCancelled \/ TransportEnds
    PROVE  ClientMoves
<1>0. ASSUME UNCHANGED toClient PROVE Received
  BY <1>0 DEF Received
<1>a. ASSUME NEW reason, StopsTool(reason) PROVE ClientMoves
  BY <1>a DEF StopsTool, wire, ledger, rest, ClientMoves, Unmoved
<1>b. ASSUME NEW reason, LeavesTool(reason), UNCHANGED <<rest, toClient, answered>> PROVE ClientMoves
  BY <1>b, LeavesToolMoves DEF rest
<1>c. ASSUME AwaitsServer PROVE pc \in Running
  BY <1>c DEF AwaitsServer, Running
<1>1. CASE ToolAnswered
  <2>1. pc = "exec" /\ AnswersTool(slot) /\ UNCHANGED <<slot, server, toClient>>
    BY <1>1 DEF ToolAnswered, rest
  <2>2. CASE pc' = "listen" /\ AnswersCall /\ UNCHANGED <<slot, results, server, nextId>>
    BY <2>1, <2>2 DEF ClientMoves, EndsCall
  <2> QED
    BY <1>0, <2>1, <2>2, AnswersToolMoves DEF Live
<1>2. CASE ToolUnwinds
  <2>1. /\ pc \in Running /\ UNCHANGED <<slot, server, toClient, answered>>
        /\ Ends("cancelled") \/ GivesUp("deadline")
    BY <1>2 DEF ToolUnwinds, rest, Running
  <2> QED
    BY <1>0, <2>1, EndsMoves, GivesUpMoves
<1>3. CASE RefusalGoesOn
  <2>1. pc \in Running /\ UNCHANGED <<slot, server, toClient, answered>>
    BY <1>3 DEF RefusalGoesOn, rest, Running
  <2>2. CASE MayInterrupt
    BY <1>0, <1>3, <2>1, <2>2, InterruptMoves DEF RefusalGoesOn, Live
  <2>3. CASE ~ MayInterrupt
    BY <1>0, <1>3, <2>1, <2>3, FailsAtOnceMoves DEF RefusalGoesOn
  <2> QED
    BY <2>2, <2>3
<1>4. CASE FailureHandled
  BY <1>0, <1>4, GivesUpMoves DEF FailureHandled, rest, Running
<1>5. CASE Leaves
  <2>1. pc = "leaving" /\ Ends(stop) /\ UNCHANGED <<slot, server, toClient, answered>>
    BY <1>5 DEF Leaves, rest
  <2>2. stop # "completed"
    BY <2>1 DEF SlotInv
  <2> QED
    BY <1>0, <2>1, <2>2, EndsMoves DEF Running
<1>6. CASE Deadline
  <2>1. CASE AwaitsServer /\ GivesUp("deadline") /\ UNCHANGED <<rest, toClient, answered>>
    BY <1>0, <1>c, <2>1, GivesUpMoves DEF rest
  <2>2. CASE LeavesTool("deadline")
    BY <1>b, <2>2 DEF LeavesTool
  <2> QED
    BY <1>6, <1>a, <2>1, <2>2 DEF Deadline
<1>7. CASE ToolTimer
  <2>1. CASE UNCHANGED <<local, wire, server, ledger>>
    BY <2>1 DEF local, wire, ledger, ClientMoves, Unmoved
  <2>2. CASE LeavesTool("deadline")
    BY <1>b, <2>2 DEF LeavesTool
  <2> QED
    BY <1>7, <2>1, <2>2 DEF ToolTimer
<1>8. CASE SlotCancelled
  <2>1. CASE (AwaitsServer \/ pc = "leaving") /\ Ends("cancelled") /\ UNCHANGED <<rest, toClient, answered>>
    BY <1>0, <1>c, <2>1, EndsMoves DEF rest, Running
  <2>2. CASE LeavesTool("cancelled")
    BY <1>b, <2>2 DEF LeavesTool
  <2> QED
    BY <1>8, <1>a, <2>1, <2>2 DEF SlotCancelled
<1>9. CASE TransportEnds
  BY <1>0, <1>9, FailsAtOnceMoves DEF TransportEnds, rest
<1> QED
  BY <1>1, <1>2, <1>3, <1>4, <1>5, <1>6, <1>7, <1>8, <1>9

\* Every step is a move of the client or a step of the server.
LEMMA NextMoves ==
    ASSUME WireType, SlotInv, [Next]_vars
    PROVE  ClientMoves \/ ServerStep
<1>1. CASE UNCHANGED clientVars
  BY <1>1 DEF clientVars, local, wire, ledger, ClientMoves, Unmoved
<1>2. CASE Prepares \/ Spawns \/ Initialized \/ BodyEnds \/ CloseStep \/ ProcessExits \/ StderrEnds
  BY <1>1, <1>2 DEF Prepares, Spawns, Initialized, BodyEnds, CloseStep, Terminates, Reaps, AwaitsStderr,
                    RemovesJail, ProcessExits, StderrEnds
<1>3. CASE Cancel
  <2>1. CASE CancelEntering
    BY <2>1 DEF CancelEntering, wire, rest, ledger, ClientMoves, Unmoved
  <2> QED
    BY <1>1, <1>3, <2>1, BodyMoves DEF Cancel, CancelBody, CancelShielded, CancelClose
<1>4. CASE PipeMoves
  <2>1. CASE PipeFlows
    BY <2>1 DEF PipeFlows, rest, ledger, ClientMoves, Unmoved
  <2>2. CASE \E died \in BOOLEAN : PipeBreaks(died)
    <3>1. UNCHANGED <<slot, nextId, toClient, toServer, server, answered>>
      BY <2>2 DEF PipeBreaks, rest, ledger
    <3>2. CASE drain = "yes" /\ EndSlot("error")
      <4>1. pc \in Running \/ slot = 0
        BY <3>2 DEF SlotInv
      <4>2. nextId' \in Nat /\ Received
        BY <3>1 DEF WireType, Received
      <4> QED
        BY <3>1, <3>2, <4>1, <4>2, ErrorMoves
    <3>3. CASE UNCHANGED <<pc, stop, results>>
      BY <3>1, <3>3 DEF ClientMoves, Unmoved
    <3> QED
      BY <2>2, <3>2, <3>3 DEF PipeBreaks
  <2> QED
    BY <1>4, <2>1, <2>2 DEF PipeMoves
<1>5. CASE ServerWorks
  BY <1>5 DEF ServerWorks
<1>6. CASE ClientWorks
  <2>1. CASE Initialize
    <3>1. /\ pc = "new" /\ slot = 0 /\ SendsRequest("initialize", "init") /\ Received
          /\ UNCHANGED <<slot, server, answered, toClient>>
      BY <2>1 DEF Initialize, rest, SlotInv, Received
    <3>2. CASE /\ pc' = "init" /\ UNCHANGED results /\ nextId' = nextId + 1
               /\ toServer' = toServer \o <<Request("initialize", nextId)>>
      BY <3>1, <3>2, RequestAdds, StrayIsOffTurn DEF Live
    <3> QED
      BY <3>1, <3>2, SendsRequestMoves
  <2>2. CASE StartsThread
    <3>1. /\ pc = "begin" /\ SendsRequest("thread", "thread") /\ Received
          /\ UNCHANGED <<slot, server, answered, toClient>>
      BY <2>2 DEF StartsThread, rest, Received
    <3>2. CASE /\ pc' = "thread" /\ UNCHANGED results /\ nextId' = nextId + 1
               /\ toServer' = toServer \o <<Request("thread", nextId)>>
      <4>1. toServer' = Append(toServer, Request("thread", nextId))
        BY <3>2 DEF WireType
      <4> QED
        BY <3>1, <3>2, <4>1 DEF ClientMoves, Starts
    <3> QED
      BY <3>1, <3>2, SendsRequestMoves DEF Running
  <2>3. CASE BeginSlot
    BY <2>3 DEF BeginSlot, wire, ledger, ClientMoves, Starts
  <2> QED
    BY <1>6, <2>1, <2>2, <2>3, ReceivesMoves, BodyMoves DEF ClientWorks, Initializes, RunsSlot
<1>7. CASE TimePasses \/ ToolTimePasses
  BY <1>7, BodyMoves DEF TimePasses, ToolTimePasses
<1>8. CASE ExecWorks
  BY <1>8 DEF ExecWorks, ExecStep, local, wire, ledger, ClientMoves, Unmoved
<1>9. CASE UNCHANGED vars
  BY <1>1, <1>9 DEF vars
<1> QED
  BY <1>2, <1>3, <1>4, <1>5, <1>6, <1>7, <1>8, <1>9 DEF Next

-----------------------------------------------------------------------------
(* The moves keep WireInv. *)

\* Nothing has been said.
LEMMA WireInit == Init => WireInv
<1> SUFFICES ASSUME Init PROVE WireInv
  OBVIOUS
<1>1. /\ pc = "new" /\ slot = 0 /\ nextId = 0 /\ results = <<>> /\ toClient = <<>> /\ toServer = <<>>
      /\ turn = [k \in Slot |-> "none"]
      /\ asked = [k \in Slot |-> 0] /\ answered = [k \in Slot |-> 0] /\ finals = [k \in Slot |-> 0]
  BY DEF Init, ClientInit
<1>2. DOMAIN toClient = {} /\ DOMAIN toServer = {} /\ DOMAIN results = {}
  BY <1>1
<1>3. WireType
  BY <1>1 DEF WireType
<1>4. OutboundInv
  BY <1>1, <1>2 DEF OutboundInv
<1>5. InboundInv
  BY <1>1, <1>2 DEF InboundInv
<1>6. TallyInv /\ WholeTurns
  BY <1>1, <1>2 DEF TallyInv, WholeTurns, Live
<1> QED
  BY <1>3, <1>4, <1>5, <1>6 DEF WireInv

\* The results are those of the slots that ended.
LEMMA ResultSlots ==
    ASSUME BooksInv
    PROVE  /\ DOMAIN results \subseteq Slot
           /\ pc \in Live => slot \in Slot /\ slot \notin DOMAIN results
<1>1. /\ Len(results) \in Nat /\ DOMAIN results = 1..Len(results)
      /\ Len(results) = IF pc \in Running /\ slot # 0 THEN slot - 1 ELSE slot
  BY DEF BooksInv, ResultInv
<1>2. slot \in 0..Len(Positions) /\ (pc \in Live => slot \in Slot) /\ Len(Positions) \in Nat
  BY PositionsAssumption DEF BooksInv, SlotInv
<1> QED
  BY <1>1, <1>2 DEF Slot, Live, Running

\* A step the messages do not see.
LEMMA UnmovedKeeps == ASSUME WireInv, Unmoved PROVE WireInv'
<1> USE DEF Unmoved, server
<1>1. WireType' /\ Begun' = Begun
  BY DEF WireInv, WireType, Begun
<1>2. OutboundInv'
  BY <1>1 DEF WireInv, OutboundInv
<1>3. InboundInv'
  BY DEF WireInv, InboundInv, Completion
<1>4. TallyInv'
  BY DEF WireInv, TallyInv, Tally, Completion
<1>5. WholeTurns'
  BY DEF WireInv, WholeTurns
<1> QED
  BY <1>1, <1>2, <1>3, <1>4, <1>5 DEF WireInv

\* A message that is taken is the first of those to come.
LEMMA TakenIsFirst ==
    ASSUME WireType, NEW m, Took(m)
    PROVE  /\ 1 \in DOMAIN toClient /\ m = toClient[1] /\ 1 \in 1..Len(toClient)
           /\ toClient' \in Seq(Message) /\ Received
BY TailFacts DEF Took, WireType, Received

\* A slot that completes is whole: its completion is the next message.
LEMMA CompletionIsWhole ==
    ASSUME WireInv, pc = "listen", NEW m, Took(m), CompletionAccepted(m), slot \in Slot
    PROVE  turn[slot] = "ended" /\ finals[slot] = 1 /\ asked[slot] = answered[slot]
<1>1. 1 \in DOMAIN toClient /\ m = toClient[1] /\ 1 \in 1..Len(toClient)
  BY TakenIsFirst DEF WireInv
<1>2. Completion(m) /\ m.turn = slot /\ Calls(m, slot) = 0
  BY DEF CompletionAccepted, Completion, Calls, Tools
<1>3. turn[slot] = "ended" /\ finals[slot] = 1
  BY <1>1, <1>2 DEF WireInv, InboundInv
<1>4. PICK f \in [0..Len(toClient) -> Nat] : Tally(f)
  BY <1>3 DEF WireInv, TallyInv, Live
<1>5. f[1] = asked[slot]
  BY <1>1, <1>2, <1>4 DEF Tally
<1>6. f[0] = answered[slot] + 0 /\ f[1] = f[1 - 1] + 0
  BY <1>1, <1>2, <1>4 DEF Tally
<1>7. answered[slot] \in Nat /\ f[0] \in Nat
  <2>1. 0 \in 0..Len(toClient)
    BY <1>1
  <2> QED
    BY <1>4, <2>1 DEF WireInv, WireType
<1>8. f[1 - 1] = f[0]
  OBVIOUS
<1> QED
  BY <1>3, <1>5, <1>6, <1>7, <1>8

\* The client leaves the turn.
LEMMA OffTurnKeeps == ASSUME WireInv, BooksInv, OffTurn PROVE WireInv'
<1>1. PICK more \in Seq(ToServer) :
          /\ toServer' = toServer \o more
          /\ \A i \in DOMAIN more : more[i].kind # "turn"
                /\ (more[i].kind = "interrupt" => slot \in Slot /\ more[i].turn = slot)
  BY DEF OffTurn, Adds
<1>2. /\ pc' \notin Live /\ pc' \notin {"begin", "thread", "exec"} /\ slot' = slot
      /\ UNCHANGED <<server, answered>> /\ nextId' \in Nat
  BY DEF OffTurn, Adds, Live
<1>3. WireType'
  <2>1. toClient' \in Seq(Message)
    BY TailFacts DEF OffTurn, Received, WireInv, WireType
  <2>2. toServer' \in Seq(ToServer)
    BY <1>1, ConcatFacts DEF WireInv, WireType
  <2> QED
    BY <1>2, <2>1, <2>2 DEF WireInv, WireType, server
<1>4. OutboundInv'
  <2>1. Begun \subseteq Begun' /\ (slot \in Slot => slot \in Begun')
    BY <1>2 DEF Begun
  <2> QED
    BY <1>1, <1>2, <2>1, OutboundSends DEF WireInv, server
<1>5. InboundInv'
  <2>1. \A k \in Slot : turn[k] = "none" => answered'[k] = 0 /\ (k = slot' => pc' # "exec")
    BY <1>2 DEF WireInv, InboundInv
  <2> QED
    BY <1>2, <2>1, InboundReceives DEF WireInv, OffTurn, Received
<1>6. TallyInv'
  BY <1>2 DEF TallyInv
<1>7. WholeTurns'
  <2>1. CASE UNCHANGED results
    BY <1>2, <2>1 DEF WireInv, WholeTurns, server
  <2>2. CASE ~ UNCHANGED results
    <3>1. PICK r : /\ results' = Append(results, r)
                   /\ r.outcome = "completed" =>
                         pc = "listen" /\ \E m : Took(m) /\ CompletionAccepted(m)
      BY <2>2 DEF OffTurn
    <3>2. pc \in Running /\ slot # 0
      BY <2>2 DEF OffTurn
    <3>3. Len(results) = slot - 1 /\ slot \in Slot /\ slot \in Nat
      BY <3>2, PositionsAssumption DEF BooksInv, ResultInv, SlotInv, Slot
    <3>4. /\ DOMAIN results = 1..slot - 1 /\ DOMAIN results' = 1..slot /\ results'[slot] = r
          /\ \A k \in 1..slot - 1 : results'[k] = results[k]
      BY <3>1, <3>3 DEF BooksInv, ResultInv
    <3>5. \A k \in 1..slot : k \in 1..slot - 1 \/ k = slot
      BY <3>3
    <3>6. r.outcome = "completed" => turn[slot] = "ended" /\ finals[slot] = 1 /\ asked[slot] = answered[slot]
      BY <3>1, <3>3, CompletionIsWhole
    <3> QED
      BY <1>2, <3>4, <3>5, <3>6 DEF WireInv, WholeTurns, server
  <2> QED
    BY <2>1, <2>2
<1> QED
  BY <1>3, <1>4, <1>5, <1>6, <1>7 DEF WireInv

\* A message that is no call is taken.
LEMMA ReadsKeeps == ASSUME WireInv, BooksInv, Reads PROVE WireInv'
<1>1. PICK m : Took(m) /\ m.kind \notin Tools
  BY DEF Reads
<1>2. UNCHANGED <<slot, results, server, answered>> /\ pc # "exec" /\ pc' # "exec"
      /\ pc \in Live
  BY DEF Reads
<1>3. 1 \in DOMAIN toClient /\ m = toClient[1] /\ 1 \in 1..Len(toClient)
      /\ toClient' \in Seq(Message) /\ Received
  BY <1>1, TakenIsFirst DEF WireInv
<1>4. WireType' /\ OutboundInv'
  <2>1. CASE (pc' \in {"begin", "thread"} <=> pc \in {"begin", "thread"}) /\ UNCHANGED <<toServer, nextId>>
    <3>1. Begun' = Begun
      BY <1>2, <2>1 DEF Begun
    <3> QED
      BY <1>2, <1>3, <2>1, <3>1 DEF WireInv, WireType, OutboundInv, server
  <2>2. CASE /\ pc = "thread" /\ pc' = "turn"
             /\ toServer' = Append(toServer, Request("turn", nextId))
             /\ nextId' = nextId + 1
    <3>1. slot \in Slot /\ slot \in Nat
      BY <2>2 DEF BooksInv, SlotInv, Live, Slot
    <3>2. Request("turn", nextId) \in ToServer
      BY <3>1 DEF Request, ToServer, WireInv, WireType
    <3>3. WireType'
      BY <1>2, <1>3, <2>2, <3>2 DEF WireInv, WireType, server
    <3>4. OutboundInv'
      BY <1>2, <2>2, <3>1, OutboundStarts DEF WireInv, server
    <3> QED
      BY <3>3, <3>4
  <2> QED
    BY <2>1, <2>2 DEF Reads
<1>5. InboundInv'
  <2>1. \A k \in Slot : turn[k] = "none" => answered'[k] = 0 /\ (k = slot' => pc' # "exec")
    BY <1>2 DEF WireInv, InboundInv
  <2> QED
    BY <1>2, <1>3, <2>1, InboundReceives DEF WireInv, Received
<1>6. TallyInv'
  <2> SUFFICES ASSUME pc' \in Live, turn'[slot'] # "none"
               PROVE  \E g \in [0..Len(toClient') -> Nat] : Tally(g)'
    BY DEF TallyInv
  <2>1. PICK f \in [0..Len(toClient) -> Nat] : Tally(f)
    BY <1>2 DEF WireInv, TallyInv, server
  <2>2. f[1] = f[1 - 1] + 0 /\ f[0] = answered[slot] + 0
    BY <1>1, <1>2, <1>3, <2>1 DEF Tally, Calls
  <2>3. 0 \in 0..Len(toClient) /\ 1 - 1 = 0 /\ f[0] \in Nat
    BY <1>3, <2>1
  <2>4. f[1] = answered'[slot] + (IF pc' = "exec" THEN 1 ELSE 0)
    BY <1>2, <2>2, <2>3
  <2> QED
    BY <1>1, <1>2, <2>1, <2>4, TallyTakes DEF WireInv
<1>7. WholeTurns'
  BY <1>2 DEF WireInv, WholeTurns, server
<1> QED
  BY <1>4, <1>5, <1>6, <1>7 DEF WireInv

\* Replies.
LEMMA ReplyFacts ==
    ASSUME NEW t \in Nat
    PROVE  /\ Reply(t) \in ToServer
           /\ <<Reply(t)>> \in Seq(ToServer)
           /\ \A i \in DOMAIN <<Reply(t)>> : <<Reply(t)>>[i].kind = "reply"
BY DEF Reply, ToServer

\* The client answers a call.
LEMMA AnswersCallKeeps ==
    ASSUME WireInv, BooksInv, AnswersCall, UNCHANGED <<slot, results, server, nextId>>,
           toClient' \in Seq(Message), pc \in {"listen", "exec"}, pc' = "listen"
    PROVE  /\ WireType' /\ OutboundInv' /\ WholeTurns'
           /\ answered'[slot] = answered[slot] + 1
           /\ \A k \in Slot : k # slot => answered'[k] = answered[k]
<1>1. slot \in Slot /\ slot \in Nat /\ slot \notin DOMAIN results /\ DOMAIN results \subseteq Slot
  BY ResultSlots DEF Slot, Live
<1>2. <<Reply(slot)>> \in Seq(ToServer) /\ toServer' = toServer \o <<Reply(slot)>>
      /\ \A i \in DOMAIN <<Reply(slot)>> : <<Reply(slot)>>[i].kind = "reply"
  BY <1>1, ReplyFacts, AppendIsConcat DEF AnswersCall, WireInv, WireType
<1>3. /\ answered' \in [Slot -> Nat] /\ answered'[slot] = answered[slot] + 1
      /\ \A k \in Slot : k # slot => answered'[k] = answered[k]
  BY <1>1 DEF AnswersCall, WireInv, WireType
<1> DEFINE more == <<Reply(slot)>>
<1> HIDE DEF more
<1>4. WireType'
  <2>1. toServer' \in Seq(ToServer)
    BY <1>2, ConcatFacts DEF WireInv, WireType
  <2> QED
    BY <1>3, <2>1 DEF WireInv, WireType, server
<1>5. OutboundInv'
  <2>1. Begun' = Begun
    BY DEF Begun
  <2>2. more \in Seq(ToServer) /\ toServer' = toServer \o more /\ \A i \in DOMAIN more : more[i].kind = "reply"
    BY <1>2 DEF more
  <2> QED
    BY <2>1, <2>2, OutboundSends DEF WireInv, server
<1>6. WholeTurns'
  BY <1>1, <1>3 DEF WireInv, WholeTurns, server
<1> QED
  BY <1>3, <1>4, <1>5, <1>6

\* A tool call is taken.
LEMMA TakesCallKeeps == ASSUME WireInv, BooksInv, TakesCall PROVE WireInv'
<1>1. PICK m : Took(m) /\ m.kind \in Tools /\ m.turn = slot
  BY DEF TakesCall
<1>2. UNCHANGED <<slot, results, server, nextId>> /\ pc = "listen" /\ pc \in Live /\ slot \in Slot
  BY DEF TakesCall, Live, BooksInv, SlotInv
<1>3. 1 \in DOMAIN toClient /\ m = toClient[1] /\ 1 \in 1..Len(toClient)
      /\ toClient' \in Seq(Message) /\ Received
  BY <1>1, TakenIsFirst DEF WireInv
<1>4. turn[slot] # "none"
  <2>1. m.kind # "result"
    BY <1>1 DEF Tools
  <2> QED
    BY <1>1, <1>3, <2>1 DEF WireInv, InboundInv
<1>5. PICK f \in [0..Len(toClient) -> Nat] : Tally(f)
  BY <1>2, <1>4 DEF WireInv, TallyInv
<1>6. f[1] = answered[slot] + 1
  <2>1. f[1] = f[1 - 1] + 1 /\ f[0] = answered[slot] + 0
    BY <1>1, <1>2, <1>3, <1>5 DEF Tally, Calls
  <2>2. 1 - 1 = 0 /\ answered[slot] \in Nat
    BY <1>2 DEF WireInv, WireType
  <2> QED
    BY <2>1, <2>2
<1>7. WireType' /\ OutboundInv' /\ WholeTurns' /\ f[1] = answered'[slot] + (IF pc' = "exec" THEN 1 ELSE 0)
      /\ \A k \in Slot : k # slot => answered'[k] = answered[k]
  <2>1. CASE pc' = "exec" /\ UNCHANGED <<toServer, answered>>
    <3>1. Begun' = Begun
      BY <1>2, <2>1 DEF Begun
    <3> QED
      BY <1>2, <1>3, <1>6, <2>1, <3>1 DEF WireInv, WireType, OutboundInv, WholeTurns, server
  <2>2. CASE pc' = "listen" /\ AnswersCall
    <3>1. /\ WireType' /\ OutboundInv' /\ WholeTurns'
          /\ answered'[slot] = answered[slot] + 1
          /\ \A k \in Slot : k # slot => answered'[k] = answered[k]
      BY <1>2, <1>3, <2>2, AnswersCallKeeps
    <3>2. answered[slot] \in Nat
      BY <1>2 DEF WireInv, WireType
    <3> QED
      BY <1>6, <2>2, <3>1, <3>2
  <2> QED
    BY <2>1, <2>2 DEF TakesCall
<1>8. InboundInv'
  <2>1. \A k \in Slot : turn[k] = "none" => answered'[k] = 0 /\ (k = slot' => pc' # "exec")
    BY <1>2, <1>4, <1>7 DEF WireInv, InboundInv
  <2> QED
    BY <1>2, <1>3, <2>1, InboundReceives DEF WireInv, Received
<1>9. TallyInv'
  <2>1. \E g \in [0..Len(toClient') -> Nat] : Tally(g)'
    BY <1>1, <1>2, <1>5, <1>7, TallyTakes DEF WireInv
  <2> QED
    BY <2>1 DEF TallyInv
<1> QED
  BY <1>7, <1>8, <1>9 DEF WireInv

\* The call that was executed is answered.
LEMMA EndsCallKeeps == ASSUME WireInv, BooksInv, EndsCall PROVE WireInv'
<1>1. /\ UNCHANGED <<slot, results, server, nextId, toClient>>
      /\ pc = "exec" /\ pc' = "listen" /\ pc \in Live /\ slot \in Slot
      /\ AnswersCall
  BY DEF EndsCall, Live, BooksInv, SlotInv
<1>2. /\ WireType' /\ OutboundInv' /\ WholeTurns'
      /\ answered'[slot] = answered[slot] + 1
      /\ \A k \in Slot : k # slot => answered'[k] = answered[k]
  <2>1. toClient' \in Seq(Message)
    BY <1>1 DEF WireInv, WireType
  <2> QED
    BY <1>1, <2>1, AnswersCallKeeps
<1>3. turn[slot] # "none"
  BY <1>1 DEF WireInv, InboundInv
<1>4. InboundInv'
  <2>1. \A k \in Slot : turn[k] = "none" => answered'[k] = 0 /\ (k = slot' => pc' # "exec")
    BY <1>1, <1>2, <1>3 DEF WireInv, InboundInv
  <2> QED
    BY <1>1, <2>1, InboundReceives DEF WireInv
<1>5. TallyInv'
  <2>1. PICK f \in [0..Len(toClient) -> Nat] : Tally(f)
    BY <1>1, <1>3 DEF WireInv, TallyInv
  <2>2. f[0] = answered'[slot] + 0
    <3>1. answered[slot] \in Nat
      BY <1>1 DEF WireInv, WireType
    <3> QED
      BY <1>1, <1>2, <2>1, <3>1 DEF Tally
  <2>3. Tally(f)'
    BY <1>1, <2>1, <2>2 DEF Tally, server, Completion
  <2> QED
    BY <1>1, <2>1, <2>3 DEF TallyInv
<1> QED
  BY <1>2, <1>4, <1>5 DEF WireInv

\* A slot begins, and thread/start is sent.
LEMMA StartsKeeps == ASSUME WireInv, BooksInv, Starts PROVE WireInv'
<1>1. /\ UNCHANGED <<results, toClient, server, answered>> /\ nextId' \in Nat
      /\ slot \in Nat /\ Len(Positions) \in Nat
  BY PositionsAssumption DEF Starts, WireInv, WireType, BooksInv, SlotInv
<1>2. \/ pc = "ready" /\ pc' = "begin" /\ slot' = slot + 1 /\ slot < Len(Positions)
      \/ pc = "begin" /\ pc' = "thread" /\ slot' = slot /\ slot \in Slot
  BY DEF Starts, BeginSlot, BooksInv, SlotInv, Live
<1>3. Begun' = Begun /\ slot' \in Slot /\ slot' \notin Begun /\ pc' # "exec"
  BY <1>1, <1>2 DEF Begun, Slot
<1>4. WireType' /\ OutboundInv'
  <2>1. CASE UNCHANGED toServer
    BY <1>1, <1>3, <2>1 DEF WireInv, WireType, OutboundInv, server
  <2>2. CASE pc = "begin" /\ slot' = slot /\ toServer' = Append(toServer, Request("thread", nextId))
    <3> DEFINE new == Request("thread", nextId)
    <3>1. new \in ToServer /\ new.kind = "thread"
      BY <1>1 DEF Request, ToServer, WireInv, WireType
    <3>2. toServer' = toServer \o <<new>>
      BY <2>2, AppendIsConcat DEF WireInv, WireType
    <3> HIDE DEF new
    <3>3. <<new>> \in Seq(ToServer) /\ \A i \in DOMAIN <<new>> : <<new>>[i] = new
      BY <3>1
    <3>4. toServer' \in Seq(ToServer)
      BY <3>2, <3>3, ConcatFacts DEF WireInv, WireType
    <3>5. WireType'
      BY <1>1, <3>4 DEF WireInv, WireType, server
    <3>6. OutboundInv'
      BY <1>1, <1>3, <3>1, <3>2, <3>3, OutboundSends DEF WireInv, server
    <3> QED
      BY <3>5, <3>6
  <2> QED
    BY <2>1, <2>2 DEF Starts
<1>5. InboundInv'
  <2>1. \A k \in Slot : turn[k] = "none" => answered'[k] = 0 /\ (k = slot' => pc' # "exec")
    BY <1>1, <1>3 DEF WireInv, InboundInv
  <2> QED
    BY <1>1, <2>1, InboundReceives DEF WireInv
<1>6. TallyInv'
  BY <1>1, <1>3 DEF WireInv, OutboundInv, TallyInv, server
<1>7. WholeTurns'
  BY <1>1 DEF WireInv, WholeTurns, server
<1> QED
  BY <1>4, <1>5, <1>6, <1>7 DEF WireInv

\* Every move of the client.
LEMMA ClientKeeps == ASSUME WireInv, BooksInv, ClientMoves PROVE WireInv'
BY UnmovedKeeps, OffTurnKeeps, ReadsKeeps, TakesCallKeeps, EndsCallKeeps, StartsKeeps DEF ClientMoves

-----------------------------------------------------------------------------
(* The steps of the server keep WireInv. *)

\* It says m of the turn k, which has begun: m counts if it is a call of a turn
\* that runs, and ends the turn if it is its completion.
Speaks(k, m) ==
    /\ k \in Slot /\ turn[k] # "none"
    /\ m \in Message /\ m.turn = k
    /\ toClient' = Append(toClient, m)
    /\ UNCHANGED <<local, toServer, ledger>>
    /\ asked' = IF m.kind \in Tools /\ turn[k] = "running" THEN [asked EXCEPT ![k] = @ + 1] ELSE asked
    /\ finals' \in [Slot -> Nat]
    /\ \A j \in Slot : turn[j] = "ended" => finals'[j] = finals[j]
    /\ turn' = IF Completion(m) THEN [turn EXCEPT ![k] = "ended"] ELSE turn
    /\ Completion(m) => turn[k] = "running" /\ finals'[k] = 1

\* It reads a request: turn/start of a turn that has not begun, an interrupt,
\* or one that concerns no turn.
Answers ==
    /\ UNCHANGED <<local, asked, finals, ledger>>
    /\ toServer # <<>> /\ toServer' = Tail(toServer)
    /\ \E more \in Seq(Message) :
          /\ toClient' = toClient \o more
          /\ \A i \in DOMAIN more :
                /\ more[i].kind \notin Tools /\ ~ Completion(more[i])
                /\ more[i].kind # "result" => more[i].turn \in Slot /\ turn'[more[i].turn] # "none"
    /\ \/ UNCHANGED turn
       \/ /\ Head(toServer).kind = "turn"
          /\ turn' = [turn EXCEPT ![Head(toServer).turn] = "running"]
       \/ /\ Head(toServer).kind = "interrupt"
          /\ turn' = [turn EXCEPT ![Head(toServer).turn] = "ended"]

\* The steps of the server are of these two kinds.
LEMMA ServerMoves ==
    ASSUME WireInv, ServerStep
    PROVE  Answers \/ \E k \in Slot, m \in Message : Speaks(k, m)
<1> USE DEF WireInv, WireType
<1>1. CASE ServerAnswers
  <2> DEFINE m == Head(toServer)
             answer == Msg("result", m.id, m.turn, "good")
             done == Msg("done", 0, m.turn, "bad")
  <2>1. /\ UNCHANGED <<local, asked, finals, ledger>> /\ toServer # <<>> /\ toServer' = Tail(toServer)
        /\ \/ m.kind \in {"reply", "initialized"} /\ UNCHANGED <<toClient, turn>>
           \/ m.kind \in {"initialize", "thread"} /\ toClient' = Append(toClient, answer) /\ UNCHANGED turn
           \/ /\ m.kind = "turn"
              /\ toClient' = Append(toClient, answer)
              /\ turn' = [turn EXCEPT ![m.turn] = "running"]
           \/ /\ m.kind = "interrupt"
              /\ toClient' = toClient \o (IF turn[m.turn] = "running" THEN <<done>> ELSE <<>>) \o <<answer>>
              /\ turn' = [turn EXCEPT ![m.turn] = "ended"]
    BY <1>1 DEF ServerAnswers, Tells
  <2>2. m \in ToServer /\ 1 \in DOMAIN toServer /\ m = toServer[1]
    BY <2>1, TailFacts
  <2>3. answer \in Message /\ done \in Message
    BY <2>2 DEF Msg, Message, ToServer
  <2>4. /\ answer.kind \notin Tools /\ ~ Completion(answer) /\ answer.kind = "result"
        /\ done.kind \notin Tools /\ ~ Completion(done) /\ done.turn = m.turn
    BY DEF Msg, Tools, Completion
  <2>5. m.kind \in {"turn", "interrupt"} => m.turn \in Slot
    BY <2>2 DEF OutboundInv, Begun
  <2> HIDE DEF answer, done, m
  <2>6. \E more \in Seq(Message) :
          /\ toClient' = toClient \o more
          /\ \A i \in DOMAIN more :
                /\ more[i].kind \notin Tools /\ ~ Completion(more[i])
                /\ more[i].kind # "result" => more[i].turn \in Slot /\ turn'[more[i].turn] # "none"
    <3>1. CASE toClient' = toClient
      <4>1. toClient' = toClient \o <<>> /\ <<>> \in Seq(Message) /\ DOMAIN <<>> = {}
        BY <3>1
      <4> QED
        BY <4>1
    <3>2. CASE toClient' = Append(toClient, answer)
      <4>1. toClient' = toClient \o <<answer>> /\ <<answer>> \in Seq(Message)
            /\ \A i \in DOMAIN <<answer>> : <<answer>>[i] = answer
        BY <2>3, <3>2, AppendIsConcat
      <4> QED
        BY <2>4, <4>1
    <3>3. CASE m.kind = "interrupt" /\ turn[m.turn] = "running"
      <4>1. toClient' = (toClient \o <<done>>) \o <<answer>>
            /\ turn' = [turn EXCEPT ![m.turn] = "ended"]
        BY <2>1, <3>3
      <4>2. <<done>> \in Seq(Message) /\ <<answer>> \in Seq(Message) /\ Len(<<done>>) = 1 /\ Len(<<answer>>) = 1
            /\ <<done>>[1] = done /\ <<answer>>[1] = answer
        BY <2>3
      <4> DEFINE more == <<done>> \o <<answer>>
      <4>3. toClient' = toClient \o more /\ more \in Seq(Message)
        BY <4>1, <4>2, ConcatAssociative, ConcatFacts
      <4>4. turn'[m.turn] = "ended"
        BY <2>5, <3>3, <4>1
      <4>5. \A i \in DOMAIN more : more[i] = done \/ more[i] = answer
        <5>1. DOMAIN more = 1..1 + 1
          BY <4>2, ConcatFacts
        <5>2. more[1] = done
          <6>1. 1 \in 1..Len(<<done>>)
            BY <4>2
          <6> QED
            BY <4>2, <6>1, ConcatFacts
        <5>3. more[2] = answer
          <6>1. 2 \in 1..Len(<<done>>) + Len(<<answer>>) /\ 2 > Len(<<done>>) /\ 2 - Len(<<done>>) = 1
            BY <4>2
          <6> QED
            BY <4>2, <6>1, ConcatFacts
        <5>4. \A i \in 1..1 + 1 : i = 1 \/ i = 2
          OBVIOUS
        <5> QED
          BY <5>1, <5>2, <5>3, <5>4
      <4> HIDE DEF more
      <4>6. \A i \in DOMAIN more :
                /\ more[i].kind \notin Tools /\ ~ Completion(more[i])
                /\ more[i].kind # "result" => more[i].turn \in Slot /\ turn'[more[i].turn] # "none"
        BY <2>4, <2>5, <3>3, <4>4, <4>5
      <4> QED
        BY <4>3, <4>6
    <3>4. CASE m.kind = "interrupt" /\ turn[m.turn] # "running"
      <4>1. toClient' = toClient \o <<>> \o <<answer>> /\ toClient \o <<>> = toClient
        BY <2>1, <3>4
      <4>2. toClient' = toClient \o <<answer>> /\ <<answer>> \in Seq(Message)
            /\ \A i \in DOMAIN <<answer>> : <<answer>>[i] = answer
        BY <2>3, <4>1
      <4> QED
        BY <2>4, <4>2
    <3> QED
      BY <2>1, <3>1, <3>2, <3>3, <3>4
  <2>7. \/ UNCHANGED turn
        \/ m.kind = "turn" /\ turn' = [turn EXCEPT ![m.turn] = "running"]
        \/ m.kind = "interrupt" /\ turn' = [turn EXCEPT ![m.turn] = "ended"]
    BY <2>1
  <2> QED
    BY <2>1, <2>6, <2>7 DEF Answers, m
<1>2. ASSUME NEW k \in Slot, NEW tool \in Tools, ServerCalls(k, tool)
      PROVE  \E m \in Message : Speaks(k, m)
  <2> DEFINE m == Msg(tool, asked'[k], k, "good")
  <2>0. asked' = [asked EXCEPT ![k] = @ + 1] /\ asked \in [Slot -> Nat] /\ k \in Nat
    BY <1>2 DEF ServerCalls, Slot
  <2>1. asked' = [asked EXCEPT ![k] = @ + 1] /\ asked'[k] \in Nat /\ k \in Nat
    BY <2>0
  <2>2. m \in Message /\ m.turn = k /\ m.kind \in Tools /\ ~ Completion(m)
    BY <2>1 DEF Msg, Message, Tools, Completion
  <2>3. toClient' = Append(toClient, m) /\ turn[k] = "running" /\ UNCHANGED <<local, toServer, turn, finals, ledger>>
    BY <1>2 DEF ServerCalls, Tells
  <2> HIDE DEF m
  <2> QED
    BY <2>1, <2>2, <2>3 DEF Speaks
<1>3. ASSUME NEW k \in Slot, ServerConcludes(k)
      PROVE  \E m \in Message : Speaks(k, m)
  <2> DEFINE m == Msg("answer", 1, k, "good")
  <2>1. m \in Message /\ m.turn = k /\ m.kind \notin Tools /\ ~ Completion(m)
    BY DEF Msg, Message, Tools, Completion, Slot
  <2>2. /\ toClient' = Append(toClient, m) /\ turn[k] = "running" /\ UNCHANGED <<local, toServer, turn, asked, ledger>>
        /\ finals' = [finals EXCEPT ![k] = 1]
    BY <1>3 DEF ServerConcludes, Tells
  <2> HIDE DEF m
  <2> QED
    BY <2>1, <2>2 DEF Speaks
<1>4. ASSUME NEW k \in Slot, ServerCompletes(k)
      PROVE  \E m \in Message : Speaks(k, m)
  <2> DEFINE m == Msg("done", 0, k, "good")
  <2>1. m \in Message /\ m.turn = k /\ m.kind \notin Tools /\ Completion(m)
    BY DEF Msg, Message, Tools, Completion, Slot
  <2>2. /\ toClient' = Append(toClient, m) /\ turn[k] = "running"
        /\ UNCHANGED <<local, toServer, asked, finals, ledger>> /\ finals[k] = 1
        /\ turn' = [turn EXCEPT ![k] = "ended"]
    BY <1>4 DEF ServerCompletes, Tells
  <2> HIDE DEF m
  <2> QED
    BY <2>1, <2>2 DEF Speaks
<1>5. ASSUME NEW k \in Slot, NEW m \in Deviation(k), ServerDeviates(k, m)
      PROVE  \E d \in Message : Speaks(k, d)
  <2>1. m \in Message /\ m.turn = k /\ ~ Completion(m)
    BY DEF Deviation, Msg, Message, Completion, Slot
  <2>2. /\ toClient' = Append(toClient, m) /\ turn[k] # "none" /\ UNCHANGED <<local, toServer, turn, ledger>>
        /\ asked' = IF m.kind \in Tools /\ turn[k] = "running" THEN [asked EXCEPT ![k] = @ + 1] ELSE asked
        /\ finals' = IF m.kind = "answer" /\ turn[k] = "running" THEN [finals EXCEPT ![k] = @ + 1] ELSE finals
    BY <1>5 DEF ServerDeviates, Tells
  <2>3. finals' \in [Slot -> Nat] /\ \A j \in Slot : turn[j] = "ended" => finals'[j] = finals[j]
    BY <2>2
  <2> QED
    BY <2>1, <2>2, <2>3 DEF Speaks
<1> QED
  BY <1>1, <1>2, <1>3, <1>4, <1>5 DEF ServerStep

\* A message more to come.
LEMMA SpeaksKeeps ==
    ASSUME WireInv, BooksInv, NEW k \in Slot, NEW m \in Message, Speaks(k, m)
    PROVE  WireInv'
<1>1. /\ turn[k] # "none" /\ m.turn = k /\ toClient' = Append(toClient, m)
      /\ UNCHANGED <<pc, slot, nextId, results, toServer, answered>>
      /\ asked' = IF m.kind \in Tools /\ turn[k] = "running" THEN [asked EXCEPT ![k] = @ + 1] ELSE asked
      /\ finals' \in [Slot -> Nat]
      /\ \A j \in Slot : turn[j] = "ended" => finals'[j] = finals[j]
      /\ turn' = IF Completion(m) THEN [turn EXCEPT ![k] = "ended"] ELSE turn
      /\ Completion(m) => turn[k] = "running" /\ finals'[k] = 1
  BY DEF Speaks, local, ledger
<1>2. WireType'
  BY <1>1 DEF WireInv, WireType
<1>3. /\ \A j \in Slot : turn'[j] = "none" <=> turn[j] = "none"
      /\ \A j \in Slot : turn[j] = "ended" => turn'[j] = "ended" /\ asked'[j] = asked[j] /\ finals'[j] = finals[j]
      /\ \A j \in Slot : j # k => turn'[j] = turn[j] /\ asked'[j] = asked[j]
      /\ Begun' = Begun
  BY <1>1 DEF WireInv, WireType, Begun
<1>4. OutboundInv'
  <2>1. \A i \in DOMAIN toServer : toServer[i].kind = "turn" => turn'[toServer[i].turn] = "none"
    <3> TAKE i \in DOMAIN toServer
    <3> HAVE toServer[i].kind = "turn"
    <3>1. toServer[i].turn \in Slot /\ turn[toServer[i].turn] = "none"
      BY DEF WireInv, OutboundInv, Begun
    <3> QED
      BY <1>3, <3>1
  <2>2. \A j \in Slot \ Begun : turn'[j] = "none"
    BY <1>3 DEF WireInv, OutboundInv
  <2> QED
    BY <1>1, <1>3, <2>1, <2>2 DEF WireInv, OutboundInv
<1>5. PICK len \in Nat : /\ len = Len(toClient) /\ DOMAIN toClient = 1..len /\ DOMAIN toClient' = 1..len + 1
                         /\ toClient'[len + 1] = m
                         /\ \A i \in 1..len : toClient'[i] = toClient[i]
  <2>1. toClient \in Seq(Message)
    BY DEF WireInv, WireType
  <2>2. PICK len \in Nat : len = Len(toClient)
    BY <2>1
  <2>3. /\ DOMAIN toClient = 1..len /\ DOMAIN toClient' = 1..len + 1
        /\ toClient'[len + 1] = m
        /\ \A i \in 1..len : toClient'[i] = toClient[i]
    BY <1>1, <2>1, <2>2
  <2> QED
    BY <2>2, <2>3
<1>6. \A i \in 1..len + 1 : i \in 1..len \/ i = len + 1
  OBVIOUS
<1>7. \A i \in DOMAIN toClient : Completion(toClient[i]) =>
          toClient[i].turn \in Slot /\ turn[toClient[i].turn] = "ended" /\ finals[toClient[i].turn] = 1
  BY DEF WireInv, InboundInv, Completion
<1>8. InboundInv'
  <2>1. \A i \in DOMAIN toClient' : toClient'[i].kind # "result" =>
            toClient'[i].turn \in Slot /\ turn'[toClient'[i].turn] # "none"
    BY <1>1, <1>3, <1>5, <1>6 DEF WireInv, InboundInv
  <2>2. \A i \in DOMAIN toClient' : Completion(toClient'[i]) =>
            turn'[toClient'[i].turn] = "ended" /\ finals'[toClient'[i].turn] = 1
    <3> TAKE i \in DOMAIN toClient'
    <3> HAVE Completion(toClient'[i])
    <3>1. CASE i \in 1..len
      BY <1>3, <1>5, <1>7, <3>1
    <3>2. CASE i = len + 1
      BY <1>1, <1>5, <3>2 DEF WireInv, WireType
    <3> QED
      BY <1>5, <1>6, <3>1, <3>2
  <2>3. \A j \in Slot : turn'[j] = "none" => asked'[j] = 0 /\ answered'[j] = 0 /\ (j = slot' => pc' # "exec")
    BY <1>1, <1>3 DEF WireInv, InboundInv
  <2> QED
    BY <2>1, <2>2, <2>3 DEF InboundInv, Completion
<1>9. TallyInv'
  <2> SUFFICES ASSUME pc \in Live, turn'[slot] # "none"
               PROVE  \E g \in [0..Len(toClient') -> Nat] : Tally(g)'
    BY <1>1 DEF TallyInv
  <2>1. slot \in Slot
    BY DEF BooksInv, SlotInv
  <2>2. PICK f \in [0..Len(toClient) -> Nat] : Tally(f)
    BY <1>3, <2>1 DEF WireInv, TallyInv
  <2>3. asked[slot] \in Nat
    BY <2>1 DEF WireInv, WireType
  <2>4. turn'[slot] = "running" => turn[slot] = "running" /\ asked'[slot] = asked[slot] + Calls(m, slot)
    <3>1. CASE k = slot
      BY <1>1, <2>1, <2>3, <3>1 DEF Calls, WireInv, WireType
    <3>2. CASE k # slot
      BY <1>1, <1>3, <2>1, <2>3, <3>2 DEF Calls
    <3> QED
      BY <3>1, <3>2
  <2>5. \A i \in DOMAIN toClient : Completion(toClient[i]) /\ toClient[i].turn = slot => asked'[slot] = asked[slot]
    BY <1>3, <1>7
  <2>6. Completion(m) /\ m.turn = slot => turn[slot] = "running" /\ asked'[slot] = asked[slot]
    BY <1>1 DEF Completion, Tools
  <2> QED
    BY <1>1, <2>2, <2>4, <2>5, <2>6, TallyHears DEF WireInv
<1>10. WholeTurns'
  BY <1>1, <1>3, ResultSlots DEF WireInv, WholeTurns
<1> QED
  BY <1>2, <1>4, <1>8, <1>9, <1>10 DEF WireInv

\* The tally goes on when the server has said what concerns no call.
LEMMA TallyGoesOn ==
    ASSUME WireType, NEW f \in [0..Len(toClient) -> Nat], Tally(f), UNCHANGED <<slot, pc, answered, asked>>,
           NEW more \in Seq(Message), toClient' = toClient \o more,
           \A i \in DOMAIN more : more[i].kind \notin Tools /\ ~ Completion(more[i]),
           turn'[slot] = "running" => turn[slot] = "running"
    PROVE  \E g \in [0..Len(toClient') -> Nat] : Tally(g)'
<1>1. PICK len \in Nat : len = Len(toClient)
  BY DEF WireType
<1>2. PICK extra \in Nat : extra = Len(more)
  OBVIOUS
<1>3. /\ Len(toClient') = len + extra
      /\ \A i \in 1..len : toClient'[i] = toClient[i]
      /\ \A i \in 1..len + extra : i > len => i - len \in 1..extra /\ toClient'[i] = more[i - len]
      /\ DOMAIN more = 1..extra /\ DOMAIN toClient = 1..len
  BY <1>1, <1>2, ConcatFacts DEF WireType
<1>4. f[len] \in Nat
  <2>1. len \in 0..len
    OBVIOUS
  <2> QED
    BY <1>1, <2>1
<1>5. PICK g \in [0..len + extra -> Nat] :
          /\ \A i \in 0..len : i \in 0..len + extra /\ g[i] = f[i]
          /\ \A i \in 0..len + extra : i >= len => g[i] = f[len]
  <2> DEFINE g == [i \in 0..len + extra |-> IF i <= len THEN f[i] ELSE f[len]]
  <2>1. \A i \in 0..len + extra : i <= len => i \in 0..len
    OBVIOUS
  <2>2. g \in [0..len + extra -> Nat]
    BY <1>1, <1>4, <2>1
  <2>3. \A i \in 0..len : i \in 0..len + extra /\ i <= len
    OBVIOUS
  <2>4. \A i \in 0..len + extra : i >= len /\ i <= len => i = len
    OBVIOUS
  <2>5. (\A i \in 0..len : i \in 0..len + extra /\ g[i] = f[i]) /\ (\A i \in 0..len + extra : i >= len => g[i] = f[len])
    BY <2>3, <2>4
  <2> QED
    BY <2>2, <2>5
<1>6. g[0] = f[0] /\ g[len + extra] = f[len]
  <2>1. 0 \in 0..len /\ len + extra \in 0..len + extra /\ len + extra >= len
    OBVIOUS
  <2> QED
    BY <1>5, <2>1
<1>7. \A i \in 1..len + extra : i \in 1..len \/ i > len
  OBVIOUS
<1>8. \A i \in 1..len + extra : i > len => Calls(toClient'[i], slot) = 0 /\ ~ Completion(toClient'[i])
  BY <1>3 DEF Calls
<1>9. \A i \in 1..len + extra : g[i] = g[i - 1] + Calls(toClient'[i], slot)
  <2> TAKE i \in 1..len + extra
  <2>1. CASE i \in 1..len
    <3>1. i \in 0..len /\ i - 1 \in 0..len
      BY <2>1
    <3>2. f[i] = f[i - 1] + Calls(toClient[i], slot)
      BY <1>1, <2>1 DEF Tally
    <3> QED
      BY <1>3, <1>5, <2>1, <3>1, <3>2
  <2>2. CASE i > len
    <3>a. Calls(toClient'[i], slot) = 0
      BY <1>8, <2>2
    <3>b. f[len] + 0 = f[len]
      BY <1>4
    <3>1. i \in 0..len + extra /\ i - 1 \in 0..len + extra /\ i >= len /\ i - 1 >= len
      BY <2>2
    <3>2. g[i] = f[len] /\ g[i - 1] = f[len]
      BY <1>5, <3>1
    <3> QED
      BY <3>a, <3>b, <3>2
  <2> QED
    BY <1>7, <2>1, <2>2
<1>10. turn'[slot] = "running" => g[len + extra] = asked[slot]
  BY <1>1, <1>6 DEF Tally
<1>11. \A i \in 1..len + extra : Completion(toClient'[i]) /\ toClient'[i].turn = slot => g[i] = asked[slot]
  <2> TAKE i \in 1..len + extra
  <2> HAVE Completion(toClient'[i]) /\ toClient'[i].turn = slot
  <2>1. i \in 1..len
    BY <1>7, <1>8
  <2>2. i \in 0..len /\ Completion(toClient[i]) /\ toClient[i].turn = slot
    BY <1>3, <2>1
  <2> QED
    BY <1>1, <1>5, <2>1, <2>2 DEF Tally
<1>12. Tally(g)'
  BY <1>3, <1>6, <1>9, <1>10, <1>11 DEF Tally, Completion
<1> QED
  BY <1>3, <1>12

\* A request is read.
LEMMA AnswersKeeps == ASSUME WireInv, BooksInv, Answers PROVE WireInv'
<1> DEFINE m == Head(toServer)
<1>1. /\ UNCHANGED <<pc, slot, nextId, results, asked, finals, answered>>
      /\ toServer # <<>> /\ toServer' = Tail(toServer)
      /\ \/ UNCHANGED turn
         \/ m.kind = "turn" /\ turn' = [turn EXCEPT ![m.turn] = "running"]
         \/ m.kind = "interrupt" /\ turn' = [turn EXCEPT ![m.turn] = "ended"]
  BY DEF Answers, local, ledger
<1>2. PICK more \in Seq(Message) :
          /\ toClient' = toClient \o more
          /\ \A i \in DOMAIN more :
                /\ more[i].kind \notin Tools /\ ~ Completion(more[i])
                /\ more[i].kind # "result" => more[i].turn \in Slot /\ turn'[more[i].turn] # "none"
  BY DEF Answers
<1>3. PICK len \in Nat :
          /\ len = Len(toServer) /\ DOMAIN toServer = 1..len /\ 1 \in 1..len /\ m = toServer[1]
          /\ toServer' \in Seq(ToServer) /\ DOMAIN toServer' = 1..len - 1
          /\ \A i \in 1..len - 1 : i + 1 \in 1..len /\ toServer'[i] = toServer[i + 1]
  BY <1>1, TailFacts DEF WireInv, WireType
<1>4. m.kind \in {"turn", "interrupt"} => m.turn \in Begun /\ m.turn \in Slot
  BY <1>3 DEF WireInv, OutboundInv, Begun
<1>5. m.kind = "turn" => turn[m.turn] = "none"
  BY <1>3 DEF WireInv, OutboundInv
<1>6. \A i \in 1..len - 1 : toServer'[i].kind = "turn" /\ m.kind \in {"turn", "interrupt"} =>
          toServer'[i].turn # m.turn
  <2> TAKE i \in 1..len - 1
  <2> HAVE toServer'[i].kind = "turn" /\ m.kind \in {"turn", "interrupt"}
  <2>1. i + 1 \in DOMAIN toServer /\ toServer[i + 1].kind = "turn" /\ ~ (i + 1 <= 1)
    BY <1>3
  <2>2. toServer[i + 1].turn = toServer[1].turn => i + 1 <= 1
    BY <1>3, <2>1 DEF WireInv, OutboundInv
  <2> QED
    BY <1>3, <2>1, <2>2
<1> HIDE DEF m
<1>7. /\ turn' \in [Slot -> {"none", "running", "ended"}]
      /\ \A j \in Slot : turn'[j] = turn[j] \/ (m.kind \in {"turn", "interrupt"} /\ j = m.turn)
      /\ \A j \in Slot : turn'[j] = "none" => turn[j] = "none"
      /\ \A j \in Slot : turn[j] = "ended" => turn'[j] = "ended"
      /\ \A j \in Slot : turn'[j] = "running" => turn[j] = "running" \/ turn[j] = "none"
  BY <1>1, <1>4, <1>5 DEF WireInv, WireType
<1>8. WireType'
  <2>1. toClient' \in Seq(Message)
    BY <1>2, ConcatFacts DEF WireInv, WireType
  <2> QED
    BY <1>1, <1>3, <1>7, <2>1 DEF WireInv, WireType
<1>9. Begun' = Begun
  BY <1>1 DEF Begun
<1>10. OutboundInv'
  <2>1. \A j \in Slot \ Begun : turn'[j] = "none"
    BY <1>4, <1>7 DEF WireInv, OutboundInv
  <2>2. \A i \in DOMAIN toServer' : toServer'[i].kind \in {"turn", "interrupt"} => toServer'[i].turn \in Begun
    BY <1>3 DEF WireInv, OutboundInv
  <2>3. \A i, j \in DOMAIN toServer' :
          /\ toServer'[i].kind = "turn"
          /\ toServer'[j].kind \in {"turn", "interrupt"}
          /\ toServer'[i].turn = toServer'[j].turn
          => i <= j
    <3> TAKE i, j \in DOMAIN toServer'
    <3>1. i + 1 \in DOMAIN toServer /\ j + 1 \in DOMAIN toServer
          /\ toServer'[i] = toServer[i + 1] /\ toServer'[j] = toServer[j + 1] /\ i \in Nat /\ j \in Nat
      BY <1>3
    <3> HAVE /\ toServer'[i].kind = "turn"
             /\ toServer'[j].kind \in {"turn", "interrupt"}
             /\ toServer'[i].turn = toServer'[j].turn
    <3>2. i + 1 <= j + 1
      BY <3>1 DEF WireInv, OutboundInv
    <3> QED
      BY <3>1, <3>2
  <2>4. \A i \in DOMAIN toServer' : toServer'[i].kind = "turn" => turn'[toServer'[i].turn] = "none"
    <3> TAKE i \in DOMAIN toServer'
    <3> HAVE toServer'[i].kind = "turn"
    <3>0. i + 1 \in DOMAIN toServer /\ toServer'[i] = toServer[i + 1]
      BY <1>3
    <3>1. toServer'[i].turn \in Slot /\ turn[toServer'[i].turn] = "none"
      BY <3>0 DEF WireInv, OutboundInv, Begun
    <3> QED
      BY <1>3, <1>6, <1>7, <3>1
  <2> QED
    BY <1>9, <2>1, <2>2, <2>3, <2>4 DEF OutboundInv
<1>11. PICK old \in Nat :
          /\ old = Len(toClient) /\ DOMAIN toClient = 1..old
          /\ \A i \in DOMAIN toClient' :
                \/ i \in DOMAIN toClient /\ toClient'[i] = toClient[i]
                \/ i - old \in DOMAIN more /\ toClient'[i] = more[i - old]
  <2>1. PICK old \in Nat : old = Len(toClient)
    BY DEF WireInv, WireType
  <2>2. /\ DOMAIN toClient = 1..old /\ DOMAIN more = 1..Len(more) /\ DOMAIN toClient' = 1..old + Len(more)
        /\ Len(more) \in Nat
        /\ \A i \in 1..old : toClient'[i] = toClient[i]
        /\ \A i \in 1..old + Len(more) : i > old => i - old \in 1..Len(more) /\ toClient'[i] = more[i - old]
    BY <1>2, <2>1, ConcatFacts DEF WireInv, WireType
  <2>3. \A i \in DOMAIN toClient' : i \in 1..old \/ i > old
    BY <2>2
  <2> QED
    BY <2>1, <2>2, <2>3
<1>12. InboundInv'
  <2>1. \A i \in DOMAIN toClient' : toClient'[i].kind # "result" =>
            toClient'[i].turn \in Slot /\ turn'[toClient'[i].turn] # "none"
    <3> TAKE i \in DOMAIN toClient'
    <3> HAVE toClient'[i].kind # "result"
    <3>1. CASE i \in DOMAIN toClient /\ toClient'[i] = toClient[i]
      BY <1>7, <3>1 DEF WireInv, InboundInv
    <3>2. CASE i - old \in DOMAIN more /\ toClient'[i] = more[i - old]
      BY <1>2, <3>2
    <3> QED
      BY <1>11, <3>1, <3>2
  <2>2. \A i \in DOMAIN toClient' : Completion(toClient'[i]) =>
            turn'[toClient'[i].turn] = "ended" /\ finals'[toClient'[i].turn] = 1
    <3> TAKE i \in DOMAIN toClient'
    <3> HAVE Completion(toClient'[i])
    <3>1. i \in DOMAIN toClient /\ toClient'[i] = toClient[i]
      BY <1>2, <1>11
    <3>2. toClient[i].turn \in Slot /\ turn[toClient[i].turn] = "ended" /\ finals[toClient[i].turn] = 1
      BY <3>1 DEF WireInv, InboundInv, Completion
    <3> QED
      BY <1>1, <1>7, <3>1, <3>2
  <2>3. \A j \in Slot : turn'[j] = "none" => asked'[j] = 0 /\ answered'[j] = 0 /\ (j = slot' => pc' # "exec")
    BY <1>1, <1>7 DEF WireInv, InboundInv
  <2> QED
    BY <2>1, <2>2, <2>3 DEF InboundInv, Completion
<1>13. TallyInv'
  <2> SUFFICES ASSUME pc \in Live, turn'[slot] # "none"
               PROVE  \E g \in [0..Len(toClient') -> Nat] : Tally(g)'
    BY <1>1 DEF TallyInv
  <2>1. slot \in Slot
    BY DEF BooksInv, SlotInv
  <2>2. CASE turn[slot] = "none"
    BY <1>1, <1>2, <2>1, <2>2, TallyStarts DEF WireInv
  <2>3. CASE turn[slot] # "none"
    <3>1. PICK f \in [0..Len(toClient) -> Nat] : Tally(f)
      BY <2>3 DEF WireInv, TallyInv
    <3>2. turn'[slot] = "running" => turn[slot] = "running"
      BY <1>7, <2>1, <2>3
    <3> QED
      BY <1>1, <1>2, <3>1, <3>2, TallyGoesOn DEF WireInv
  <2> QED
    BY <2>2, <2>3
<1>14. WholeTurns'
  BY <1>1, <1>7, ResultSlots DEF WireInv, WholeTurns
<1> QED
  BY <1>8, <1>10, <1>12, <1>13, <1>14 DEF WireInv

-----------------------------------------------------------------------------
(* The theorems about turns. *)

\* The client's books and the messages, together.
TurnInv == BooksInv /\ WireInv

\* They hold in every reachable state.
LEMMA TurnInvariant == Spec => []TurnInv
<1>1. Init => TurnInv
  BY BooksInit, WireInit DEF TurnInv
<1>2. TurnInv /\ [Next]_vars => TurnInv'
  <2> SUFFICES ASSUME TurnInv, [Next]_vars PROVE TurnInv'
    OBVIOUS
  <2>1. ClientMoves \/ ServerStep
    BY NextMoves DEF TurnInv, WireInv, BooksInv
  <2> QED
    BY <2>1, BooksStep, ClientKeeps, ServerMoves, SpeaksKeeps, AnswersKeeps DEF TurnInv
<1> QED
  BY <1>1, <1>2, PTL DEF Spec

(* A result is returned only for a turn that the server itself ended, with one
   final answer, all of whose calls have been answered, and that was never
   interrupted: whatever the server says of other turns, repeats or says after
   the end, and whatever was under way (run_slot and _handle_turn_completed). *)
THEOREM ResultsAreWholeTurns == Spec => []ResultIsWholeTurn
<1>1. TurnInv => ResultIsWholeTurn
  <2> SUFFICES ASSUME TurnInv, NEW k \in DOMAIN results, results[k].outcome = "completed"
               PROVE  /\ turn[k] = "ended" /\ finals[k] = 1 /\ asked[k] = answered[k] /\ interrupts[k] = 0
    BY DEF ResultIsWholeTurn
  <2> QED
    BY DEF TurnInv, WireInv, WholeTurns, BooksInv, ResultInv
<1> QED
  BY <1>1, TurnInvariant, PTL

(* A turn the client knows of has been interrupted exactly once when run_slot gives
   it up for its deadline or for a protocol failure, by whichever handler and
   though either handler and any send of it may fail; no turn is interrupted twice,
   or after it completed.  Where an exception or a cancellation ends the slot with
   no interrupt, it is the last: no turn runs beside another slot's. *)
THEOREM GivenUpTurnInterrupted == Spec => []GivenUpTurnIsInterrupted
<1>1. TurnInv => GivenUpTurnIsInterrupted
  <2> SUFFICES ASSUME TurnInv PROVE GivenUpTurnIsInterrupted
    OBVIOUS
  <2>1. \A k \in Slot : interrupts[k] <= 1
    BY DEF TurnInv, BooksInv, ResultInv
  <2>2. \A k \in Slot : turn[k] = "running" => k = slot
    <3> SUFFICES ASSUME NEW k \in Slot, turn[k] = "running", k # slot PROVE FALSE
      OBVIOUS
    <3>1. k \in Begun /\ k \in Nat /\ k >= 1 /\ slot \in Nat
      BY PositionsAssumption DEF TurnInv, WireInv, OutboundInv, BooksInv, SlotInv, Slot
    <3>2. k < slot
      BY <3>1 DEF Begun
    <3>3. k \in DOMAIN results
      BY <3>1, <3>2 DEF TurnInv, BooksInv, ResultInv
    <3>4. results[k].outcome = "completed"
      BY <3>2, <3>3 DEF TurnInv, BooksInv, ResultInv
    <3> QED
      BY <3>3, <3>4 DEF TurnInv, WireInv, WholeTurns
  <2> QED
    BY <2>1, <2>2 DEF TurnInv, BooksInv, ResultInv, GivenUpTurnIsInterrupted
<1> QED
  BY <1>1, TurnInvariant, PTL

============================================================================
