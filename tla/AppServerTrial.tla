--------------------------- MODULE AppServerTrial ---------------------------
(***************************************************************************)
(* One trial: AppServerTrial owns an empty jail, an app-server process in  *)
(* it, a task that drains the process's stderr, and the client; its body   *)
(* runs the slots.  Entering may fail or be cancelled at every await, and  *)
(* close undoes whatever was set up: stdin, SIGTERM, a grace period, kill, *)
(* reap, the end of stderr, the jail.                                      *)
(*                                                                         *)
(* close runs behind asyncio.shield when the trial is left or cancelled:   *)
(* a further cancellation leaves it to the event loop ("background").      *)
(* After a failed start it runs unshielded: a cancellation aborts the wait *)
(* it is in and becomes the cleanup error that close raises.               *)
(***************************************************************************)
EXTENDS AppServerClient

CONSTANT MaxCancels   \* bound on the cancellations of the trial's task

ASSUME CancelAssumption == MaxCancels \in Nat

VARIABLES
    stage,     \* where __aenter__, the body or close is
    closer,    \* how close is awaited
    process,   \* the app-server process
    stderr,    \* the task draining its stderr
    jail,      \* the host jail
    error,     \* whether close has a cleanup error
    left,      \* whether the async with statement has ended
    cancels

hostVars == <<stage, closer, process, stderr, jail, error, left, cancels>>
vars == <<clientVars, hostVars>>

Entering == {"new", "jailed", "entering"}
Closing == {"stdin", "term", "kill", "stderr", "jail"}

HostTypeOK ==
    /\ stage \in Entering \cup {"body"} \cup Closing \cup {"left"}
    /\ closer \in {"none", "shielded", "direct", "background"}
    /\ process \in {"none", "alive", "terminating", "dead"}
    /\ stderr \in {"none", "draining", "done", "cancelled"}
    /\ jail \in {"none", "present"}
    /\ error \in {"no", "yes"} /\ left \in {"no", "yes"}
    /\ cancels \in Nat

TypeOK == ClientTypeOK /\ HostTypeOK

Init ==
    /\ ClientInit
    /\ stage = "new" /\ closer = "none" /\ process = "none" /\ stderr = "none"
    /\ jail = "none" /\ error = "no" /\ left = "no" /\ cancels = 0

-----------------------------------------------------------------------------
(* Faulty variants of definitions below, each a slip the code could contain. *)

\* A close that goes on after the grace period without a kill.
ReapsHopefully ==
    /\ stage = "term"
    /\ stage' = "stderr"
    /\ UNCHANGED <<clientVars, closer, process, stderr, jail, error, left, cancels>>

\* A close that only waits.
ReapsPatiently == process = "dead" /\ ReapsHopefully

-----------------------------------------------------------------------------
(* Entering. *)

\* The start fails and closes without a shield.
StartFails == stage' = "stdin" /\ closer' = "direct"

\* The directories are checked and the jail is created.
Prepares ==
    /\ stage = "new"
    /\ \/ stage' = "jailed" /\ jail' = "present" /\ UNCHANGED closer
       \/ StartFails /\ UNCHANGED jail
    /\ UNCHANGED <<clientVars, process, stderr, error, left, cancels>>

\* The environment is built and the process spawned in the jail, with pipes.
Spawns ==
    /\ stage = "jailed"
    /\ \/ /\ stage' = "entering"
          /\ process' = "alive" /\ stderr' = "draining"
          /\ UNCHANGED closer
       \/ StartFails /\ process' \in {"none", "alive"} /\ UNCHANGED stderr
    /\ UNCHANGED <<clientVars, jail, error, left, cancels>>

\* initialize returns, and the body begins, or fails.
Initialized ==
    /\ stage = "entering"
    /\ \/ pc = "ready" /\ drain = "no" /\ stage' = "body" /\ UNCHANGED closer
       \/ pc = "over" /\ StartFails
    /\ UNCHANGED <<clientVars, process, stderr, jail, error, left, cancels>>

\* The body ends after a slot, when the last has ended or one has failed:
\* execute_arm swallows the failure, cancellations included.
BodyEnds ==
    /\ stage = "body"
    /\ pc \in {"ready", "over"}
    /\ stage' = "stdin" /\ closer' = "shielded"
    /\ UNCHANGED <<clientVars, process, stderr, jail, error, left, cancels>>

-----------------------------------------------------------------------------
(* close. *)

\* stdin is closed, which awaits, for as long as it takes, that the server has read
\* what was backed up before it or the pipe is broken; then SIGTERM is sent, if the
\* process has not exited already.
Terminates ==
    /\ stage = "stdin"
    /\ pipe # "backed"
    /\ stage' = IF process \in {"none", "dead"} THEN "stderr" ELSE "term"
    /\ process' = IF process = "alive" THEN "terminating" ELSE process
    /\ UNCHANGED <<clientVars, closer, stderr, jail, error, left, cancels>>

\* The process ended within the grace period, or is killed after it.
Reaps ==
    /\ \/ stage = "term" /\ process = "terminating" /\ stage' = "kill" /\ UNCHANGED process
       \/ stage = "kill" /\ process' = "dead" /\ stage' = "stderr"
       \/ stage = "term" /\ process = "dead" /\ stage' = "stderr" /\ UNCHANGED process
    /\ UNCHANGED <<clientVars, closer, stderr, jail, error, left, cancels>>

\* The drain of stderr has ended, or is cancelled after another grace period.
AwaitsStderr ==
    /\ stage = "stderr"
    /\ stage' = "jail"
    /\ stderr' = IF stderr = "draining" THEN "cancelled" ELSE stderr
    /\ UNCHANGED <<clientVars, closer, process, jail, error, left, cancels>>

\* The jail is removed, which may fail, and close returns or raises.
RemovesJail ==
    /\ stage = "jail"
    /\ stage' = "left"
    /\ left' = "yes"
    /\ \/ jail' = "none" /\ UNCHANGED error
       \/ jail = "present" /\ error' = "yes" /\ UNCHANGED jail
    /\ UNCHANGED <<clientVars, closer, process, stderr, cancels>>

CloseStep == Terminates \/ Reaps \/ AwaitsStderr \/ RemovesJail

-----------------------------------------------------------------------------
(* Cancellation of the task that runs the trial. *)

\* While it enters: close is shielded.
CancelEntering ==
    /\ stage \in Entering
    /\ stage' = "stdin" /\ closer' = "shielded"
    /\ drain' = "no"
    /\ UNCHANGED <<pc, nextId, interrupted, stop, results, wire, faults, ledger, rest, execVars,
                   process, stderr, jail, error, left>>

\* While a slot runs: run_slot sees it.
CancelBody ==
    /\ stage = "body"
    /\ SlotCancelled
    /\ UNCHANGED <<stage, closer, process, stderr, jail, error, left>>

\* While close is awaited behind a shield: the statement ends at once.
CancelShielded ==
    /\ stage \in Closing
    /\ closer = "shielded"
    /\ closer' = "background" /\ left' = "yes"
    /\ UNCHANGED <<clientVars, stage, process, stderr, jail, error>>

\* While close itself is what is cancelled, at the await it is in: unshielded,
\* or in the background when the event loop ends.
CancelClose ==
    /\ stage \in {"stdin", "term", "kill", "stderr"}
    /\ closer \in {"direct", "background"}
    /\ error' = "yes"
    /\ stage' = IF stage = "stderr" THEN "jail" ELSE "stderr"
    /\ UNCHANGED <<clientVars, closer, process, stderr, jail, left>>

Cancel ==
    /\ cancels < MaxCancels
    /\ cancels' = cancels + 1
    /\ CancelEntering \/ CancelBody \/ CancelShielded \/ CancelClose

-----------------------------------------------------------------------------
(* The world: processes and their pipes. *)

ProcessExits ==
    /\ process \in {"alive", "terminating"}
    /\ process' = "dead"
    /\ UNCHANGED <<clientVars, stage, closer, stderr, jail, error, left, cancels>>

StderrEnds ==
    /\ stderr = "draining"
    /\ process = "dead"
    /\ stderr' = "done"
    /\ UNCHANGED <<clientVars, stage, closer, process, jail, error, left, cancels>>

\* What the server says once the body has ended is never read.
ServerWorks ==
    /\ process = "alive"
    /\ stage \in {"entering", "body"}
    /\ pc # "over"
    /\ ServerStep
    /\ UNCHANGED hostVars

\* What was sent is read while it is closed, too.
PipeMoves ==
    /\ \/ process = "alive" /\ PipeFlows
       \/ process \in {"alive", "dead"} /\ PipeBreaks(process = "dead")
    /\ stage \in {"entering", "body", "stdin"}
    /\ UNCHANGED hostVars

ClientWorks ==
    /\ \/ stage = "entering" /\ Initializes
       \/ stage = "body" /\ RunsSlot
       \/ stage \in {"entering", "body"} /\ process = "dead" /\ TransportEnds
    /\ UNCHANGED hostVars

TimePasses == stage = "body" /\ Deadline /\ UNCHANGED hostVars
ToolTimePasses == stage = "body" /\ ToolTimer /\ UNCHANGED hostVars
ExecWorks == ExecStep /\ UNCHANGED hostVars

Next ==
    \/ Prepares \/ Spawns \/ Initialized \/ BodyEnds
    \/ CloseStep \/ Cancel
    \/ ProcessExits \/ StderrEnds
    \/ PipeMoves \/ ServerWorks \/ ClientWorks \/ TimePasses \/ ToolTimePasses \/ ExecWorks

\* The event loop runs what is ready and its timers fire; neither the server
\* nor a process that got SIGTERM need ever do anything.
Fairness ==
    /\ WF_vars(BodyEnds) /\ WF_vars(CloseStep)
    /\ WF_vars(ClientWorks) /\ WF_vars(TimePasses)
    /\ WF_vars(GraceEnds /\ UNCHANGED <<local, wire, server, faults, ledger, hostVars>>)

Spec == Init /\ [][Next]_vars /\ Fairness

-----------------------------------------------------------------------------
(* A trial that was left without a cleanup error, and whose close is not running
   on in the background, has left nothing: the process is reaped, its stderr is
   not being drained, the jail is gone, and no ssh process of a tool call runs
   unless a cancellation or the deadline cut the stopping of that call short (an
   error of the interrupt then sent may have taken the deadline's place). *)
NothingOutlivesTrial ==
    left = "yes" /\ closer # "background" /\ error = "no" =>
        /\ process \in {"none", "dead"}
        /\ stderr # "draining"
        /\ jail = "none"
        /\ call # "idle" => \E k \in DOMAIN results :
                                \/ results[k].outcome \in {"cancelled", "deadline"}
                                \/ results[k].outcome = "error" /\ interrupted = "yes"
        /\ call \in {"idle", "detached", "abandoned"}

(* The jail, the process's working directory, is never removed under a process
   that may still run, unless close raises. *)
JailGoesLast ==
    [][jail = "present" /\ jail' = "none" =>
          process \in {"none", "dead"} \/ error = "yes"]_vars

(* Once the body has begun, the trial closes, however silent the server is and
   however stubborn the processes are, unless the server leaves what it was sent
   unread for ever and keeps the pipe open: the drain of an interrupt and the close
   of stdin wait for that without a limit.  (initialize has no timeout either: an
   entering trial may wait for ever.) *)
OpenTrialCloses == []<>(pipe # "backed") => ((stage = "body") ~> (stage = "left"))

=============================================================================
