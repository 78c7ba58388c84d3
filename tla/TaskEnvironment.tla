--------------------------- MODULE TaskEnvironment ---------------------------
(***************************************************************************)
(* SshDockerTaskEnvironment.exec: one command run in the task container    *)
(* through a local ssh process.  The coroutine waits for the process with  *)
(* a timeout and, whichever way it ends, is meant to leave no process: it  *)
(* sends SIGTERM, waits for a grace period, kills and reaps.  A process    *)
(* may ignore SIGTERM for as long as it likes, so the grace period matters.*)
(*                                                                         *)
(* A cancellation is awaited behind asyncio.shield: a second one ends the  *)
(* coroutine and leaves the killing to the event loop ("detached").  The   *)
(* handler of other errors has no shield: a cancellation there gives the   *)
(* killing up ("abandoned").                                               *)
(*                                                                         *)
(* Draining stdout and stderr is part of the wait: the pipes close with    *)
(* the process.                                                            *)
(***************************************************************************)
VARIABLES
    call,   \* the coroutine
    ssh     \* the local ssh process

execVars == <<call, ssh>>

Stopping == {"stop_timeout", "stop_cancel", "stop_error"}

ExecTypeOK ==
    /\ call \in {"idle", "waiting", "detached", "abandoned"} \cup Stopping
    /\ ssh \in {"none", "alive", "terminating", "dead"}

ExecInit == call = "idle" /\ ssh = "none"

\* The process is running: nobody awaits a SIGTERM's effect yet.
Terminated == IF ssh = "alive" THEN "terminating" ELSE ssh

-----------------------------------------------------------------------------
\* The request is valid and ssh has been spawned.
ExecSpawns ==
    /\ call = "idle"
    /\ call' = "waiting"
    /\ ssh' = "alive"

\* The process exits by itself or because of SIGTERM.
SshExits ==
    /\ ssh \in {"alive", "terminating"}
    /\ ssh' = "dead"
    /\ UNCHANGED call

\* wait_for expires, or a drain fails: terminate, then wait for the grace.
ExecGivesUp ==
    /\ call = "waiting"
    /\ \/ ssh = "alive" /\ call' = "stop_timeout"
       \/ call' = "stop_error"
    /\ ssh' = Terminated

\* The grace period ends: kill and reap, by the coroutine or by the task that
\* a second cancellation left behind.
GraceEnds ==
    /\ call \in Stopping \cup {"detached"}
    /\ ssh = "terminating"
    /\ ssh' = "dead"
    /\ UNCHANGED call

\* A CancelledError reaches the coroutine, where it awaits.
ExecCancelled ==
    /\ call' = CASE call \in {"waiting", "stop_timeout"} -> "stop_cancel"
                 [] call = "stop_cancel" -> "detached"
                 [] call = "stop_error" -> "abandoned"
    /\ ssh' = Terminated

\* The coroutine ends with its process reaped; from is where it was.
ExecEnds(from) ==
    /\ call \in from
    /\ ssh = "dead"
    /\ call' = "idle"
    /\ ssh' = "none"

=============================================================================
