# AgentCongress: models, checks and proofs

AgentCongress runs a meeting of coding agents: a speaker and an addressee
discuss while the others listen and may interrupt; tasks are handed to workers in
Git worktrees; what they deliver is validated, approved, integrated and promoted.
Experiments run the same meetings in fixed slots, on the host or through a codex
app-server beside a task container, and compare what comes out.
Everything a meeting does is an event in a durable log, and every CLI invocation
rebuilds the meeting from it. The modules here model the parts of it where a step
may be interrupted, repeated, overtaken or decided on what is no longer true.
Paths are relative to the repository root unless they name a module.

    tlc -config workflow_one.cfg MCTaskWorkflow     (any run: module and .cfg below)
    tlapm TaskWorkflowProofs.tla                    (any *Proofs module)

## The system

| component (code) | state | operations | modelled by |
|---|---|---|---|
| Meeting runtime (`runtime.py`, `models.py`) | `MeetingState`: phase, roster, floor, tasks, reports, validations, approvals, merge commits | one guarded operation per event type; `record` appends and applies | `MeetingTables`, `TaskWorkflow`, the floor part in `Discussion` |
| CLI (`cli.py`) | none of its own; holds the meeting lock from `resume` to exit | `run`, `talk`, `meeting-run`, `phase`, `task-*`, `approve`, `reject` | the command actions of `TaskWorkflow` and `Discussion` |
| Workspace manager (`workspace.py`) | worktrees, task and integration branches, the target branch | create or reuse, integrate (identity, snapshot, merge), promote | `TaskWorkflow`: `wt`, `integ`, `main` |
| Verification (`verification.py`) | none | changed files against scope and report, commands, identity; combined validation | `CheckScope`, `RunChecks`, `VerifyCombination` |
| Workers (`workers.py`) | none | `execute_worker_task` and its failure path | `BeginExecute` ... `FinishReady`, `WorkerFails` |
| Event store and lock (`events.py`) | SQLite table, lock file | acquire, replay, append, close, release | `EventStore`, `AtomicLog` |
| Floor policy (`floor.py`) | speaking turns, consecutive grants | `score`, `select`, `grant` | `Discussion` |
| Controller and speaking turn (`discussion.py`, `orchestration.py`) | none beyond the runtime's | a turn; completion, supersession, rotation | `Discussion` |
| Listeners (`listeners.py`) and the gate (`streaming.py`) | none | a request for the floor, or nothing | the bids of `Discussion` |
| Sentence segmenter (`streaming.py`) | buffer, fence flag | `push`, `flush` | `Segmenter` |
| Worker session (`adapters.py`, `accounting.py`, `workers.py`) | a codex process and its descendants; the governor's sessions and usage | start, stream, time out, cancel, kill, finish | `WorkerSession` |
| Sandbox preflight (`sandbox_preflight.py`) | none | probes of both permission profiles, verdict | `SandboxPreflight` |
| Experiment runner and commands (`evaluation.py`, `manifest.py`, `cli.py`), analysis (`analysis.py`) | outcome, manifest, block file | three slots, verification, scoring, closing; five arms; matching | `Experiment` |
| App-server client (`appserver_client.py`) | outstanding request, active turn, its calls and items | request, slot, tool call, deadline, interrupt | `AppServerClient` |
| App-server host (`appserver_host.py`) | process, stderr task, jail | enter, close, both cancelled anywhere | `AppServerTrial` |
| SSH task environment (`ssh_task_environment.py`) | an ssh process | `exec` and its ending | `TaskEnvironment` |
| Direct runner (`stage_two_direct_runner.py`) and its gate script | meeting log, container, score, result file | run an arm, discard or judge it, finalize | `DirectRun` |
| Agent loop and tools (`llm/agent.py`, `llm/tools.py`) | message list | bounded rounds of tool calls | not modelled |
| Stage-two plan, oracle gate, LLM providers, configuration, prompts, other scripts | none | validation of frozen files, I/O, parsing, text | not modelled |

How they interact: a CLI command takes the meeting's file lock, replays the log
into a `CongressRuntime`, checks a guard, appends one event at a time, and calls
Git through the `WorkspaceManager` between appends; it releases the lock when it
ends, however it ends. Nothing ties the log and Git together but the order of
these steps. The lock excludes other commands on the meeting; it does not exclude
the worker processes and people who write in the task worktrees. During a
discussion the model's stream is cut into segments; each is offered to the
listeners; the policy picks a winner; the runtime records the grant; the controller
decides who speaks next. A worker execution opens a session with the budget
governor and streams a codex process through the adapter. The experiment runner drives two
deliberations and one execution this way, and writes a manifest of what became of
them; the analysis reads only manifests. The direct runner replaces the adapter by an
app-server trial: the client runs a slot as one turn, the turn's tool calls go through ssh into the task
container, and the gate script stops the container, judges its volume and has the result finalized.

What is hard here, and where it is looked for (`hazards` in `PROJECT.json` gives
the lines):

- a crash between a Git step and the event that records it, and between two
  appends of a command (`TaskWorkflow`, action `Stop`);
- a worktree that changes after it was validated, or approved (`Disturb`);
- results that are used after the state they were taken from has moved on: an old
  validation, an old approval, a combined result from before another integration;
- two commands at once, on one meeting or on one database (`EventStore`);
- a return address of the floor that several events write (`Discussion`);
- a text whose splitting the provider chooses (`Segmenter`);
- a timer, a cancellation and a late answer for the same await, and a second
  cancellation during the cleanup of the first (`TaskEnvironment`, `AppServerClient`,
  `AppServerTrial`, `WorkerSession`);
- processes that ignore signals or leave descendants (`WorkerSession`, `AppServerTrial`);
- a peer that stops reading, a pipe that breaks, and the exceptions of a send that no handler
  expects (`AppServerClient`, `AppServerTrial`);
- an exception after the decisive assignment: a run that is scored and fails, a result
  that is written and finalized again (`Experiment`, `DirectRun`).

## The modules

### MeetingTables and TaskWorkflow

`MeetingTables` holds the status and phase tables of `runtime.py`. `TaskWorkflow` is
the core. Its state is the meeting state of the tasks (`status`, `report`, `valid`,
`approval`, `approvedId`, `base`, `mergeCommit`, `combinedValid`, `phase`), Git
(`wt`: a worktree's branch, HEAD and working tree; `integ`: the integration branch;
`main`), and the command in progress (`op`, `pc`, `cur`, `scopeOk`, `source`).
A command that is one append is one action guarded by `Idle`. A longer one
is a sequence of actions linked by `pc`, one for each append or Git call, in the
order of the code:

    task-create     ProposeTask, AssignTask
    task-prepare    BeginPrepare, PrepareIntegration, PrepareWorktree, PrepareAccept, PrepareRecord
    task-report     BeginReport, SubmitReport, [BlockOnHuman | CheckScope, RunChecks, FinishReady]
    task-execute    BeginExecute, the same, WorkerFails at any of them
    task-integrate  BeginIntegrate, CheckScope, RunChecks, ConfirmIdentity, Snapshot,
                    ReadSource, CheckSource, MergeTask, RecordIntegration
    task-promote    BeginPromote, VerifyCombination, MergeMain, CloseTask*, CompleteMeeting

`Stop` ends any command between any two of its steps: an exception and a killed
process leave the same behind, since the state is what a replay rebuilds.
`Disturb` changes a worktree from outside, and `AdvanceMain` commits something of others (`Other`) to the target
branch, into whose state `MergeMain` merges (`promote` does not compare it with anything). The constant `Exposed` says at which
program points it may hit the worktree the running command works on; other
worktrees may change at any time. Three history variables (`validated`, `granted`,
`combined`) say what the log has ever recorded; no guard reads them.

What is abstracted: a Git tree is a value (`Content`), so path lists, patterns and
the snapshot's index are one comparison with `InScope` and the declared change;
a commit is its tree and its position; the integration head is the set of task commits in
it; a merge conflict, a failing Git call and an illegal transition are `Stop`.
Prompts, usage events and the blackboard are left out.

### DeliveryGate

What the workflow promises, without commands, locks, worktrees or crashes: a tree is
validated, then granted, then integrated; a head is verified and then promoted as a whole. It is stated over the history
variables, `integ.head` and `Delivered`, the part of `main` that is the meeting's; `ImplementsGate` in `TaskWorkflow` is the refinement
mapping.

### EventStore

Invocations of the CLI, each for one meeting, from the lock to the exit: `Acquire`
(flock), `OpenStore` or `OpenFails`, `Replay` with the roster check of `resume`,
`Decide`, `Insert`, `Commit` and `Apply` for each event, `CloseStore`, `Release`, and
`Crash` anywhere. Meetings have their own locks; the database has one writer, and a
process that waits for it too long gets an error (`DatabaseIsLocked`). The in-memory
state is the sequence of events applied, being a fold over them.

### AtomicLog (abstract)

What the store promises to a command, without processes, locks, memory or
transactions: an event is decided on and recorded in one step, in sight of all the
events before it; a started meeting is not started again and is continued by the
roster it was started with. `ImplementsAtomicLog` in `EventStore` is the refinement (the log
is the same variable, every other step a stutter). It is why `TaskWorkflow` may
treat an append as its effect and a command as the only one.

### Discussion

The floor. `BeginCommand(n)` is `meeting-run` with `n` turns, or `talk` with none left
to run. A turn ends by a grant (`TakeFloor`: some listeners ask, one of them wins) or
by itself (`EndStream`); the controller then supersedes or keeps the interjection
(`AfterInterruption`), gives the floor back (`AfterInterjection`) or moves it along
the roster (`AfterQuietTurn`). `Stop` is a failing provider or a killed process. Scores
are integers in units of 1/6000, exact up to five grants; a bid carries the weighted
sum of the listener's four numbers.

### Segmenter

`push` and `flush` of `SentenceSegmenter` over an alphabet of five characters that the
code tells apart (`f` stands for the backquote). The stream may be split into chunks in
every way. The scan of the buffer is a recursive function of the position (`Scans`), one
`ScanStep` per character; `Scan` is where it ends.

### TaskEnvironment, AppServerClient, AppServerTrial

Each module extends the one before it. `TaskEnvironment` is one call of `exec`: the coroutine (`call`) and the ssh
process. `ExecCancelled` is what a `CancelledError` does at each await: the first
turns the wait into a shielded stopping, the second leaves that to the event loop
(`detached`), and one that arrives in the handler of another error, which has no shield, gives it up (`abandoned`).

`AppServerClient` is `initialize` and `run_slot`. A thread and its turn are one number,
the slot's; a message has a kind, the turn it claims, an id, and `ok` for the rest of
its fields. `OutOfPhase`, `Dropped`, `ToolAllowed`, `ItemAccepted`, `CompletionAccepted`
and `UsageAccepted` are the client's checks, and whatever they do not admit ends the turn
(`TurnViolation`). A send (`Writes`) appends to the pipe and may have to await its drain (`drain`); it may also be refused
by the encoder or the size cap, a protocol failure (`Unsendable`), or meet a broken pipe, which is an exception that
`run_slot` does not handle (`SendBreaks`). So a slot is given up in the steps the code takes: a refused request is answered (`refusing`), a
failure reaches the handler (`failing`), the handler sends the interrupt and awaits it (`leaving`), and `EndSlot` is
the way out, with outcome `error` for what no handler expects: a broken pipe, a message that raises when it is
parsed or checked (`MessageRaises`), an interrupt that fails itself.
`Deadline` is `timeout_at`, `ToolTimer` the timer of `wait_for` around a tool call, `SlotCancelled` a
cancelled caller; each may find the tool call waiting or being stopped. The server is external: it answers what it reads, runs
turns, and may `MaxFaults` times send a message that is not due, stop reading for a while or for ever, close its stdin, or
make the client's answer unsendable. `pipe` is its stdin: `clear`, `backed` (more is waiting than is read) or `broken`. `answered`,
`forwarded` and `interrupts` are ledgers that no guard reads; `asked`, `finals` and `turn` are the server's own view.

`AppServerTrial` is `__aenter__`, the body and `close`, with the process, its stderr task and the jail. `closer` says how
`close` is awaited: `shielded` when the trial is left or cancelled, `direct` after a failed start,
`background` when a shielded wait is cancelled. `Terminates` first waits for stdin to be closed, which takes as long as the pipe is `backed`
(`wait_closed` has no timeout), and then sends SIGTERM. `CancelClose` aborts the one wait it meets and
records a cleanup error.

### WorkerSession, SandboxPreflight, Experiment

`WorkerSession` is a session from `start_session` to `finish_session` around
`CodexWorkerAdapter.run_task`: the process (`leader`), a descendant that holds its pipes
(`child`), the stream, the timeout, the cancellation and an event store that fails
`MaxFaults` times. The governor's `usage` is kept by model; with the rates of one unknown there is no cost (`Estimated`) and the cap
is skipped. `orphaned` is the generator whose consumer raised. `SandboxPreflight` is a constant
module: a sandbox is a function from capabilities to behaviours, and `WorkerReady` is
the verdict on what the probes report and the host finds. `Experiment` extends both with
`ExperimentRunner.run`: `SetsUp`, a `SessionStep` of the slot under way, `NextSlot`, `Reports`,
`Verifies`, `Scores`, `ChecksCost`, the except clauses (`Handles`) and the finally clause
(`Closes`). `StartsBlock`, `Abandon` and `WritesBlock` are the five-arm
command; `ScoredPairs` is `analyze_manifests` up to the statistics. `Crashes` kills the process at any
point and leaves the manifest that says running.

Abstracted: a memo or a critic's report is accepted or a protocol failure; money is counted in units of
usage; time is nondeterministic; the number of slots and the governor's limit are one constant, as in every caller.

### DirectRun

`execute_arm`, the gate script and `finalize_run` as three actors that share the meeting log, the result
file and the container. A slot is seen from outside: it returns or raises, and either way may leave a
command running in the container (`remote`), since ending ssh ends no `docker exec`. An arm whose runtime could not be
constructed leaves no events.db, or one without events (`log`); finalize then records nothing. `Aborts` is the script's trap,
`FinalizeKilled` a finalize run by hand that is interrupted.

## What the runs check

| run | instance | what it shows |
|---|---|---|
| `workflow_one` | one task, manual policy, three trees (base, in scope, out of scope), three reports, edits, commits and branch switches from outside, one own commit at most | `MergedIsValidated`, `MergedIsApproved`: nothing reaches the integration branch that was not validated and approved for that task. `MergeRestsOnRecordInForce`: at the merge the recorded validation is of the report on record and of the merged tree, and the approval has neither been withdrawn nor asked for again, although `task-ready` and an old approval's identity survive both. `ReadyTaskIsAnswered`: a task that asks for a human does not get past the ready gate. `ValidatedIsInScope`. `StatusFollowsTable`: no status change outside the table, although two events do not consult it. `ImplementsGate`: the refinement. |
| `workflow_two` | two tasks, auto policy, from outside an unclean integration worktree and one commit of others on main, operator phases `executing` and `deciding` | `LogNeverAheadOfGit`: the log claims no merge Git does not have, wherever a crash fell. `ClosedTaskWasChecked`, `CombinedResultIsCurrent`, `MainHoldsVerifiedHead`: what the meeting has on main was verified as a whole, after the last integration. |
| `store` | three processes, two meetings, two rosters, two events per meeting | `ImplementsAtomicLog`: what the invocations do to the log is what single atomic steps would; `ViewIsReplay`, `StartIsFinal`. `EveryInvocationEnds`: every way out, the database's timeout included, gives the lock to those that wait. |
| `discussion` | three agents whose roster order is not their name order, four bids, runs of up to three turns, two grants per agent | `QuietTurnsGoRound`: uninterrupted turns visit everybody. `ReturnAwaitsInterjector`: a return address waits for the one who interjected. `ArbitrationDecides`: exactly one winner, or none. `CooldownYields`: after two grants in a row one wins only over weaker requests. |
| `segmenter` | texts of up to six characters, segments of three | `NothingIsLost`, `OnePieceKeepsFences`, `ChunksLeaveNoTrace`, `SegmentsAreBounded`. |
| `trial` | an investigating slot with one read allowed and an executor, two tool calls per turn, one deviation of the server, the server one message ahead, two cancellations | `ResultIsWholeTurn`: a result stands for a turn the server ended, with one final answer, every tool call answered and no interrupt. `GivenUpTurnIsInterrupted`: a turn that the deadline or a protocol failure gives up is interrupted exactly once, whichever handlers meet. `InvestigationIsBounded`. `NothingOutlivesTrial`: an orderly close leaves no process, jail or stderr task, and an ssh process only where a deadline, a cancellation or a failing interrupt cut its stopping short. `JailGoesLast`. `OpenTrialCloses`: a trial whose body has begun closes, if its pipe is again and again not backed up. (3.9 million states, about 3.5 minutes with two workers.) |
| `experiment` | all sandboxes, two arms, two runs of three sessions, cost cap 1 of 2, any set of known rates, one store failure | `ModelsRunInSoundSandbox`: what the preflight passes is sound. `ValidRunIsWhole`, `QualityComparesValidRuns`: exceptions after the score do not turn a failed run into a valid or a compared one. `CompletedBlockIsWhole`. `WorktreeIsQuiet`: nobody who held the worker's output is left when its work is verified. |
| `direct` | both strategies, up to three finalizations | `VerifierRunsAlone`, `ObjectiveIsVerified`, `ResultIsOnRecord`. |

The bounds are small but reach what they are for. With one task and one commit of
its own every combination of a stale validation, a stale approval, an edited, a
committed and a switched worktree occurs; tasks only meet on the integration branch and in a
promotion, for which two are enough to have one integrated before and one after
a validation, or a promotion. Trees are compared for equality, scope and being
the base: three values tell everything apart. Two processes contend for a lock
while a third works on another meeting in the same database; the event limit leaves
room for a start and what must not follow it. Three agents give each
combination of speaker, addressee and interrupter, three turns an
interjection, what interrupts it, and what follows. Six characters hold a fence, a
boundary inside it and a chunk border in every position, with segments of three that
are cut by length as well. Two slots give a turn, a turn after it and messages about
either in the other; the second call is the one beyond the budget; two cancellations are a cancellation and one during its
cleanup. One deviation is enough to stop reading, and to meet a deadline or a close with the pipe full. One unit of usage is within the cost cap and two are beyond it; one store failure and one kill per run at any point
meet every pair of a success and what fails after it; two runs are a pair. The third
finalization comes after one that ended and one that was killed.

Symmetry is used for tasks in `workflow_two`, which nothing orders. `store` has a liveness property and so uses none; there
`MCInit` fixes the meeting and the roster of one process, which by the symmetry of both loses nothing.
`CHECK_DEADLOCK FALSE` is set where the system stops: a stream, a trial, a block and a finalized run end.

Excluded on purpose: `BetweenReads` leaves `checks` and `tree` out of `Exposed`. At
`tree` the code has read the source commit and has not yet read its tree;
a commit made at exactly that moment is compared instead of the one that is merged. At
`checks` it has listed the changed files and not yet taken the identity: a file that a
validation command writes outside the allowed paths is then merged without having been listed. The
theorems state these as their assumptions (`"tree" \notin Exposed`, `"checks" \notin Exposed`).
`OpenTrialCloses` starts at the body: `initialize` is awaited without a deadline, and a silent server
holds an entering trial for ever. It also assumes that the pipe to the server is, again and again, not backed up: the drain of the interrupt
after a deadline (`appserver_client.py:100`) and the close of stdin before SIGTERM (`appserver_host.py:353`) have no
timeout, and a server that lives, stops reading and keeps a full pipe open holds the trial in either of them for ever.

Promises that are narrower than they may look:

- `MainHoldsVerifiedHead` is about the meeting's commits on main. `promote` merges the verified head into whatever the
  target branch has become (`workspace.py:228-243` looks at its status and name only), so what others commit there has not been
  verified together with it, and the merged tree need not be one that any check ran on.
- `GivenUpTurnIsInterrupted` covers the deadline and protocol failures. A slot that ends with another exception or is cancelled
  leaves its turn uninterrupted; such a slot is the trial's last, and the turn ends with its server in `close`.
- `ModelsRunInSoundSandbox` takes the probe script for honest: it reports what it saw, or nothing. What it writes is looked for
  on the host as well; what it could read or reach is known from its report only.
- `ValidRunIsWhole` bounds the cost of a run whose rates are known; with unknown rates the code skips its cap.
- `ResultIsOnRecord` is about arms that have an events.db; finalize records nothing for one whose runtime could not be constructed.

### Where code and documentation disagree

Each of these runs checks one sentence of the repository and TLC returns a behaviour of
the code that breaks it.

| run | sentence | what the code does |
|---|---|---|
| `find_promotion` | `docs/audit.md`: promotion reruns the checks of all integrated tasks | after a crash between `git merge` and the integration event, the task is on the branch and not in the log: the promotion merges it into main without its checks |
| `find_approval` | `docs/audit.md`, `README.en.md`: approval rechecks the Git identity before acting | `decide_merge_approval` copies the identity of the recorded validation and never looks at the worktree; only the integration compares the two |
| `find_tree` | `docs/audit.md`: cancellation kills the process tree | `_stop_process_tree` looks at the leader only: once it has exited, a descendant that holds the pipes is not killed, and stderr is awaited without a limit |
| `find_segmenter` | `SentenceSegmenter`: never cuts inside fenced code | a fence marker kept in the buffer is counted again by the next `push` |

Two more remarks of this kind have no run of their own: `task-ready` takes any
recorded passing validation, also one of an earlier report (`runtime.py:276`; `task-integrate` validates again, and
`MergeRestsOnRecordInForce` says that it counts); an addressee who takes the
floor is told to address itself (`runtime.py:353`).

## Fairness

`EventStore` and `AppServerTrial` have a liveness property each. In `EventStore`, weak fairness of `Step(p)` for each
process says that a process that is not killed is run by the scheduler, that a waiter on `flock` gets a
lock that stays free, and that every command ends (the event bound stands for this).
A crash is never required and never excluded. Waiting for SQLite's writer is either ended by
the writer, which runs on or is killed, or by the timeout.

In `AppServerTrial` the event loop is fair to what is ready and to its timers: the client takes the messages it has
(`ClientWorks`), the body goes on when its slot has ended (`BodyEnds`), `close` runs (`CloseStep`), a slot's deadline comes
(`TimePasses`), and so does the end of a grace period (`GraceEnds`). No fairness is assumed of the server, its pipe, processes that got SIGTERM, stderr,
or cancellations; that the pipe does not stay full for ever is the explicit antecedent of `OpenTrialCloses`. `Reaps` may go on to kill whatever the process does, and that is what closes the trial.

The other modules are checked for safety only: operators, workers and models are under no
obligation to act.

## What is proved

The theorems hold for every value of the constants that the named assumptions
allow.

- `TaskWorkflowProofs`, from `WorkflowAssumption` and `NoneAssumption`.
  `TypeCorrect` needs `Typed`, which adds to `TypeOK` what the locals hold
  at each program point. `DeliveryCorrect` (nothing unvalidated or unapproved is
  integrated) assumes `"tree" \notin Exposed` and rests on `DeliveryInv`: `Evidence`
  (a passing result names an observed tree, an approval a granted one) and `InFlight`
  (the checks `task-integrate` has made are still true when it merges). `InFlight` is needed because merged
  trees are compared three steps before they are merged. `MergesRestOnRecord` (same assumption) adds `InForce`: the
  approval and the report that `task-integrate` found are still the ones on record when it merges. `StatusCorrect` is an action property: it holds step by
  step, given that a worker's failure path starts from a running task and the
  integration record from a reviewable one. `PromotionCorrect` rests on `PromotionInv`, which says
  of each program point of integrate and promote what Git already has and the log does not
  yet. `GateCorrect` (refinement, under the same `"tree"` assumption) has one step
  per action of the workflow: it is a step of the gate or leaves its variables alone.
  `OnlyApprovedIsMerged`, `DeliveredHeadIsVerified`, `ClosedTasksWereChecked` and `CombinedResultsAreCurrent` are their parts.
  `PhaseCorrect` is an action property like `StatusCorrect`. `ReadyTasksAreAnswered` rests on `AnsweredInv`, which
  carries the report's claim from its submission to the gate; `ValidationsAreInScope`
  (assuming `"checks" \notin Exposed`) on `ScopeInv`, which does the same for the listed files.
- `EventStoreProofs`, from `EventStoreAssumption`. `StoreCorrect` rests on `StoreInv`:
  `TypeOK`, `Exclusive` (who holds which lock, and who writes) and `DraftIsFresh` (an event
  being recorded was decided on the view it extends), with `ViewIsReplay` and `DecidedOnWholeLog`. `StoreTypeCorrect` is a part of it. `LogCorrect`: the log only grows.
  `StartCorrect` (a meeting starts once, for one roster) needs `RosterInv` besides: a process that is past the roster
  check, or about to start, has the roster of its view. `AtomicLogCorrect` is the refinement, from both invariants: only
  `Commit` changes the log, and `CommitRecords` shows that it is then a `Record` step, the draft
  being as fresh as the log and the roster the one the log was started with.
- `DiscussionProofs`, from `DiscussionAssumption` and `RosterAssumption`. `FloorInv` adds
  `InTurn` (what the controller's locals say of the floor when a turn begins and
  ends) and `OneStreak` (one agent at most has a streak). `FloorTyped` and
  `ReturnCorrect` follow. `CooldownCorrect` needs no induction beyond `OneStreak`: a streak of two costs
  600 and leaves a fairness of at most 200, near-ties span 300, so the winner's merit is higher by 100 at least.
  `ArbitrationCorrect` finds the winner by the least of a set of naturals (`LeastNat`) three times: the best score, the
  fewest turns among the near-ties, the first name among those; so it holds for any finite set of requests.
  `RotationCorrect` rests on `RoundInv`: the quiet turns are the places of the roster before the speaker's, in order, so
  that a full list of them is the roster itself.
- `ExperimentProofs`, from `SessionAssumption`, `ArmAssumption` and `RunsAssumption`. `ExperimentTyped` is the type invariant. `ExperimentInv` joins
  `SandboxInv` (past the preflight the sandbox is sound), `SlotInv` (at each point of a run, how many sessions were
  counted and finished, and what their processes may still be), `OutcomeInv` (which outcome each point admits) and
  `RunsInv` (which manifests may exist). `SessionsAreSandboxed`, `ValidRunsAreWhole`, `ScoredWorktreeIsQuiet` and
  `ComparedRunsAreValid` follow, the last through the analysis: a completed run without a valid outcome is one that
  invalidates its block. `SlotInv` is needed since a valid run is judged two points after its last session ended.
  `CompletedBlocksAreWhole` rests on `BlockInv`, which counts: the runs since an open block began are of the arms that are no
  longer to do, one each.
- `DirectRunProofs`, from `FinalizeAssumption`. `DirectInv` says of each point of the runner, the script and finalize what the log, the
  score and the container are; `DirectRunCorrect` and its parts follow.
- `AppServerClientProofs`, from `ClientAssumption` and `PositionsAssumption`, over the whole trial. `BooksInv` joins `SlotInv` (where
  `run_slot` may be, whether it awaits a drain, and that a turn once interrupted is only being given up) and `ResultInv` (which slots have a result, and
  that the one under way has been interrupted as often as `interrupted` says). It is proved once for each way of sending, failing
  and ending (`EndKeepsBooks`, `InterruptKeepsBooks`, ...) and then handler by handler, so every failing send is covered.
  `InvestigationBounded` rests on `BudgetInv` (the distinct call ids bound what was forwarded). `GivenUpTurnInterrupted` follows from `BooksInv`, but for its
  last clause, that no turn runs beside another slot's, which needs `WireInv`, and so does `ResultsAreWholeTurns`. `WireInv` is about the
  contents of both queues: a turn is asked for once and before its
  interrupt (`OutboundInv`), a completion in the queue is of a turn that ended with one final answer (`InboundInv`), and
  the calls answered, in execution and in the queue before a completion add up to those the server made (`TallyInv`, by
  a function that counts along the queue). `ClientMoves` sorts the client's steps into six moves; each keeps `WireInv`.
- `AppServerTrialProofs`, which extends it. `HostInv` says what close has undone at each of its stages unless it has an
  error to raise, `CallInv` where the ssh process may be once `run_slot` has left the tool call, `StageInv` that no call is made
  before the body or after it. `LeavesNothing` needs
  all three, since a process survives the trial through the slot that was cut short before close began. `CallInv` rests on `BooksInv`: an
  interrupt that fails on the way out still counts as the deadline's.
  `JailGoesLastCorrect` follows from `HostInv` at the stage that removes the jail.
- `SegmenterProofs`, from `SegmenterAssumption`, for texts of any length and any chunks. The scan is a recursion over data, for which
  the library's induction theorems cannot be used. `Induction` (a set that holds 0 and goes on holds every position), `Growing` (the same
  for sequences) and `Recursion` (each value being given by the one before, there is such a function) state them over sets
  instead of operators, from the well-foundedness of `<`. `ScansFacts` then gives the steps of the scan and
  `StepCases` the four things a step can do. Each property is an invariant along the scan, carried from push to push:
  `SegmentLimit` by `Held` (what was passed over since the last cut is short or holds a whole marker) and `BufferInv` (a buffer with a
  fence open holds a marker); `StreamIsKept` by `Keeps` (segments and rest are what was scanned, but for white space), with `Solid` and
  `FlattenSeq` going through concatenation; `OnePieceIsCutOutside` by `PrefixScan` (the scan of a prefix is that of the text, up to
  a marker its end cuts in two) and `CutsOutside`; `ChunksAreInvisible` by `PlainScan`, `ScanFromCut` and
  `OneMoreChunk` (scanning again from the last cut leads to where the scan of the whole is).

Every safety property of the passing runs is a theorem. Only model-checked: `EveryInvocationEnds` and `OpenTrialCloses`, which
are liveness. `WorkerSession`, `TaskEnvironment` and `SandboxPreflight` have theorems through the
modules that compose them.

## What is left

1. `AgentLoop`: bounded tool rounds of `llm/agent.py`, and the listener's gate in detail.
2. The blackboard and the context windows of the runtime.
3. The Harbor plan and agent of `appserver_host.py`, once their prototype is thawed.

## Not modelled

LLM providers, configuration and prompts (I/O and text); the stage-two plan and the oracle gate (sequential checks of frozen files and
digests, with no state of their own); the probes of the sandbox preflight and its classification of messages (the host's own behaviour is the
input of the model); the statistics of the analysis (floating point and resampling); the other gate scripts and the
provisioning part of the direct one; export, status and blackboard commands of the CLI.
