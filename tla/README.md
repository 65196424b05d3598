# Verification of Pegasus: contexts, runs, turns, teams and stores

Pegasus (`src/`) is a Next.js server that runs long agent loops over conversations kept in a
standalone MongoDB, that is, one without transactions. What it promises across crashes, restarts
and concurrent processes rests on single-document updates with filters (compare-and-swap), leases,
fences, idempotency keys and replays. This directory models those protocols in TLA+, checks them with
TLC on small instances and proves with TLAPS, for all instances, the most important properties of seven
of them.

The core is **durable compaction**, which replaces the beginning of a context by its summary while the
agent that owns the context goes on writing, and the **AgentRun lease**, which says which process
executes a run of a conversation. Around it stand the **compaction a loop makes in memory**, the
**checkpoint** it leaves, the **operator's repair command**, the **journal of a turn** (what a crash
leaves of a tool call), the **message queue**, the **team** (leases, budget, tasks, supervision), the
**workspace** and the **memory pipeline**.

## 1. The system

| Component | State it keeps | Operations | Interacts by |
|---|---|---|---|
| Context owner (`lib/db/repository.ts`, `lib/agent-runtime/member-session.ts`) | `Conversation` / `AgentSession`: transcript, active context, `context_revision`, `last_applied_compaction_id`, fence | append, replace, delete | CAS on the revision |
| Compaction jobs (`lib/agent-compaction`) | `context_compaction_jobs`: status, `active_key`, frozen prefix, lease, source-turn guard, deadline, summary, replacement, epoch | enqueue, guard, offer, activate, claim, fence, summarise, prepare, swap, settle, finalize, retry, fail, cancel, supersede, reap | owner, runtime and job documents, written one after the other |
| Agent loop (`lib/agent/loop.ts`, chat route, member executor) | messages in memory, the shadow it prepared | turns, model calls, synchronous compaction, final save | callbacks into the repositories |
| Compaction in memory (`lib/agent/hippocampus-runtime.ts`, `compaction.ts`) | budget, telemetry, the fork, the breaker | decide, fork, merge, wait, hand over, give up, compact in the foreground | called by the loop before each request and at its end |
| Compaction checkpoint (`lib/agent-runtime/compaction-recovery.ts`, chat route, member executor) | `active_compaction` of the runtime or the session | started, summary ready, merged, cleared; replayed at the next start | owner, checkpoint and project context, written one after the other |
| Operator's repair (`scripts/repair-durable-compaction-operator.ts`) | none | inspect, prepare, roll back | reads runs, leases, jobs; enqueues a job |
| Compaction barrier (`lib/agent-runtime/compaction-barrier.ts`) | none | admits, defers or repairs a run | reads the jobs |
| AgentRun and ConversationRuntime (`lib/agent-runtime/repository.ts`, `runner.ts`) | run status, `active_key`, lease, pending inputs; runtime pointer and lease owner, project-context snapshot | create, claim, heartbeat, requeue, defer, cancel, recover | two documents, polling runners |
| Message queue (`lib/agent/message-queue.ts`) | `QueuedMessage` rows: status, claim, target run | enqueue, claim, acknowledge, release, reroute, repair | agent loop, orchestrator, sweeps |
| Team (`lib/agent-team`) | teams, agents, tasks, mailboxes, slots, session leases, events, budget | idempotent commands, slot and session claims, wakes, budget reservations | runner, orchestrator, sweeps |
| Workspace (`lib/workspace/multi-agent`) | capacity document with reservations, file heads and revisions | reserve, commit, finalize, discard, recover, accept proposals | CAS on revisions, execution fences |
| Memory (`lib/memory-v2`) | memory runs, candidates, profile | lease, extract, batch, promote | polling worker |
| Media (`lib/media/storage.ts`) | image assets staged, active, deleted | write, claim, clean up | chat route, sweeps |
| Bootstrap (`instrumentation-node.ts`) | timers | sweeps every 15 s, shutdown | all of the above |
| Rate limits, SSE and abort registries | maps of one process | | synchronous |
| Literature, parsers, tools, UI | | requests, conversions | |

What is hard: everything that spans two documents is two writes with a crash in between; leases
expire under holders that are alive; results of model calls arrive after the state they were
computed from has changed; sweeps race with what they repair. `PROJECT.json` lists the hazards at
their lines, with the property that covers each or the module planned for it.

What makes each component correct: no turn of a context is lost and a merge is applied once; one
executor at a time writes for a run; the transcript says of each tool call what became of it; a queued
message is durable before it leaves the queue, and reaches a run; revoked leases are not written under;
the budget counts each call once; a task runs after its dependencies; Root is told of each event once;
published plus reserved files stay within the capacity; each candidate is decided once.

## 2. The modules

| Module | Role |
|---|---|
| `ContextReplacement` | abstract specification: what a reader of a context sees |
| `DurableCompaction` | the protocol: owner, jobs, runtime, run, workers, commands, time |
| `AgentRunLease` | runs of one conversation, their runtime document, and the processes that act on them |
| `BackgroundCompaction` | one loop: its context against its budget, the fork, and every way it ends |
| `CheckpointReplay` | a compaction of the loop, write by write, and its replay after a crash |
| `OperatorRepair`, `RepairPrefix` | the repair command among runs, jobs and other operators; the prefix it chooses |
| `TurnJournal` | one run from the model's request to the results of its tools, and its recovery |
| `MessageQueue` | mid-turn messages of a user and updates of the team, on their way into a transcript |
| `TeamLeases` | execution slots, sessions of agents, workers, and Root's commands |
| `ExecutionBudget` | admission, start, settlement and recovery of counted calls |
| `TeamTasks` | the task ledger, its editors, the scheduler and the executors |
| `TeamSupervision` | the event log, and how Root hears of it |
| `WorkspaceCapacity` | file sets: reservation, staging, publication, recovery |
| `MemoryPipeline` | memory runs, candidates, batches, the profile |
| `MCDurableCompaction`, `MCAgentRunLease` | instances for TLC, with the symmetry of workers and processes |
| `MCRuntime`, `MCTeam`, `MCStores` | what surrounds one run, the components of a team, and those that store what a run produces, side by side |
| `DurableCompaction_proofs`, `DurableCompactionSwap_proofs` | inductive invariants and theorems of the core; the second builds on the first |
| `AgentRunLease_proofs` | the same for the runs of a conversation |
| `Runtime_proofs` | the same for `CheckpointReplay`, `BackgroundCompaction`, `OperatorRepair` and `RepairPrefix`, and for their sum `MCRuntime` |
| `ExecutionBudget_proofs`, `Team_proofs` | the same for the budget of a Team; for `TeamLeases`, `TeamTasks` and `TeamSupervision`, and for their sum with the budget, `MCTeam` |
| `Stores_proofs`, `TurnJournal_proofs` | the same for `WorkspaceCapacity`, `MemoryPipeline` and `MessageQueue`; for `TurnJournal`, and for their sum with it, `MCStores` |

`DurableCompaction` assumes what `AgentRunLease` is about, that one executor at a time runs the agent
loop of a context. Each module models the part of the neighbours it needs: `TurnJournal`, `TeamLeases`
and `MessageQueue` have the lease of the run as a few variables, `MemoryPipeline` the end of the turn,
`TeamTasks` the fences of an executor, `BackgroundCompaction` and `OperatorRepair` what the loop and the
operator see of durable jobs. They share no variables and are not composed by interaction;
`MCRuntime`, `MCTeam` and `MCStores` are disjoint sums: a variable `scope`, chosen in the initial state among the
constant `Scopes`, says which component moves, and the others stay in their initial state. So one run
checks several components, each on all of its own behaviours, and the properties of a component hold
trivially where another moves; each was also checked on its own under its own specification.

### DurableCompaction: state and actions

| Variable | Code |
|---|---|
| `log` | length of `Conversation.messages`, the full transcript |
| `owner` | active context (`compacted_messages`, or `messages` before the first compaction), `context_revision`, `last_applied_compaction_id`, `context_compaction_fence` |
| `jobs` | one record per job: `active` is the presence of `active_key`, `lease` the fence token of the last claim, `delayed` an `available_at` in the future, `guard` the source-turn guard, `epoch` the frozen merge snapshot, `settled` is `runtime_settled_at` |
| `rt` | `hippocampus.last_settled_compaction_id` and the epoch of `project_context_snapshot` |
| `run` | program counter of the agent loop, its messages in memory, the job it prepared, the failed job it has to repair |
| `wk` | program counter of `processClaimedCompactionJob` in each worker, its claim, the snapshot between read and CAS |
| `faults`, `syncs` | bounds |
| `swaps` | history: how often the prefix of each job was replaced |

A message is the interval of turns it stands for, with its kind: a turn for itself, a summary for
all turns of the prefix. Equality of messages is what the code compares by hash. An action is one
document write together with the reads its filter makes atomic; whatever takes two writes, or reads
and writes different documents, is two actions with a program counter between them. So
`establishContextCompactionFence` is `ReadLease; InstallFence`, `applyPreparedMergeToOwner` is
`ReadOwner; SwapContext`, `settleAppliedCompactionRuntime` is `ReadSettlement; SettleRuntime;
MarkSettled`, every command that ends a claim is followed by `ClearFence`, and a synchronous
compaction is `SyncCompact; ReplaceContext; CloseFailed`.

Time: a lease, a fence or a guard is live until an action lets it lapse. A lapse under a live holder
(a missed heartbeat, a pause of the process) costs a fault; what a dead holder left behind lapses
for free. A worker may crash between any two actions and error at any action after its fence.

`ContextReplacement` says what all of this is for. A context is a sequence of segments of the
transcript; it changes by adding a turn at its end, by replacing, once per job, a prefix by one
segment, and by deletion. `ImplementsContextReplacement` is the refinement, with
`View`/`folded`/`exists` computed from `owner` and `swaps`.

### AgentRunLease: state and actions

| Variable | Code |
|---|---|
| `background` | `AGENT_RUNTIME_BACKGROUND_RUNNER` |
| `runs` | one `AgentRun` per run of the conversation: `status`, `key` (`active_key` is set), `lease` (its owner id), `live` (it has not expired), `cancel` (`cancellation_requested`), `tries` (`dispatch_attempts`), `late` (`available_at` is ahead) |
| `runtime` | `ConversationRuntime`: `active_run_id`, `active_lease_owner_id`, and who wrote the project-context snapshot last |
| `proc` | slots for requests, executors and the sweep: a program counter, the run and the owner id it acts for, `runLeaseValid` and `userCancelled` of the route |
| `leases` | owner ids made; each lease has a fresh one (the `:uuid`), so they are numbered |
| `faults`, `stalls`, `stale` | bounds |

An operation of `repository.ts` is one `findOneAndUpdate` of the run and, in most of them, a second
update of the runtime with a filter of its own. The first is the action named after the operation, the
second is the next action of the same process, and between the two it may be overtaken or die:
`CreateRun; PointRuntime`, `LeaseNext` or `ClaimRun; EstablishFence`, and every status write followed
by `Yield` (filter: run and owner), `Park` (filter: run) or `Clear` (filter: run). The request that
created or resumed a run hands it over to the background runner or claims it (`HandOver`, `ClaimRun`).
The runner's side of a dispatch is `LeaseNext; EstablishFence; Accept`, or one of `Defer`, `Reject`,
`DispatchFails`; when the response is lost after the route has accepted, route and runner go on in two
slots (`LoseResponse`, `RequeueUnheard`). The executor writes to the runtime (`WriteRuntime`), renews
its lease, finds out that it has lost it, and finishes or fails; the failure is recorded under its
lease (`RecordOwnFailure`) or, without one, under `onlyIfUnleased` (`RecordLateFailure`).

Time: `LapseLease` and `Elapse`. A lease that no process holds lapses freely; under a holder it is a
fault (missed heartbeats). A claim that loses its lease between its two writes is counted by `stalls`.

### BackgroundCompaction: state and actions

| Variable | Code |
|---|---|
| `context` | `messages` of `agentLoop`: the turns each stands for, its text and its media in units of tokens |
| `correction, telemetry, budget` | `HippocampusTelemetry` and `HippocampusBudget`: the provider's count minus the loop's, the growth of recent turns, the fork and the swap line |
| `task, safety` | `BackgroundTask` and the safety snapshot: failures, refills, turns since the merge, the breaker |
| `active, offering, job, guard` | `activeCompaction`; a summary on its way to the durable job; the job as the loop sees it; the source-turn guard |
| `loopAt, ending` | where the loop is, and how it is going to end |

The loop stands at a `boundary` and does one of `Proceed`, `StartFork`, `AwaitFork`, `MergeAtBoundary`,
`YieldToJob`, `ForegroundDue`, which are the answers of `beforeRequest`, then `AcquireGuard`, the request,
and `AnswerTools`, `AnswerText` or `DropAnswer`; `Rejected` is a request refused as too long, after which
`CompactNow` shrinks the context in the foreground. The fork goes through `PrepareShadow` (the durable
job) or `StartLocal`, then `SummaryReady`, `OfferSummary; OfferAnswered`, and is merged, handed over at the
end (`HandOffFork`, `FinalizeReady`), refused or timed out. `FoldResults` and `ToolTurn` with
`AdmittedResult` change sizes, `WorkerTakes` and `WorkerEnds` stand for `DurableCompaction`. The arithmetic
of `resolveHippocampusBudget`, `admitToolResult` and of the estimates is the code's, in units of which the
window has twelve.

### CheckpointReplay, OperatorRepair, RepairPrefix

`CheckpointReplay`: `stored`, `checkpoint`, `epoch` are the active context, `active_compaction` and
`project_context_snapshot` of the owner, `live`, `liveEpoch`, `fork` what the loop has in memory. A
compaction is `StartCompaction, SummaryDone` (or `StripDone`), `Merge` (or `MergeStripped`), then
`WriteEpoch; WriteContext` with a conversation, `WriteContext; WriteEpoch` with a session, and
`ClearCheckpoint`; `ProcessDies` comes in anywhere, and the next start is `Recover, RecoverEpoch,
RecoverContext, Discard`, or `StartPlain` when nothing is to be recovered or a new run of the conversation
does not look. `LegacyCheckpoints` are those of earlier versions, without a replacement or an epoch.

`OperatorRepair`: a command (`inspect`, `prepare`, `rollback`) reads conversation, runtime, authority, run
and job one after the other, installs its job, reads them all again (`CheckOwnJob`) and only then lets
workers claim it (`Activate`), or takes it back (`RollBack`), while a run is created, admitted past the
barrier, works and ends. `RepairPrefix` is the selection of the prefix: `LargestFitting` by halving, then
`Select` down to a safe boundary, over every history of up to four messages; `PrefixSelected` compares it
with the longest prefix that fits and after which no call is open, stated directly. A history is extended
by any message, also by those no loop would write, since the command checks for them.

### TurnJournal: state and actions

| Variable | Code |
|---|---|
| `keeper` | whether the transcript is a `Conversation` (the chat route) or an `AgentSession` (the member executor); the two differ in how they look at their lease |
| `runPhase, runOwner, runLive, runStop, runAction, recovered` | `AgentRun`: status, lease owner and expiry, `cancellation_requested`, `current_action`, `recovery_count` > 0 |
| `made, sort, answers` | the transcript: `tool_use` blocks, what tool each names, `tool_result` blocks with the kind of result and the lease it was written under |
| `effects` | history: executions of a tool |
| `receipt, rholder, rfresh, done` | `AgentCommandReceipt`: status, lease owner, expiry; the keyed writes of the command that exist |
| `working` | the member's task is 'running' |
| `hplace, hlease, seen, closed, hstart, hparked, todo, out, cstep` | a server process: program counter, lease, its copy of the transcript, the action it found, the calls left, the result in hand |

A host goes through `LeaseRun`, `Load`, `Recover`, `Close`, `Closed`, and then around `Turn`,
`Respond; ModelDone` (or `Conclude`), `NextCall`, `Execute`, `Answer`, `CallDone`. Each is one document
write of `loop.ts` and of its callbacks: `onActionStart` (`Turn`, `NextCall`), `onTurnComplete`
(`Respond`, `Answer`, `Close`), `onActionComplete` (`ModelDone`, `CallDone`), with the checks that come
before it in the same callback. A member validates its fences in the database before each write, a
conversation looks at a local flag that its heartbeat clears (`MayWrite`, `NoticeLoss`). A call of a
team tool is a command: `Begin; Reserve`, then `Permit; Write` once per phase, then `Settle`; `Recover`
repeats it under the receipt of the call, while any other call that may have run is answered as unknown,
and a call that was never entered in the run as not run (`Orphans`). `HostCrash`, `BreakOff`,
`ExpireRunLease`, `SweepRun`, `ExpireReceipt` and `RequestStop` come in anywhere.

### MessageQueue: state and actions

| Variable | Code |
|---|---|
| `rowStatus, rowTarget, rowClaim` | `QueuedMessage`: status ('removed' for a deleted row), `target_run_id`, `claim_id` |
| `runStatus, holder` | `AgentRun` |
| `transcript` | message ids in the `Conversation` |
| `phase, serves, known, fresh, toAck` | an executor between claiming, persisting and acknowledging |
| `owedRelease, checked` | an ended run whose rows are still to be released; a run an interruption was admitted for |
| `mail, step, heldMail, choice` | Root's mailbox and the processes that deliver it (`wakeRootWithUpdate`) |

The interrupt route is `InterruptCheck; InterruptEnqueue`, an executor `ClaimRow*; Flush; AckRow*`, a
delivery `ClaimMail; KeepForLater; Lookup` and then one of the paths through `ResumeChosen`,
`ReleaseTarget`, `ReadActive`, `CreateDeliveryRun` to `Insert; Bind; SettleMail`. `ReleaseRows`,
`ReleaseStaleClaim` and `RepairReceipts` are the sweeps.

### TeamLeases, ExecutionBudget, TeamTasks, TeamSupervision

`TeamLeases`: a ticket is one lease of a member's run. A worker takes a slot (`ClaimSlot`,
`SlotChecked`), the session (`ClaimSession`, `SetRunning`, `VerifySession`), dispatches (`CheckFences`),
ends, and gives back slot, session and agent in three writes; `RecoverSlot`, `RecoverSession` and
`RecoverAgent` are the sweeps, `StartCommand` to `Reopen` Root's interrupt, close and reopen. The slots
are taken by a unique index, so `ClaimSlot` is one insert.

`ExecutionBudget`: `current` is the execution that holds the lease of the run. One pass through
`reserveCall`, `startCall` and `completeCall` is `BeginReserve, ReadPrior, ReadPriorAgain,
ReadActiveCall, Reread, Admit, Reserve, WriteReceipt, VerifyAdmission, Begin, StartCall, ReceiptStarted,
CheckStart, CallReturns, Settle, Count, Report, Close`; the undo of `releaseReservation` is
`MarkReleasing, Uncount, MarkReleased`, the sweep `SweepRead, SweepJudge` and then that undo. A CAS that
is lost is tried again from its read. One limit stands for those of team, agent and task. An attempt is
numbered after the last receipt that was read, so two executions may number theirs alike, and then each
takes the other's receipt for its own: `StartedBefore` lets a call through whose receipt is started
already, `JoinSettlement` carries a settlement through that another execution has begun, `SettledBefore`
reports what another one has settled.

`TeamTasks`: the ledger (`tstatus, tmanual, tdeps, towner`), the status of agents, the run that holds a
member's session, the place of its executor, of schedulers and of editors. `AssignTask`, `UpdateRead;
UpdateWrite; CancelRunOfTask`, `ReviewResult` and `ManageAgent; RevokeAgent; SettleTasksOfAgent` are the
commands; `ScheduleBegin; CreateTaskRun; ClaimTask` or `RetireRun` the scheduler; `StartRun; LoadRun;
ReadForSubmit; SubmitTask; CompleteRun` the executor, with its failures (`FailRun`,
`MarkTaskFailed`), `StopRun`, `DetachRun` and crashes. `sfresh` and `efresh` stand for the `updated_at`
that the CAS compares.

`TeamSupervision`: `TakeSeq; InsertEvent` is `appendEvent`; a sweep is `ClaimSupervisionLease,
ListEvents, FreezeBatch, ClaimMailbox, DeliverMailbox, AcknowledgeMailbox, InjectDigest, MarkDelivered,
AdvanceCursor, ReleaseSupervisionLease`, with a lease that lapses under it (`SweepLapses`) and crashes.

### WorkspaceCapacity and MemoryPipeline

`WorkspaceCapacity`: `published, resStatus, newPaths` is the capacity document, `headOf, headSet` the
file heads. A writer does `ReserveSet` (a CAS), `AdmitFile; Commit` per file, `StagedAll`, then
`ReadCapacity; ReadHead*; SwapCapacity` to finalize or to release, `Projected`, and on failure `Abort`,
`Discard`; a writer that finds the shared set reserved waits (`Wait`) and may settle it when it is old
(`RecoverStale`).

`MemoryPipeline`: `LeaseMemory, RecordEvent, RecordCandidate, FinishMemory` or `FailMemory` handle a run;
`Pick, Claim` or `Revert, ReadProfile, WriteProfile, Promote` a batch of candidates; `UserReads,
UserDeletes, ResolveConflict` are the user's. The profile is read and written whole, as in the code.


## 3. What is checked

| Run | Instance | Shows |
|---|---|---|
| `safety` | 1 job, 2 turns, 2 workers, 2 CAS attempts, 1 epoch, 2 faults, 1 synchronous compaction | `NoTurnLost`, `MergedConverged`, `GuardedContextCurrent`, `EpochMonotone`, `TypeOK`; deadlock is checked too |
| `takeover` | 1 job of 2 attempts, 2 turns, 2 workers, 2 CAS attempts, 2 faults, deletion, no synchronous compaction, no symmetry | `SwappedAtMostOnce`, `ImplementsContextReplacement`, `ActiveJobTerminates`, `FenceCleared` |
| `succession` | 2 jobs of 2 attempts, cancel, supersede and delete, 1 fault | `NoTurnLost`, `TerminalStable` |
| `overwrite` | 1 synchronous compaction, no fault | violates `OfferedContextUntouched` |
| `runtime` | Lease: 2 runs, 2 processes, 2 leases, 2 dispatch attempts, 2 faults, 1 write under `onlyIfUnleased`, no stall, with and without runner. Loop: a window of 12, 3 turns, 1 refused request. Replay: 3 turns, 2 crashes, 3 replacements, both owners. Repair: 2 operators, 1 run, 1 job. Prefix: 4 messages, 2 calls | `TypeOK`, `OneActiveRun`, `OnlyHolderWrites`; `RuntimeTypeOK`, `BackgroundSound`, `ReplayExact`, `RepairSound` |
| `lease_liveness` | 1 run, Lease as above, no symmetry | `CancelEnds`, `RunSettles` |
| `team_leases` | Leases: 1 agent, 2 generations, 1 slot, 1 run, 2 tickets, 1 lapse. Budget: 2 calls, a ceiling of 1, 3 executions, the third under `LateReplay` | `TeamTypeOK`, `RevokedNotWritten`, `StoppedUntilReopened`; `BudgetExact`; `SharesRecovered` |
| `team_tasks` | Tasks: 2 tasks, 1 member, 1 scheduler, 1 editor, 4 commands, 1 crash. Supervision: 2 events, 2 sweeps, 1 fault | `RunningMeetsDependencies`, `TerminalTaskFinal`, `ReadyTaskRuns`; `ToldExactlyOnce` |
| `queue` | Queue: 1 interruption, 1 update, 1 executor, 1 deliverer, 2 runs, 1 loss. Memory: 2 runs of 2 attempts, 1 worker, 1 crash | `StoresTypeOK`, `InputAccounted`, `ReceiptFinal`; `MemoryOfCompletedTurns`; `PutByIsWorkedOff` |
| `workspace` | Workspace: 2 writers, 3 paths, capacity 2. Memory: 2 runs, 2 workers, 1 crash. Journal: 2 hosts, 2 calls, 2 leases, 1 fault | `StoresTypeOK`, `PathsWithinCapacity`; `DecidedOnce`; `EffectsAsReported`, `ResultsPaired`; `BegunIsEnded` |
| `stop` | 1 host, 1 call, no fault | violates `SessionStopClosesCalls` |
| `replay` | as in `runtime` | violates `ReplayKeepsTurns` |

Several properties are conjunctions of parts that are defined and explained one by one in their modules:
`BudgetExact` is `ReportedWasCalled` and, until a third execution takes over (`AtMostTwo`), `StrictCeiling`
and `UsageCountedOnce`, `ToldExactlyOnce` is `EventOnce` and
`PassedEventsDelivered`, `InputAccounted` is `InputDurable` and `SettledHasReceipt`, `DecidedOnce` is
`PreferenceOnce` and `BatchesApart`, `EffectsAsReported` is `NotRunMeansNoEffect`, `AnsweredCommandIsWhole`
and `PlainToolOnce`, `ResultsPaired` is `RequestIsPaired` and `SessionResultOnce`, `BackgroundSound` is
`RequestsFit`, `TurnsCovered` and `PreparedPrefixKept`, `ReplayExact` is `EpochPerReplacement` and, as long
as no notice of removed media was replayed, `ReplayKeepsTurns`, `RepairSound` is `PreparedWhileQuiet`,
`RolledBackGone` and `PrefixSelected`, `SharesRecovered` is `DeadLeasesFreed` and `StaleCleared`,
`PutByIsWorkedOff` is `UpdateNotStranded` and `MemoryRunSettles`, `BegunIsEnded` is `CallsAnswered` and
`StaleSetSettled`.

Why the bounds are enough to be of interest: two workers are what a takeover takes; two CAS
attempts (8 in the code) let one race be lost and the next be won, and let both be lost; one attempt
(5 in the code) makes the first error terminal, two let a job be retried; a prefix of one or two
turns can have a tail; two faults are a lapsed lease and a lapsed fence, or a crash of each worker.
Two jobs are needed for a late worker to meet a successor. For the
lease, two processes and two leases are a takeover, with the slots reused by requests and sweeps; two
runs are what a second executor, or an old one, of the same conversation takes; two dispatch attempts
(5 in the code) let one be retried and the next exhaust them. The proofs need no bound.

In the loop, a window of twelve units with four for an answer and two for a summary puts the fork line
below the swap line and both below the limit for every pace and growth that can be measured, and three turns
fill it, so that forks, merges, waits, refused requests and the breaker are all reached. For the checkpoint,
three replacements let one be made, replayed and followed by another, two crashes let a replay be cut
short and replayed again. One run and one job are enough for the operator, since what is at stake is where
the run stands when the job appears; two operators can install the same job or take it back from each other.
Four messages hold two calls with their results in any order.

In the turn, two hosts and two leases are a takeover of a run while the first host is still alive, two
calls are a response with two calls or two responses, one fault is the crash or the lapse that brings
the second host in, and one phase is enough to be interrupted before, in and after the write of a
command (two phases were checked on their own). In the team, two tickets of one run on one slot and one
session are the smallest instance where a stale worker meets a fresh one, two generations let the agent
be closed and reopened under it, two calls against a ceiling of one compete for it, two tasks can depend
on each other, two sweeps overlap. In the stores, two runs are what a row can be bound to too early or
too late, two writers share a set or collide on a path, a capacity of two is smaller than the three paths,
and two candidates can be batched together or apart.

Bounds that exclude behaviour and not only repetition. `MayCancel = FALSE` of `takeover` excludes the
replacement of a context for a cancelled job. `MaxStalls = 0` of `AgentRunLease` excludes
claims that lose their lease between their two writes (see below). `MaxStale` counts
status writes under `onlyIfUnleased`: `OneActiveRun` and `OnlyHolderWrites` are stated for behaviours before
the first one (`stale = 0`), and `CancelEnds` excuses it, since such a write can undo a cancellation as it
undoes a completion, and a completed run that is queued again meets the one created after it (TLC needs
three processes and three leases to see both write the runtime); `TypeOK` and `RunSettles` hold with one. `MaxLeases` ends the supply of owner
ids: `RunSettles` excuses a queued run for which none is left. `MaxTorn = 0` of `TeamLeases` excludes a
release that dies between two of its writes. `TeamRoots = {}` of `WorkspaceCapacity` excludes a case that
does go wrong, as listed below. Three executions are what it takes for two to number an attempt alike, and
`team_leases` has them. Its first two meet in every way; of the third, TLC's constraint `LateReplay` (`MCTeam`) keeps
the states in which it replays a call that the first execution has made and reported while the sweep still holds the
reservation of the first one and the second one is past the check of its fence. That is enough for the three actions
that need a shared number, and it means that the run does not follow a third execution out of these
states. With one call and any three of the four processes at work at once (1.1 million states), TLC finds `BudgetExact`
and `StaleCleared` to hold under `FairBudgetSpec` too. `MaxLeases = 2` of `TurnJournal` excludes a third host: with three, a root host that is stale and
still recovering may report a call as not run that its successor then runs.

`succession` and `takeover` do not check for deadlock: once the conversation is deleted the system
stops, as it should. Neither do the runs of the other modules: they stop when all runs are over, or when a
bound on commands is reached.

Fairness (`takeover`): a worker goes on with the claim it holds (`Process`; the loop of
`processClaimedCompactionJob` has no wait without a timeout or a heartbeat that aborts it), some
worker claims what can be claimed and reaps what has expired (`pump` polls), leases and deadlines
that nobody renews pass, and a model call under a guard ends (`RunGuarded`). Nothing is assumed of a
run between turns, which may stop for ever, of commands, or of faults. No strong fairness is used.

Fairness (`lease_liveness`): a process goes on with what it has begun (`Continue`: no step of the route,
the runner or the sweep waits for another process; an agent loop ends by its turn limit), a
heartbeat timer fires every 15 s (`Renew`, `ObserveLoss`), time passes, and the runner leases and the
sweep repairs what stays eligible. The last three are strong fairness per run, because in the model
runner, sweep and requests take turns in the same few slots, while in the code each has its own timer
(`wakeOrTimeout`, the 15 s sweep). Nothing is assumed of users, so a run may wait or stay recoverable
for ever, nor of faults.

Fairness (the sums): what each component's own fair specification assumes, while it is the one that moves.
Workers of a team's lease go on with what they have begun and the sweeps of slots, sessions and runs come
again (`LeaseFair`); the budget sweep comes again, strongly per call, since one sweep looks at many
(`BudgetFair`); a scheduler is called for a member whose tasks are ready, as `repairRunnableMemberWork`
does every 15 s, and executors proceed (`TaskFair`); released rows, receipts and stale claims are looked at
by the same sweeps (`QueueFair`); a waiter of a file set polls (`WorkspaceFair`); memory workers poll, and
each run is leased if it can be again and again, since the oldest is taken first (`MemoryFair`); something
of a host, a lease or a sweep moves (`JournalFair`, weaker than fairness per host). Editors, users, models
that answer with calls, faults and Root are assumed to do nothing.

Each property is checked to be sensitive: `PROJECT.json` names for each a definition of the protocol
and a plausible wrong form of it (a filter without the revision, without the fence, a settlement that
overwrites a newer epoch, a takeover that is missing ...) under which TLC finds it violated.

### Where the code disagrees with what is said of it

Three of these are runs of the project.

1. `overwrite`: a comment says that after the offer of its summary the local executor does not mutate
   the context. A run that had compacted synchronously before writes its memory over the context at its
   exit and undoes the merge. No turn is lost by it (`NoTurnLost` holds in `safety` with that very
   behaviour in it), but the compaction is.
2. `stop`: a comment says that a live executor owns the cancellation of its run, to persist what it has.
   A member's fences refuse every write as soon as the cancellation is asked for, so the results of
   interrupted calls are never written, the code that would return the task to 'rework' is not reached,
   and a call without a result stays in the session, where nothing closes it.
3. `replay`: a comment says that the checkpoint lets a crash replay the frozen summary instead of losing
   the merge. When removing media was enough, the "summary" in the checkpoint is a notice of it, and the
   replay puts that notice in the place of every turn of the context.

The others are shown by a property that is defined and commented in its module but listed in no run; each
is found by TLC in seconds to minutes under the constants given.

| Property | Module and specification | Constants | What goes wrong |
|---|---|---|---|
| `FailedKeepsInput` | `DurableCompaction`, `Spec` | 1 job, 1 fault | an error after the owner swap in the last attempt fails a job whose input has been replaced; the design document says it is still there |
| `ConflictOnlyOnChangedPrefix` | same | 1 fault | a lapsed fence, or appends that win all CAS attempts, fail a prepared merge with its prefix intact |
| `OnlyActiveJobsSwap` | `DurableCompaction`, `Spec` | 1 job, 2 workers, 2 faults, `MayCancel = TRUE` | a worker whose claim lapsed after it had read the context still replaces the prefix for a job that its successor has found cancelled and closed: nothing is lost, but the job is 'cancelled' and merged |
| `EndedNotResumed` | `AgentRunLease`, `Spec` | 1 run, 1 lease, 1 fault, `MaxStale = 1` | a failure recorded under `onlyIfUnleased` turns 'completed' into 'recoverable', and the run is queued without its `active_key` |
| `OnlyHolderWrites` | same | 1 run, 2 leases, 1 fault, `MaxStalls = 1` | the second write of a slow claim installs its fence over that of its successor |
| `RecoverableResumes` | `TeamLeases`, `FairLeaseSpec` | `MaxLapses = 0`, `MaxTorn = 1` | a release that dies between its writes leaves the agent 'running' without a lease, and no sweep resumes its recoverable run |
| `UserInputNotStranded` | `MessageQueue`, `FairQueueSpec` | 1 interruption, 1 executor, no update, 2 runs, no loss | an interruption admitted for a run that ends before it is enqueued stays bound to that run; `lib/db/queue-model.ts` says run-bound input must not silently disappear |
| `DependenciesAcyclic` | `TeamTasks`, `TeamTaskSpec` | 2 tasks, 2 editors, 4 commands, no crash | two edits that each find no cycle close one together |
| `RunningTaskHasRun` | `TeamTasks`, `FairTeamTaskSpec` | 1 task, 1 command, no crash | a stop leaves the task 'running' with no run; nobody returns it unless Root interrupts the agent. `SessionHeld` is the exception `ReadyTaskRuns` makes for it |
| `FrozenRangeExact` | `TeamSupervision`, `SupervisionSpec` | 1 sweep, no fault | an event inserted late, with a number below the end of a batch, is in no batch; `ToldExactlyOnce` is about the others |
| `StrictCeiling` | `ExecutionBudget`, `FairBudgetSpec` | 1 call, ceiling 2, 3 executions | recovery and replay of one call charge it more than once (`ChargedOnce`), or take its charge back although it was made; `BudgetExact` has it until the third one takes over |
| `UsageCountedOnce` | same | same | two executions give their attempts at one call the same number, and the settlement of the earlier one, which a takeover had carried through already, meets the reservation of the later one and counts it again, before that call is made |
| `PublishedHasFile` | `WorkspaceCapacity`, `WorkspaceSpec` | 2 writers, 3 paths, capacity 2 | `deleteStagedFiles` deletes by reservation id heads that have been published: after a finalization whose read-back failed the set is aborted |
| `SuccessIsWhole` | same | same | a writer is told that a set is complete whose files another has discarded |
| `ConversationResultOnce` | `TurnJournal`, `JournalSpec` | 2 hosts, 1 call, 2 leases, 1 fault | a stale root host, which looks at its local flag only, appends a second result of a call; `tool-recovery.ts` calls recovery idempotent at the conversation-history boundary |

Seen while modelling, without a property: a budget receipt of a command that parked the task before the
lease was lost fails the member's run as stale; `releaseCall`, `recordUsage` and `assertCanCall` of the
budget have no production caller; reservations of single files of a crashed writer are never recovered; a
turn that ends as 'waiting_agents' is queued for memory and then discarded, a memory run that crashes on
its fifth attempt stays 'processing', and edits of a profile by a user and a worker overwrite each other; no
code ever sets a team's status away from 'active'; `replaceCompactedMessages` of a conversation looks at no
lease, while that of a session does; a `prepare` whose second look at the conversation comes before a run
replaces it and ends may report a job with a stale prefix, which then fails on that prefix.

## 4. What is proved

### DurableCompaction

`DurableCompaction_proofs`, all obligations checked by TLAPS, from `ConstantsAssumption` alone (types
of the bounds; any set of workers, finite or not):

- `Invariance`: `Spec => []IInv`.
- `TypeCorrect`: `Spec => []TypeOK`.
- `NoTurnIsLost`: `Spec => []NoTurnLost`, including runs that compact synchronously, crash and
  overwrite.
- `EpochNeverGoesBack`: `Spec => [][rt'.epoch >= rt.epoch]_vars`.

`NoTurnLost` alone is not inductive. A swap writes a context that was read earlier, so the snapshot
of a worker must be tied to the owner's revision (`SnapshotInv`: equal revisions mean equal contexts,
and the snapshot began with the frozen prefix); a run writes back what it holds in memory, so that
must stand for the same turns whoever has compacted which of them (`ContextInv`); the snapshot needs
the prefix of its job to exist and to stay (`JobInv`: an active job has one; `HolderInv`: a process
acts on a job that was created, under a token). The central lemmas are about sequences: appending the
next turn to a chain of intervals gives a chain (`AppendChain`), replacing a prefix by one interval
keeps a chain (`FoldChain`, `SwapFolds`), and so does replacing all of it (`SyncChain`).

`EpochMonotone` needs `EpochInv`, the least obvious part: `SyncCompact` writes the epoch it remembers
plus one, unconditionally, and that is not a step back only because a run without a shadow is alone:
no job is active, and a job that was frozen before the run started can have raised the runtime by one
at most.

The proof has one lemma per part of `IInv` (`TypeStep`, `JobStep`, `HolderStep`, `SnapshotStep`,
`ContextStep`, `EpochStep`), each by cases on the actions, with frame lemmas for the actions that
leave the variables of that part alone.

### DurableCompaction: swaps, merges and the refinement

`DurableCompactionSwap_proofs` stands on `Invariance` and adds `MInv`:

- `SwapsHappenOnce`: `Spec => []SwappedAtMostOnce`.
- `MergesConverge`: `Spec => []MergedConverged`.
- `TerminalIsFinal`: `Spec => TerminalStable`.
- `GuardProtectsTheTurn`: `Spec => []GuardedContextCurrent`, if `~MayCancel`.
- `SwapsOnlyForActiveJobs`: a step replaces a prefix only for a job that is active, if `~MayCancel`.
- `Implements`: `Spec => ImplementsContextReplacement`, if `MaxSyncs = 0`.

The argument: an active job is the only one of its owner, and its guard lives only until it is claimed
(`ActiveInv`). If the prefix of an active job was replaced, the owner names that job as last applied; and as
long as the revision a worker has read still stands, no prefix of its own job nor of an active one has
been replaced (`SwapInv`), so the worker of a takeover that reads the owner afresh sees that the work is
done, and one that does not loses its compare-and-swap. A settled job has its epoch reached by the runtime
(`MergeInv`). No two claims of a job have one token, and a worker whose token is in the owner's fence has
made every earlier claim that is still past its own fence stale (`TokenInv`). Without commands that cancel,
a swap that would match belongs to an active job, and a run whose job nobody has claimed holds in
memory what the owner has (`OwnedInv`).

The two hypotheses say where the code stops promising. With `MayCancel`, TLC finds an execution in which
the context is replaced under a guard, and one in which a prefix is replaced for a job that is over
(`OnlyActiveJobsSwap` in the table above). And a synchronous compaction replaces the context without any job,
which `ContextReplacement` does not describe; the run `takeover` makes none either.

### AgentRunLease

`AgentRunLease_proofs`, for any set of processes and any bounds; the first three from `ConstantsAssumption`
alone, `MaxStalls` and `MaxStale` included:

- `Invariance`: `Spec => []IInv`.
- `TypeCorrect`: `Spec => []TypeOK`, with its last conjunct: the lease is set exactly while running.
- `OneActiveRunAtATime`: `Spec => []OneActiveRun`.
- `HolderWritesAlone`: `Spec => OnlyHolderWrites`, if `MaxStalls = 0`.

`OneActiveRun` is not inductive, since `createAgentRun` looks at `active_key` and not at the status.
`IInv` adds that at most one run holds the key (`OneKey`), that a run that is not over holds it as long
as no status was written without a lease (`ActiveHoldsKey`), and that a busy process is busy with a
run (`Busy`). The proof reduces the 36 actions to what they do to the run documents: `EveryStep`
shows that a step is a `DocumentStep`, that is, an update of one active run, a creation while no run
holds the key, or a late write that is counted; `DocumentsKept`, `UpdateKeepsKeys` and `KeyKept` then
need not know the actions. `ProcessesKept` and `RestKept` do the same for processes and runtime.

`OnlyHolderWrites` needs `FInv`: owner ids are fresh (`OwnersMade`) and no two processes that may still act
have the same (`OwnersApart`), a claim between its two writes has its lease (`ClaimsStand`), so that the
fence it is about to write is its own, and the fence of the runtime names the execution that holds the
lease, or nobody (`FenceOfHolder`). `StepMoves` reduces the actions to two kinds, `Takes` (somebody takes the
lease of a run that is free or its own) and `Quiet` (nobody does). The hypothesis is needed: with one stall
TLC finds the slow claim that installs its fence over its successor's (table above).

### MessageQueue

`Stores_proofs`: `QueueTypeCorrect`, `InputIsAccounted` (`[]InputAccounted`) and `ReceiptsAreFinal`
(`ReceiptFinal`). The invariant ties the collections to what executors and deliverers remember of them
between two calls: a row that was taken off is in the transcript and a claimed one is bound to a
run (`RowPart`), what an executor knows and will acknowledge is already in the transcript
(`ExecutorPart`), and a deliverer that has passed its insertion has a row to bind and to settle for
(`DeliveryPart`). `RunPart` adds that a run has a holder exactly while it runs.

### TeamLeases

`Team_proofs`: `LeaseTypeCorrect`, `RevokedIsNotWritten` (`[]RevokedNotWritten`) and `StoppedIsFinal`
(`StoppedUntilReopened`). A session that was revoked belongs to an earlier generation, or its agent is
stopped (`StoppedOrOld`); the agent is stopped from the first write of Root's command to its last
(`CommandPart`), and a session is claimed only for an agent that is not. `WorkerPart`, `MemberRunPart`
and `SlotPart` say that a worker that has not gone serves a run that exists, with one slot.

### TeamTasks

`Team_proofs`: `TaskTypeCorrect`, `RunningIsReady` (`[]RunningMeetsDependencies`) and
`EndedIsFinal` (`TerminalTaskFinal`). A task that runs has all its dependencies accepted although the
scheduler, the editor of its dependencies and the reviewer read and write in separate steps. This holds because acceptance
is final, and because what a scheduler or an editor has decided is either still sound or no longer
fresh (`SchedulerPart`, `EditorPart`), and a decision that is not fresh loses its compare-and-swap.
Every action but three is shown to be a `Moves(ts)`: it writes the tasks `ts` in an allowed way and
takes the freshness from whoever read them.

### TeamSupervision

`Team_proofs`: `SupervisionTypeCorrect` and `RootIsToldOnce` (`[]ToldExactlyOnce`), for any number
of events, sweeps and faults. The batches follow one another: each starts where a cursor has stood and
ends before the next starts, and the cursor is at the end of one (`ChainPart`); so two batches
share no event, although two sweeps may each believe they hold the lease. Where a sweep stands says what
has been written (`SweepPart`): past `freeze` its batch exists, and the cursor is at the batch's start or has
passed its end. A batch, like a list, leaves out only late events (`RangePart`). What was marked as
delivered, and what a sweep is about to mark or to pass with the cursor, has been told (`ToldPart`): its
messages have rows (`MailPart`) and its routine events a digest. `ListedWhole` is about the limit of the
listing and `MaxBelow` about the end of a batch.

### TurnJournal

`TurnJournal_proofs`, for any number of hosts, calls, leases and faults: `JournalTypeCorrect`,
`EffectsReported` (`[]EffectsAsReported`) and `OneResultEach` (`[]ResultsPaired`). A call is `Fresh` while nothing
was done for it and no run names it as its current action. A call that is not in the transcript yet, a
bad one, and one that is reported as not run are fresh (`FreshPart`), and stay so: the only host that
could still begin such a call has it in its own list, and either has its result in its copy already or,
in a session, has lost the run (`NeverPart`). For the other direction, a call of a session that was begun is answered or is the
current action of the run (`TrackPart`), so the host that comes next finds it there and does not count it among the
calls that were never begun. The run's owner expects what the run names (`ActionPart`), and the copy of a host
that nobody writes beside is the transcript (`SolePart`, `SoloPart`); this is where the fences of a
member's writes are needed, and, for a conversation, that it was never left. `HostPart` says what a host's copy
and list are at each of its places, and `CommandPart` how far a command is.

The actions are reduced to five kinds: a host goes on and writes nothing (`ActsKeep`), appends to the transcript
(`AppendsKeep`), leaves (`GoneKeeps`), a run is leased (`LeaseKeeps`), and the run changes without a host
(`UndrivenKeeps`). Each action then only has to be shown to be one of these.

### WorkspaceCapacity

`Stores_proofs`: `WorkspaceTypeCorrect` and `CapacityRespected` (`[]PathsWithinCapacity`). A swap is computed
from a copy that was read before. `SwapInv` says that a writer whose swap would still go through
(`unswapped`) holds a reservation that stands and has looked only at paths that reservation promised, so
that what it publishes was already counted; releasing only gives back. The lemmas below it are about
cardinalities of unions of what is published and what the reservations promise.

### MemoryPipeline

`Stores_proofs`: `MemoryTypeCorrect`, `OnlyCompletedTurnsRemembered` (`[]MemoryOfCompletedTurns`) and
`CandidatesDecidedOnce` (`[]DecidedOnce`). A worker is at a candidate only for a turn that ended naturally
(`TurnPart`), what has a batch is a candidate (`FactPart`), the batch a worker decides on is claimed under
its tag (`BatchPart`), and a copy of the profile that is about to be written back lacks the
preference that is added (`ProfilePart`).

### ExecutionBudget

`ExecutionBudget_proofs` assumes `BudgetAssumption` alone: there is a call, and the limit and the number of
executions are any. `BudgetTypeCorrect` (`[]BudgetTypeOK`) and `BudgetIsExact` (`[]BudgetExact`) hold of
every behaviour, with as many executions as it may have. `BudgetExact` says of every state that nothing is
reported that was not called (`ReportedWasCalled`), and of the states up to the third execution (`AtMostTwo`:
`current <= 2`) that the count is exact. That is as far as it goes. Nothing in the code bounds the executions of a
run, and after the third one has begun TLC finds the count too low (table above): the second and the third
execution give their attempts the same number, and a sweep that read the reservation of the second meets that of
the third, which was not charged, and takes the charge back. For the same reason `BudgetTypeOK` bounds the
count by the limit from above only: `releaseReservationInternal` subtracts with an `$inc` that does not look at
what is there.

The invariant `BInv` is `Standing`, and `Exact` while `AtMostTwo`. `Standing`, which holds of every state,
gives the types and what is reported: no number of an attempt is above that of the execution that has the
lease, nor above the one before it as long as the execution with the lease has not reserved the call (`NumberPart`), so a new number is
one of an execution; who is at a call or settles it has called, and so has whoever left a receipt settled
or in settlement (`ReportPart`), shared receipts included.

`BudgetExact` speaks of the count and of what was called, and says nothing of who is between which two
writes; for the count `Exact` says that first. While the first execution holds the lease it is alone with
its calls: the sweep lets its reservations be, and there is no receipt but its own (`FirstPart`). Until the
second execution has reserved a call, nothing, in the documents or in hand, is of a second attempt at it
(`SecondPart`), so whatever of the first attempt is still under way meets that attempt or nothing. Then the
charge that a release takes back is the one that was counted (`ChargePart`). The ceiling follows from
`MoneyPart`: there is a set of calls that were spent, which has every call that was made, that is started, or
whose receipt consumes its admission; and together with the calls that are promised (reserved and charged) it
is no larger than the count. Reserving adds to the promised, starting moves a call from the promised to the spent, a
release takes from the promised, and nothing takes from the spent. That usage is counted once is
`CalledPart`: it is at most the number of attempts that were called and are no longer under way (`Going`). An
attempt leaves `Going` when it is counted and never comes back, for an attempt on the way to its call has
not been called, and the two executions are never on the way to the same one (`NewPart`). Nor are they at the
same one afterwards, and the receipt of an attempt that is at its call is settled by nobody else (`ApartPart`), so
the three ways of going on with another execution's receipt are closed until the third one.

### CheckpointReplay

`Runtime_proofs`: `ReplayTypeCorrect` and `ReplayIsExact` (`[]ReplayExact`), for any number of turns,
compactions and crashes, from `ReplayAssumption`. The memory of the loop is what is stored except
between the writes after a merge (`LivePart`); what the process has in hand is a fork of a prefix it
still has, or a checkpoint that agrees with the place it stands at (`ForkPart`); a checkpoint with a summary is
of a prefix, and its replacement is that summary under another number (`SummaryPart`); the first
message is one that was applied (`FirstPart`), so a replay sees whether it came before; and the epochs count the
replacements that were applied, one more or less while one is pending (`EpochPart`). `CoverPart`, every turn once
and in order, then needs only that replacing a prefix by one message keeps a covering (`SplicedSeq`).

### BackgroundCompaction

`Runtime_proofs`: `BackgroundTypeCorrect` and `BackgroundIsSound` (`[]BackgroundSound`), for any sizes the
assumptions allow (`BackgroundAssumption`: sizes are naturals). The prefix a fork was taken from is still the one the context
begins with, in the shape it had (`SplicePart`, `ShapePart`), whatever was folded, stripped or admitted in between; a
loop with durable jobs neither merges by itself nor gives its announced job away (`DurablePart`); and
what is sent fits (`FitPart`). What the context measures is a fold over a sequence of sizes. That a fold
over integers is the sum it is meant to be is proved here from the definition of the fold, by the least counterexample
(below), and the decision at a boundary becomes an inequality between such sums.

### OperatorRepair and RepairPrefix

`Runtime_proofs`: `RepairTypeCorrect`, `PreparedIsQuiet` (`[]PreparedWhileQuiet`) and `RollbackLeavesNothing`
(`[]RolledBackGone`), for any number of operators and documents that are read one after the other. One job at most
is active (`OneJobPart`), and a command that passed its second look at runs and leases had its own job active before that look, so that
no run was let in after it (`CommandsPart`).

`PrefixIsSelected` (`[]PrefixSelected`) is about an algorithm: for every history, with calls that are open,
answered twice or never used, the command selects the longest prefix that fits a request and parts no call
from its result, and none exactly when there is none. The search halves a range (`FitsRequest` is monotone, because the
estimate is a sum of naturals), and is a recursive function; `RepairIsSound` (`[]RepairSound`) joins the three.

### The sums

`RuntimeTypeCorrect`, `StoresTypeCorrect` and `TeamTypeCorrect` prove the type invariants of `MCRuntime`,
`MCStores` and `MCTeam`, and `RepairIsSound` the property of the first. A behaviour of the sum is a behaviour of each
component, which moves by its own steps or not at all (`RuntimeComponents`, `StoresComponents`,
`TeamComponents`).

### Recursive functions

Induction over data is not among what the provers can do, but a function defined by recursion can be
reasoned about: a set of naturals that is not empty has a least element (from the well-foundedness of `<` on
them), so the least argument at which a claim about the function fails contradicts the recursion. So are
proved what the folds of `BackgroundCompaction` and the search of `RepairPrefix` compute, the order of batches
in `TeamSupervision`, and the recovery of calls in `TurnJournal`.

### What the proofs found in the models

Three definitions could not be reasoned about and were wrong as translations, though no run told them apart:
`Claim` of `MemoryPipeline` let a worker's new batch share its tag with an earlier one (the code makes a
fresh id); `DependencyEdits` of `TeamTasks` and `Settled` of `WorkspaceCapacity` used a CASE whose
guards overlap, which in TLA+ is any of the arms and in the code is the first; so did `ReadPrior` of
`ExecutionBudget`, where a receipt that is being settled may meet a reservation that is still reserved. The models now say what the
code does. `SupervisionAssumption` of `TeamSupervision` had to say that the name of a sweep is not the state of a
message, and `BudgetAssumption` that there is a call. `BackgroundCompaction`, `CheckpointReplay`, `OperatorRepair`
and `RepairPrefix` name what their constants are; `ToolTurn` of `BackgroundCompaction` lists the fields of a
result instead of joining two records.

Following what becomes of a number that two executions share led to one more: the receipt of `ExecutionBudget` did
not know its owner, so `Settle` took a receipt that a stale execution had written over for its own. The code
asks for the `execution_owner_id` there, and where it starts a call, and refuses; so does the model.
Stating the type of the budget for any number of executions led to three actions that two executions never
take, `StartedBefore`, `JoinSettlement` and `SettledBefore`: the code lets a receipt that is started, in
settlement or completed pass for the caller's own, and the model had refused.

### Only model-checked

- Liveness under fairness, which is out of the prover's reach: `SharesRecovered`, `ReadyTaskRuns`, and the other
  temporal properties of the runs that are not of the form `[][A]_v`; so is whatever speaks of ENABLED.

## 5. What the models leave out

`DurableCompaction`:

- The status outbox and its delivery to team events: no step of the protocol reads it.
- The frozen model resolution and the content of summaries, hashes and token counts.
- Joining a second trigger to an active job by idempotency key.
- Folding of tool results after the prompt-cache TTL, a rewrite of messages in memory that keeps the turns
  (it is in `BackgroundCompaction`).
- The checkpoint that a synchronous compaction leaves, and its replay after a crash: one more writer of the
  context, in `CheckpointReplay`, where there is no durable job.
- Re-sending of message ids: an append that is retried moves a message to the end.
- A run here is one at a time; that there is one executor per run is the business of `AgentRunLease`.

`AgentRunLease`: runs of agent sessions (their fences are in `TeamLeases`); pending inputs, interactions and
checkpoints; the recovery of a failed root run by a new one; failure classification, the memory run and
released queue rows that accompany a status; deletion of the conversation, and the other fenced fields of
the runtime.

The other modules:

- `BackgroundCompaction`: the words of messages and how tokens are estimated from them, subscription to
  several models, the workers' side of the job.
- `CheckpointReplay`: hashes (equality stands for them), the projection of the workspace in a summary.
- `OperatorRepair`: the command line, the manifest, the model's resolution beyond its being the same.
- `TurnJournal`: words, order and size of messages, images, the two copies of a compacted transcript, limits
  on parallel calls, WaitForAgents, which tools are granted.
- `MessageQueue`: order by creation time, contents and images.
- `TeamLeases`: exhaustion of dispatch attempts; writes of an agent's status by its id alone that come late
  enough to meet its next generation.
- `ExecutionBudget`: amounts of tokens and money, the several limits of a policy.
- `TeamTasks`: access rules and grants, proposals, waits, contents of messages; an edit changes one kind of
  field; the choice of the scheduler is one step; reopening waits until the executor has left; deferral by a
  compaction.
- `TeamSupervision`: what a digest says, deadlines.
- `WorkspaceCapacity`: updates of published files by revision, access rules, blobs, canonical artifacts, the
  limit of 32 CAS attempts.
- `MemoryPipeline`: extraction, evidence, search, edits of a preference's words.

### Not modelled

`PROJECT.json` lists the parts. Most of the source that no definition stands for is of three kinds: the web
interface (`components`, `hooks`, pages), conversions and schemas (document parsers, provider adapters,
literature search, tool schemas, prompts), and pure functions on the words of messages. What has state and
is still missing: proposals and access rules of the workspace, waits of agents, media assets.
