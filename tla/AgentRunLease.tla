---------------------------- MODULE AgentRunLease ----------------------------
(***************************************************************************)
(* The root AgentRuns of one Conversation and the lease that says which    *)
(* process executes one (lib/agent-runtime/repository.ts, runner.ts, the   *)
(* execution path of app/api/chat/route.ts and the recovery sweep of       *)
(* instrumentation-node.ts).                                               *)
(*                                                                         *)
(* Two documents that no transaction joins carry the ownership: the        *)
(* AgentRun (status, active_key, lease, cancellation flag) and the         *)
(* ConversationRuntime, whose active_run_id and active_lease_owner_id are  *)
(* the fence of every runtime write.  Almost every operation writes the    *)
(* AgentRun first and the runtime second; a process sits between the two   *)
(* writes in a pc of its own, and may be overtaken or die there.           *)
(*                                                                         *)
(* A process is a slot: an executor, a request, the sweep.  Owner ids are  *)
(* fresh per lease (the ":uuid" suffix) and are numbered as they are made. *)
(***************************************************************************)
EXTENDS Integers, FiniteSets

CONSTANTS
  Processes,     \* slots for the processes that act at the same time
  MaxRuns,       \* runs the conversation may create
  MaxLeases,     \* owner ids that may be made
  MaxDispatch,   \* MAX_DISPATCH_ATTEMPTS (5 in the code)
  Modes,         \* AGENT_RUNTIME_BACKGROUND_RUNNER of the deployments looked at
  MaxFaults,     \* crashes, errors, deferrals, lost responses, missed heartbeats
  MaxStalls,     \* claims that outlive their lease between their two writes
  MaxStale       \* status writes made under onlyIfUnleased

ASSUME ConstantsAssumption ==
  /\ MaxRuns \in Nat /\ MaxLeases \in Nat /\ MaxFaults \in Nat
  /\ MaxStalls \in Nat /\ MaxStale \in Nat
  /\ MaxDispatch \in Nat \ {0}
  /\ Modes \subseteq BOOLEAN

VARIABLES
  background,  \* the deployment's mode, fixed when the processes start
  runs,        \* run -> its AgentRun document
  runtime,     \* the ConversationRuntime document
  proc,        \* process -> what it is doing
  leases,      \* owner ids made so far
  faults, stalls, stale   \* what the bounds have counted

vars == <<background, runs, runtime, proc, leases, faults, stalls, stale>>

Runs == 1 .. MaxRuns
NoRun == 0
NoOwner == 0

Terminal == {"completed", "cancelled", "failed"}
Inactive == {"queued", "waiting_user", "waiting_agents", "recoverable"}
Resumable == Inactive \ {"queued"}
Status == Terminal \cup Inactive \cup {"none", "running"}

(* key: active_key is set; live: the lease has not expired; late:          *)
(* available_at is in the future                                           *)
NoRecord == [status |-> "none", key |-> FALSE, lease |-> NoOwner,
             live |-> FALSE, cancel |-> FALSE, tries |-> 0, late |-> FALSE]

(* valid is the route's runLeaseValid; stopped, its userCancelled          *)
Idle == [pc |-> "idle", run |-> NoRun, owner |-> NoOwner,
         valid |-> FALSE, stopped |-> FALSE]

Init ==
  /\ background \in Modes
  /\ runs = [r \in Runs |-> NoRecord]
  /\ runtime = [run |-> NoRun, owner |-> NoOwner, snapshot |-> NoOwner]
  /\ proc = [p \in Processes |-> Idle]
  /\ leases = 0
  /\ faults = 0 /\ stalls = 0 /\ stale = 0

Fault == faults < MaxFaults /\ faults' = faults + 1

-----------------------------------------------------------------------------
(* Helpers: the filters and updates the operations share.                  *)

Goto(p, pc) == proc' = [proc EXCEPT ![p].pc = pc]
GoIdle(p) == proc' = [proc EXCEPT ![p] = Idle]

(* a process takes over a second write for run r and owner o               *)
Begin(p, pc, r, o) ==
  proc' = [proc EXCEPT ![p] = [Idle EXCEPT !.pc = pc, !.run = r, !.owner = o]]

(* a claim that answers null is an error to the route, whose catch reads   *)
(* the cancellation flag, and then the conversation, before it writes      *)
Catch(p) ==
  proc' = [proc EXCEPT ![p].pc = "refused", ![p].stopped = runs[proc[p].run].cancel]

(* { status: 'running', 'lease.owner_id': ownerId }                        *)
Owns(p) ==
  /\ runs[proc[p].run].status = "running"
  /\ runs[proc[p].run].lease = proc[p].owner

(* ... and cancellation_requested is not true                              *)
OwnsUncancelled(p) == Owns(p) /\ ~runs[proc[p].run].cancel

(* a claim of run r whose lease goes while it is between its two writes    *)
Stall(r, taken) ==
  IF taken /\ \E q \in Processes : /\ proc[q].pc \in {"fence", "refence"}
                                  /\ proc[q].run = r /\ Owns(q)
  THEN stalls < MaxStalls /\ stalls' = stalls + 1
  ELSE UNCHANGED stalls

Unleased(r) == runs[r].lease = NoOwner
LeaseFree(r) == Unleased(r) \/ ~runs[r].live

\* mutant: whatever ends an execution releases active_key
SettledReleasing(r, st) ==
  [runs EXCEPT ![r].status = st, ![r].lease = NoOwner, ![r].live = FALSE,
               ![r].key = FALSE]

(* what a run looks like once st took its lease away (setRunStatus)        *)
Settled(r, st) ==
  [runs EXCEPT ![r].status = st, ![r].lease = NoOwner, ![r].live = FALSE,
               ![r].key = IF st \in Terminal THEN FALSE ELSE @]

Queued(r) ==
  [runs EXCEPT ![r].status = "queued", ![r].lease = NoOwner, ![r].live = FALSE,
               ![r].tries = 0, ![r].late = FALSE]

\* mutant: a run put back into the queue keeps its lease
DeferredLeased(r) ==
  [runs EXCEPT ![r].status = "queued", ![r].live = FALSE, ![r].late = TRUE]

Deferred(r) ==
  [runs EXCEPT ![r].status = "queued", ![r].lease = NoOwner, ![r].live = FALSE,
               ![r].late = TRUE]

Leased(r, o) ==
  [runs EXCEPT ![r].status = "running", ![r].lease = o, ![r].live = TRUE]

(* the second write of setRunStatus                                        *)
SecondWrite(st) == IF st \in Terminal THEN "clear" ELSE "park"

-----------------------------------------------------------------------------
(* Requests.                                                               *)

(* createAgentRun: the unique index on active_key admits one run           *)
NoActiveRun == \A r \in Runs : ~runs[r].key

CreateRun(p, r) ==
  /\ proc[p].pc = "idle"
  /\ runs[r].status = "none"
  /\ \A s \in Runs : s < r => runs[s].status # "none"
  /\ NoActiveRun
  /\ runs' = [runs EXCEPT ![r].status = "queued", ![r].key = TRUE]
  /\ Begin(p, "point", r, NoOwner)
  /\ UNCHANGED <<background, runtime, leases, faults, stalls, stale>>

(* ... and its second write                                                *)
PointRuntime(p) ==
  /\ proc[p].pc = "point"
  /\ runtime' = [runtime EXCEPT !.run = proc[p].run, !.owner = NoOwner]
  /\ Goto(p, "claim")
  /\ UNCHANGED <<background, runs, leases, faults, stalls, stale>>

(* resumeWaitingAgentRun, of the run getActiveAgentRun found               *)
ResumeRun(p, r) ==
  /\ proc[p].pc = "idle"
  /\ runs[r].key
  /\ runs[r].status \in Resumable
  /\ ~runs[r].cancel
  /\ runs' = Queued(r)
  /\ Begin(p, "claim", r, NoOwner)
  /\ UNCHANGED <<background, runtime, leases, faults, stalls, stale>>

(* a request leaves the run to the background runner, if there is one, or  *)
(* goes on to claim and execute it                                         *)
HandsOver(p) == background /\ proc[p].owner = NoOwner

HandOver(p) ==
  /\ proc[p].pc = "claim"
  /\ HandsOver(p)
  /\ GoIdle(p)
  /\ UNCHANGED <<background, runs, runtime, leases, faults, stalls, stale>>

(* queueRecoverableAgentRun: the user's resume button, and the team        *)
(* recovery of the sweep                                                   *)
CanRequeue(r) == runs[r].status = "recoverable" /\ ~runs[r].cancel

RequeueRecoverable(r) ==
  /\ background
  /\ CanRequeue(r)
  /\ runs' = Queued(r)
  /\ UNCHANGED <<background, runtime, proc, leases, faults, stalls, stale>>

(* the stop request: the flag first, then cancelInactiveAgentRun           *)
RequestCancellation(r) ==
  /\ runs[r].key /\ ~runs[r].cancel
  /\ runs' = [runs EXCEPT ![r].cancel = TRUE]
  /\ UNCHANGED <<background, runtime, proc, leases, faults, stalls, stale>>

CancelInactive(p, r) ==
  /\ proc[p].pc = "idle"
  /\ runs[r].cancel
  /\ runs[r].status \in Inactive
  /\ runs' = Settled(r, "cancelled")
  /\ Begin(p, "clear", r, NoOwner)
  /\ UNCHANGED <<background, runtime, leases, faults, stalls, stale>>

-----------------------------------------------------------------------------
(* Claims.                                                                 *)

(* leaseNextAgentRun of the background runner, with a fresh owner id       *)
Leasable(r) ==
  /\ runs[r].status = "queued"
  /\ ~runs[r].cancel
  /\ LeaseFree(r)
  /\ ~runs[r].late

LeaseNext(p, r) ==
  /\ background
  /\ proc[p].pc = "idle"
  /\ Leasable(r)
  /\ leases < MaxLeases
  /\ leases' = leases + 1
  /\ runs' = [Leased(r, leases + 1) EXCEPT ![r].late = FALSE]
  /\ Begin(p, "fence", r, leases + 1)
  /\ UNCHANGED <<background, runtime, faults, stalls, stale>>

(* claimAgentRun of the route that executes: with the owner id of the      *)
(* dispatch, or one of its own when the request executes inline            *)
Claimable(r, o) ==
  /\ runs[r].status \in {"queued", "running", "recoverable"}
  /\ ~runs[r].cancel
  /\ LeaseFree(r) \/ runs[r].lease = o

ClaimRun(p) ==
  LET r == proc[p].run
      fresh == proc[p].owner = NoOwner
      o == IF fresh THEN leases + 1 ELSE proc[p].owner
  IN
  /\ proc[p].pc = "claim"
  /\ ~HandsOver(p)
  /\ IF Claimable(r, o)
     THEN /\ o <= MaxLeases
          /\ leases' = IF fresh THEN o ELSE leases
          /\ runs' = Leased(r, o)
          /\ proc' = [proc EXCEPT ![p].pc = "refence", ![p].owner = o]
     ELSE Catch(p) /\ UNCHANGED <<runs, leases>>
  /\ UNCHANGED <<background, runtime, faults, stalls, stale>>

(* establishRuntimeLeaseFence: the second write of both claims             *)
Fenced(p) == [runtime EXCEPT !.run = proc[p].run, !.owner = proc[p].owner]

EstablishFence(p) ==
  /\ proc[p].pc \in {"fence", "refence"}
  /\ runtime' = Fenced(p)
  /\ proc' = IF proc[p].pc = "fence"
             THEN [proc EXCEPT ![p].pc = "dispatch"]
             ELSE [proc EXCEPT ![p].pc = "execute", ![p].valid = TRUE]
  /\ UNCHANGED <<background, runs, leases, faults, stalls, stale>>

(* the fence did not read back (a runtime the schema or a delete emptied)  *)
FenceFails(p) ==
  /\ proc[p].pc \in {"fence", "refence"}
  /\ Fault
  /\ Goto(p, IF proc[p].pc = "fence" THEN "relinquish" ELSE "surrender")
  /\ UNCHANGED <<background, runs, runtime, leases, stalls, stale>>

(* relinquishRunAfterFenceFailure; claimAgentRun then answers null, which  *)
(* is an execution error to the route and nothing to the runner            *)
Relinquish(p) ==
  /\ proc[p].pc \in {"relinquish", "surrender"}
  /\ runs' = IF Owns(p) THEN Settled(proc[p].run, "recoverable") ELSE runs
  /\ IF proc[p].pc = "relinquish" THEN GoIdle(p) ELSE Catch(p)
  /\ UNCHANGED <<background, runtime, leases, faults, stalls, stale>>

-----------------------------------------------------------------------------
(* Dispatch: dispatchClaimedRun of the runner.                             *)

(* the executor's route takes the dispatch if the lease is still the       *)
(* runner's; a 409 ends in requeueAgentRunAfterDispatchFailure, which      *)
(* then finds nothing of its own to requeue                                *)
Accept(p) ==
  /\ proc[p].pc = "dispatch"
  /\ IF Owns(p) THEN Goto(p, "claim") ELSE GoIdle(p)
  /\ UNCHANGED <<background, runs, runtime, leases, faults, stalls, stale>>

(* deferAgentRunForExecutionCapacity before the dispatch,                  *)
(* deferAgentRunForCompactionBarrier before it and while executing         *)
Defer(p) ==
  /\ proc[p].pc \in {"dispatch", "execute"}
  /\ Fault
  /\ IF OwnsUncancelled(p)
     THEN runs' = Deferred(proc[p].run) /\ Goto(p, "yield")
     ELSE GoIdle(p) /\ UNCHANGED runs
  /\ UNCHANGED <<background, runtime, leases, stalls, stale>>

(* requeueAgentRunAfterDispatchFailure                                     *)
Redispatched(r) ==
  LET n == runs[r].tries + 1 IN
  IF n >= MaxDispatch
  THEN [Settled(r, "recoverable") EXCEPT ![r].tries = n, ![r].late = FALSE]
  ELSE [Deferred(r) EXCEPT ![r].tries = n]

Requeue(p) ==
  IF OwnsUncancelled(p)
  THEN runs' = Redispatched(proc[p].run) /\ Goto(p, "yield")
  ELSE GoIdle(p) /\ UNCHANGED runs

DispatchFails(p) ==
  /\ proc[p].pc = "dispatch"
  /\ Fault
  /\ Requeue(p)
  /\ UNCHANGED <<background, runtime, leases, stalls, stale>>

(* the route has accepted and goes on in p, but the answer is lost: in q   *)
(* the runner still waits for it, and will requeue behind the route's back *)
LoseResponse(p, q) ==
  /\ proc[p].pc = "dispatch" /\ proc[q].pc = "idle"
  /\ Owns(p)
  /\ Fault
  /\ proc' = [proc EXCEPT ![p].pc = "claim", ![q] = [proc[p] EXCEPT !.pc = "unheard"]]
  /\ UNCHANGED <<background, runs, runtime, leases, stalls, stale>>

RequeueUnheard(p) ==
  /\ proc[p].pc = "unheard"
  /\ Stall(proc[p].run, OwnsUncancelled(p))
  /\ Requeue(p)
  /\ UNCHANGED <<background, runtime, leases, faults, stale>>

-----------------------------------------------------------------------------
(* Execution: the detached part of POST /api/chat.                         *)

\* mutant: the fence compares the run and not the owner
AdmittedByRun(p) == runtime.run = proc[p].run

(* commitRuntimeWrite around a fenced update of the runtime                *)
Admitted(p) == runtime.run = proc[p].run /\ runtime.owner = proc[p].owner

WriteRuntime(p) ==
  /\ proc[p].pc = "execute"
  /\ proc[p].valid
  /\ IF Admitted(p)
     THEN /\ runtime' = [runtime EXCEPT !.snapshot = proc[p].owner]
          /\ UNCHANGED proc
     ELSE GoIdle(p) /\ UNCHANGED runtime
  /\ UNCHANGED <<background, runs, leases, faults, stalls, stale>>

(* heartbeatAgentRun every 15 s until the route's finally: it renews a     *)
(* lease that expired but that no sweep has taken ...                      *)
Beating(p) == proc[p].pc \in {"execute", "ended", "failing"}

Renew(p) ==
  /\ Beating(p)
  /\ Owns(p) /\ ~runs[proc[p].run].live
  /\ runs' = [runs EXCEPT ![proc[p].run].live = TRUE]
  /\ UNCHANGED <<background, runtime, proc, leases, faults, stalls, stale>>

(* ... and tells the executor that the run is no longer its own, which it  *)
(* also concludes when the heartbeat itself failed                         *)
ObserveLoss(p) ==
  /\ Beating(p)
  /\ proc[p].valid
  /\ IF Owns(p) THEN Fault ELSE UNCHANGED faults
  /\ proc' = [proc EXCEPT ![p].valid = FALSE]
  /\ UNCHANGED <<background, runs, runtime, leases, stalls, stale>>

(* requireRunLease after the loop: AgentRunLeaseLostError writes nothing;  *)
(* or the end of the work that follows the final status                    *)
Leave(p) ==
  /\ proc[p].pc = "ended" \/ (proc[p].pc = "execute" /\ ~proc[p].valid)
  /\ GoIdle(p)
  /\ UNCHANGED <<background, runs, runtime, leases, faults, stalls, stale>>

(* setRunStatus at the end of the loop, under leaseOwnerId.  An executor   *)
(* that saw the cancellation ends the run as cancelled                     *)
EndStatus(r) ==
  {"completed", "failed", "waiting_user", "waiting_agents", "recoverable"}
    \cup (IF runs[r].cancel THEN {"cancelled"} ELSE {})

Finish(p, st) ==
  /\ proc[p].pc = "execute"
  /\ proc[p].valid
  /\ st \in EndStatus(proc[p].run)
  /\ IF Owns(p)
     THEN runs' = Settled(proc[p].run, st) /\ Goto(p, SecondWrite(st))
     ELSE GoIdle(p) /\ UNCHANGED runs
  /\ UNCHANGED <<background, runtime, leases, faults, stalls, stale>>

(* a Run the runner may not dispatch: failIneligibleTeamRun and            *)
(* failAgentRunForCompactionBarrier                                        *)
Reject(p, st) ==
  /\ proc[p].pc = "dispatch"
  /\ st = "cancelled" => runs[proc[p].run].cancel
  /\ Fault
  /\ IF Owns(p)
     THEN runs' = Settled(proc[p].run, st) /\ Goto(p, "clear")
     ELSE GoIdle(p) /\ UNCHANGED runs
  /\ UNCHANGED <<background, runtime, leases, stalls, stale>>

(* any other error: before the claim, under the lease, or in what follows  *)
(* the final status (the memory run, the title); the heartbeat, once       *)
(* started, goes on until the route's finally                              *)
ExecutionError(p) ==
  LET inSetup == proc[p].pc \in {"point", "claim"} IN
  /\ inSetup \/ proc[p].pc \in {"execute", "ended"}
  /\ Fault
  /\ proc' = [proc EXCEPT ![p].pc = "failing",
                          ![p].stopped = runs[proc[p].run].cancel,
                          ![p].owner = IF inSetup THEN NoOwner ELSE @]
  /\ UNCHANGED <<background, runs, runtime, leases, stalls, stale>>

(* processInterrupted, of an error that speaks of an abort or a shutdown,  *)
(* which the refused claim does not                                        *)
FailureStatus(p) ==
  IF proc[p].stopped THEN {"cancelled"}
  ELSE IF proc[p].pc = "refused" THEN {"failed"}
  ELSE {"failed", "recoverable"}

(* runLeaseValid ? { leaseOwnerId } : { onlyIfUnleased: true }; a write    *)
(* that finds its filter unmet writes nothing                              *)
RecordOwnFailure(p, st) ==
  /\ proc[p].pc = "failing"
  /\ proc[p].valid
  /\ st \in FailureStatus(p)
  /\ IF Owns(p)
     THEN /\ runs' = Settled(proc[p].run, st)
          /\ proc' = [proc EXCEPT ![p].pc = SecondWrite(st), ![p].valid = FALSE]
     ELSE GoIdle(p) /\ UNCHANGED runs
  /\ UNCHANGED <<background, runtime, leases, faults, stalls, stale>>

Unsure(p) == proc[p].pc \in {"failing", "refused"} /\ ~proc[p].valid

RecordLateFailure(p, st) ==
  /\ Unsure(p)
  /\ st \in FailureStatus(p)
  /\ Unleased(proc[p].run)
  /\ stale < MaxStale
  /\ stale' = stale + 1
  /\ runs' = Settled(proc[p].run, st)
  /\ Goto(p, SecondWrite(st))
  /\ UNCHANGED <<background, runtime, leases, faults, stalls>>

LeaveFailed(p) ==
  /\ Unsure(p)
  /\ ~Unleased(proc[p].run) \/ stale = MaxStale
  /\ GoIdle(p)
  /\ UNCHANGED <<background, runs, runtime, leases, faults, stalls, stale>>

-----------------------------------------------------------------------------
(* The second write of the operations, each with its own filter.           *)

Yield(p) ==
  /\ proc[p].pc = "yield"
  /\ runtime' = IF Admitted(p) THEN [runtime EXCEPT !.owner = NoOwner] ELSE runtime
  /\ GoIdle(p)
  /\ UNCHANGED <<background, runs, leases, faults, stalls, stale>>

(* valid here only after Finish                                            *)
AfterStatus(p) == IF proc[p].valid THEN Goto(p, "ended") ELSE GoIdle(p)

Park(p) ==
  /\ proc[p].pc = "park"
  /\ runtime' = IF runtime.run = proc[p].run
                THEN [runtime EXCEPT !.owner = NoOwner] ELSE runtime
  /\ AfterStatus(p)
  /\ UNCHANGED <<background, runs, leases, faults, stalls, stale>>

Clear(p) ==
  /\ proc[p].pc = "clear"
  /\ runtime' = IF runtime.run = proc[p].run
                THEN [runtime EXCEPT !.run = NoRun, !.owner = NoOwner]
                ELSE runtime
  /\ AfterStatus(p)
  /\ UNCHANGED <<background, runs, leases, faults, stalls, stale>>

-----------------------------------------------------------------------------
(* The recovery sweep.                                                     *)

\* mutant: the sweep asks for a runtime that still names the owner
ExpiredFenced(r) ==
  /\ runs[r].status = "running" /\ ~runs[r].cancel /\ ~runs[r].live
  /\ runtime.owner = runs[r].lease

(* markExpiredRunsRecoverable, for one candidate                           *)
Expired(r) == runs[r].status = "running" /\ ~runs[r].cancel /\ ~runs[r].live

MarkExpired(p, r) ==
  /\ proc[p].pc = "idle"
  /\ Expired(r)
  /\ runs' = Settled(r, "recoverable")
  /\ Begin(p, "yield", r, runs[r].lease)
  /\ UNCHANGED <<background, runtime, leases, faults, stalls, stale>>

\* mutant: the sweep leaves running runs to their executors
OrphanedInactive(r) ==
  runs[r].cancel /\ runs[r].key /\ runs[r].status \in Inactive

(* finalizeOrphanedCancelledRuns, for one candidate                        *)
Orphaned(r) ==
  /\ runs[r].cancel
  /\ runs[r].key
  /\ \/ runs[r].status \in Inactive
     \/ runs[r].status = "running" /\ ~runs[r].live

FinalizeCancelled(p, r) ==
  /\ proc[p].pc = "idle"
  /\ Orphaned(r)
  /\ runs' = Settled(r, "cancelled")
  /\ Begin(p, "clear", r, NoOwner)
  /\ UNCHANGED <<background, runtime, leases, faults, stalls, stale>>

(* markAbandonedQueuedRunsRecoverable, without a background runner: a      *)
(* process that is still busy with the run has been slow for a minute      *)
MarkAbandoned(r) ==
  /\ ~background
  /\ runs[r].status = "queued"
  /\ ~runs[r].cancel
  /\ Unleased(r)
  /\ IF \E p \in Processes : proc[p].run = r
     THEN Fault ELSE UNCHANGED faults
  /\ runs' = Settled(r, "recoverable")
  /\ UNCHANGED <<background, runtime, proc, leases, stalls, stale>>

-----------------------------------------------------------------------------
(* Crashes and the clock.                                                  *)

Crash(p) ==
  /\ proc[p].pc # "idle"
  /\ Fault
  /\ GoIdle(p)
  /\ UNCHANGED <<background, runs, runtime, leases, stalls, stale>>

Holding(p, r) == proc[p].run = r /\ Owns(p)

(* a lease lapses freely once nobody holds it; under a holder it means     *)
(* missed heartbeats, or a claim slower than the lease                     *)
LapseLease(r) ==
  /\ runs[r].live
  /\ IF \E p \in Processes : Holding(p, r) THEN Fault ELSE UNCHANGED faults
  /\ Stall(r, TRUE)
  /\ runs' = [runs EXCEPT ![r].live = FALSE]
  /\ UNCHANGED <<background, runtime, proc, leases, stale>>

Elapse(r) ==
  /\ runs[r].late
  /\ runs' = [runs EXCEPT ![r].late = FALSE]
  /\ UNCHANGED <<background, runtime, proc, leases, faults, stalls, stale>>

-----------------------------------------------------------------------------
(* The system.                                                             *)

Request(p) ==
  \E r \in Runs : CreateRun(p, r) \/ ResumeRun(p, r) \/ CancelInactive(p, r)

Sweep(p) ==
  \E r \in Runs : MarkExpired(p, r) \/ FinalizeCancelled(p, r)

(* what a process does next with what it has begun, faults apart           *)
Continue(p) ==
  \/ PointRuntime(p) \/ HandOver(p) \/ ClaimRun(p) \/ EstablishFence(p)
  \/ Relinquish(p) \/ Accept(p) \/ RequeueUnheard(p) \/ Leave(p) \/ LeaveFailed(p)
  \/ \E st \in Terminal \cup Resumable :
       Finish(p, st) \/ RecordOwnFailure(p, st) \/ RecordLateFailure(p, st)
  \/ Yield(p) \/ Park(p) \/ Clear(p)

Disturb(p) ==
  \/ FenceFails(p) \/ Defer(p) \/ DispatchFails(p) \/ ExecutionError(p) \/ Crash(p)
  \/ \E st \in {"failed", "cancelled"} : Reject(p, st)
  \/ \E q \in Processes : LoseResponse(p, q)

Next ==
  \/ \E p \in Processes :
       \/ Request(p) \/ Sweep(p) \/ Continue(p) \/ Disturb(p)
       \/ \E r \in Runs : LeaseNext(p, r)
       \/ WriteRuntime(p) \/ Renew(p) \/ ObserveLoss(p)
  \/ \E r \in Runs :
       \/ RequeueRecoverable(r) \/ RequestCancellation(r) \/ MarkAbandoned(r)
       \/ LapseLease(r) \/ Elapse(r)

Spec == Init /\ [][Next]_vars

(* Processes finish what they began, the runner leases, heartbeats beat,   *)
(* the sweep runs, time passes.  Nothing is assumed of users or of faults. *)
Fairness ==
  /\ \A p \in Processes : /\ WF_vars(Continue(p))
                          /\ WF_vars(Renew(p))
                          /\ WF_vars(ObserveLoss(p) /\ UNCHANGED faults)
  /\ \A r \in Runs :
       /\ SF_vars(\E p \in Processes : LeaseNext(p, r))
       /\ SF_vars(\E p \in Processes : MarkExpired(p, r))
       /\ SF_vars(\E p \in Processes : FinalizeCancelled(p, r))
       /\ WF_vars(MarkAbandoned(r) /\ UNCHANGED faults)
       /\ WF_vars(LapseLease(r) /\ UNCHANGED <<faults, stalls>>)
       /\ WF_vars(Elapse(r))

FairSpec == Spec /\ Fairness

-----------------------------------------------------------------------------
(* Properties.                                                             *)

RunType ==
  [status : Status, key : BOOLEAN, lease : Nat, live : BOOLEAN,
   cancel : BOOLEAN, tries : Nat, late : BOOLEAN]

PC ==
  {"idle", "point", "claim", "fence", "refence", "relinquish", "surrender",
   "dispatch", "unheard", "execute", "ended", "failing", "refused", "yield",
   "park", "clear"}

ProcType ==
  [pc : PC, run : 0 .. MaxRuns, owner : Nat, valid : BOOLEAN, stopped : BOOLEAN]

(* The shape of the documents and of what a process keeps; the lease field *)
(* is set exactly while the status is running, whichever operation wrote   *)
(* it last.                                                                *)
TypeOK ==
  /\ background \in BOOLEAN
  /\ runs \in [Runs -> RunType]
  /\ runtime \in [run : 0 .. MaxRuns, owner : Nat, snapshot : Nat]
  /\ proc \in [Processes -> ProcType]
  /\ leases \in Nat /\ faults \in Nat /\ stalls \in Nat /\ stale \in Nat
  /\ \A r \in Runs : runs[r].status = "running" <=> ~Unleased(r)

Active(r) == runs[r].status \notin Terminal \cup {"none"}

(* A conversation never has two runs that are not over: whatever mix of    *)
(* requests, executors, stops and sweeps, active_key is held by every run  *)
(* that may still execute, so that the unique index admits no second one.  *)
(* It is true of what is written under a lease, under the key, or by a     *)
(* sweep; EndedNotResumed is about the write that needs none of these.     *)
OneActiveRun ==
  stale = 0 => \A r, s \in Runs : Active(r) /\ Active(s) => r = s

(* A runtime write goes through only for the execution that holds the      *)
(* lease, once such an execution is under way: a stale executor, of the    *)
(* same run or of an earlier one, cannot overwrite what its successor owns *)
(* (the promise of updateRuntimeProjectContextSnapshot).  Like             *)
(* OneActiveRun it needs that no status was written under onlyIfUnleased:  *)
(* a run that is over and queued again meets the one created after it.     *)
Executing(q) == proc[q].pc = "execute" /\ Owns(q)

OnlyHolderWrites ==
  [][stale = 0 /\ runtime'.snapshot # runtime.snapshot =>
       \A q \in Processes : Executing(q) => proc[q].owner = runtime'.snapshot]_vars

(* A run that is queued or running is one that still holds active_key, so  *)
(* a run that is over is not resumed: the resume route answers "Cannot     *)
(* resume a terminal Agent Run".                                           *)
EndedNotResumed ==
  \A r \in Runs : runs[r].status \in {"queued", "running"} => runs[r].key

(* A stop is honoured: a run whose cancellation was requested is over in   *)
(* the end, whether its executor is alive, dead, stalled or not yet there, *)
(* unless a status is written under onlyIfUnleased, which may undo it.     *)
CancelEnds ==
  \A r \in Runs : runs[r].cancel ~> (runs[r].status \in Terminal \/ stale > 0)

(* A queued or running run does not stay so: it is executed to an end or   *)
(* a wait, or becomes recoverable, even when its executor was fenced out   *)
(* by a late second write and left without a word.                         *)
RunSettles ==
  \A r \in Runs : runs[r].status \in {"queued", "running"} ~>
                    \/ runs[r].status \notin {"queued", "running"}
                    \/ runs[r].status = "queued" /\ leases = MaxLeases
=============================================================================
