----------------------------- MODULE TeamTasks -----------------------------
(***************************************************************************)
(* The tasks of an Agent team: the ledger that Root and its delegates edit *)
(* (lib/agent-team/service.ts), the scheduler that turns the next ready    *)
(* task of an idle member into a run (lib/agent-team/orchestrator.ts), and *)
(* the part of the member executor and of the recovery sweep that moves    *)
(* tasks and runs (lib/agent-runtime/member-executor.ts and                *)
(* team-recovery.ts).                                                      *)
(*                                                                         *)
(* There are no transactions: a scheduler reads a task, creates a run and  *)
(* only then claims the task by a compare-and-swap on its updated_at; an   *)
(* update of the ledger reads the task and the dependency graph, and later *)
(* compares the one task it writes.  updated_at is represented by what it  *)
(* is compared for: whether a reader's copy is still fresh.                *)
(***************************************************************************)
EXTENDS Integers, FiniteSets

CONSTANTS
    MaxTasks,        \* tasks are numbered in the order of their creation
    TeamMembers,     \* the member Agents (Root owns no task)
    Schedulers,      \* calls of scheduleNextAgentTask in flight
    Editors,         \* tool calls of Root or of a delegate in flight
    MaxCommands,     \* bound: tool calls and messages
    MaxTaskCrashes   \* bound: executors and schedulers that die

ASSUME TaskAssumption ==
    MaxTasks \in Nat \ {0} /\ MaxCommands \in Nat /\ MaxTaskCrashes \in Nat

TeamTaskIds == 1..MaxTasks

VARIABLES
    tstatus,    \* AgentTask.status, "absent" before its creation
    tmanual,    \* waiting_kind = 'manual'
    tdeps,      \* dependency_task_ids
    towner,     \* assigned_agent_id
    astatus,    \* TeamAgent.status
    rstate,     \* the run that holds the member session's active_key
    rtask,      \* its task_id: empty for a run started by a message
    rplace,     \* where the executor of the member stands
    rctx,       \* context.task of the executor
    rfence,     \* the executor still holds its session and slot leases
    rtool,      \* the run's current_action is a team tool whose command was applied
    splace, smember, stask, sseen, sfresh, smine,   \* a scheduler
    eplace, emember, edit, efresh,                  \* an editor
    commands, taskCrashes

ledgerVars   == <<tstatus, tmanual, tdeps, towner>>
runVars      == <<rstate, rtask>>
executorVars == <<rplace, rctx, rfence, rtool>>
schedVars    == <<splace, smember, stask, sseen>>
editorVars   == <<eplace, emember, edit>>
boundVars    == <<commands, taskCrashes>>
teamTaskVars == <<ledgerVars, astatus, runVars, executorVars, schedVars, sfresh, smine,
                  editorVars, efresh, boundVars>>

TaskStates == {"absent", "queued", "running", "waiting", "submitted", "accepted", "rework",
               "failed", "cancelled"}
TerminalTask == {"accepted", "failed", "cancelled"}
Editable     == {"queued", "waiting", "rework"}

NoEdit == [task |-> 0]
Edits  == [task: TeamTaskIds, status: TaskStates, manual: BOOLEAN, owner: TeamMembers,
           deps: SUBSET TeamTaskIds]

TeamTaskTypeOK ==
    /\ tstatus \in [TeamTaskIds -> TaskStates] /\ tmanual \in [TeamTaskIds -> BOOLEAN]
    /\ tdeps \in [TeamTaskIds -> SUBSET TeamTaskIds] /\ towner \in [TeamTaskIds -> TeamMembers]
    /\ \A t \in TeamTaskIds : tmanual[t] => tstatus[t] = "waiting"
    /\ astatus \in [TeamMembers -> {"idle", "running", "paused", "completed", "failed"}]
    /\ rstate \in [TeamMembers -> {"none", "queued", "running", "cancelling", "recoverable"}]
    /\ rtask \in [TeamMembers -> SUBSET TeamTaskIds]
    /\ rplace \in [TeamMembers -> {"none", "start", "turn", "submit", "close", "fail",
                                   "end"}]
    /\ rctx \in [TeamMembers -> SUBSET TeamTaskIds] /\ rfence \in [TeamMembers -> BOOLEAN]
    /\ rtool \in [TeamMembers -> BOOLEAN]
    /\ splace \in [Schedulers -> {"idle", "chosen", "created", "retire"}]
    /\ smember \in [Schedulers -> TeamMembers] /\ stask \in [Schedulers -> SUBSET TeamTaskIds]
    /\ sseen \in [Schedulers -> TaskStates]
    /\ sfresh \in [Schedulers -> BOOLEAN] /\ smine \in [Schedulers -> BOOLEAN]
    /\ eplace \in [Editors -> {"idle", "decided", "cancelled", "interrupt", "close",
                               "interrupted", "closed"}]
    /\ emember \in [Editors -> TeamMembers] /\ edit \in [Editors -> Edits \cup {NoEdit}]
    /\ efresh \in [Editors -> BOOLEAN]
    /\ commands \in 0..MaxCommands /\ taskCrashes \in 0..MaxTaskCrashes

TeamTaskInit ==
    /\ tstatus = [t \in TeamTaskIds |-> "absent"] /\ tmanual = [t \in TeamTaskIds |-> FALSE]
    /\ tdeps = [t \in TeamTaskIds |-> {}]
    /\ \E m \in TeamMembers : towner = [t \in TeamTaskIds |-> m]
    /\ astatus = [m \in TeamMembers |-> "idle"]
    /\ rstate = [m \in TeamMembers |-> "none"] /\ rtask = [m \in TeamMembers |-> {}]
    /\ rplace = [m \in TeamMembers |-> "none"] /\ rctx = [m \in TeamMembers |-> {}]
    /\ rfence = [m \in TeamMembers |-> TRUE] /\ rtool = [m \in TeamMembers |-> FALSE]
    /\ splace = [s \in Schedulers |-> "idle"] /\ stask = [s \in Schedulers |-> {}]
    /\ smember = [s \in Schedulers |-> CHOOSE m \in TeamMembers : TRUE]
    /\ sseen = [s \in Schedulers |-> "queued"]
    /\ sfresh = [s \in Schedulers |-> FALSE] /\ smine = [s \in Schedulers |-> FALSE]
    /\ eplace = [e \in Editors |-> "idle"] /\ edit = [e \in Editors |-> NoEdit]
    /\ emember = [e \in Editors |-> CHOOSE m \in TeamMembers : TRUE]
    /\ efresh = [e \in Editors |-> FALSE]
    /\ commands = 0 /\ taskCrashes = 0

-----------------------------------------------------------------------------
(* Writes. *)

(* A write to a task moves its updated_at: every copy read before is stale. *)
Touch(ts) ==
    /\ sfresh' = [s \in Schedulers |-> sfresh[s] /\ stask[s] \cap ts = {}]
    /\ efresh' = [e \in Editors |-> efresh[e] /\ edit[e].task \notin ts]

(* The tasks ts are put in status st, a wait of theirs is over. *)
SetStatus(ts, st) ==
    /\ tstatus' = [t \in TeamTaskIds |-> IF t \in ts THEN st ELSE tstatus[t]]
    /\ tmanual' = [t \in TeamTaskIds |-> tmanual[t] /\ t \notin ts]
    /\ UNCHANGED <<tdeps, towner>>
    /\ Touch(ts)

LeaveTasks == UNCHANGED <<ledgerVars, sfresh, efresh>>

(* The run of member m is terminal: its active_key is free for another. *)
EndRun(m) ==
    /\ rstate' = [rstate EXCEPT ![m] = "none"]
    /\ rtask' = [rtask EXCEPT ![m] = {}]
    /\ smine' = [s \in Schedulers |-> smine[s] /\ smember[s] # m]

(* requestAgentSessionRunCancellation: a running run is only asked to stop. *)
RequestCancellation(m) ==
    CASE rstate[m] \in {"queued", "recoverable"} -> EndRun(m)
      [] rstate[m] = "running" -> rstate' = [rstate EXCEPT ![m] = "cancelling"] /\ UNCHANGED <<rtask, smine>>
      [] OTHER -> UNCHANGED <<runVars, smine>>

Command == commands < MaxCommands /\ commands' = commands + 1 /\ UNCHANGED taskCrashes

-----------------------------------------------------------------------------
(* The ledger: AssignAgentTask, TaskUpdate, ReviewAgentResult, ManageAgent. *)

DependenciesAccepted(t) == \A d \in tdeps[t] : tstatus[d] = "accepted"

(* assignTask: dependencies are tasks of the team that exist already. *)
AssignTask(m, D) ==
    LET t == Cardinality({u \in TeamTaskIds : tstatus[u] # "absent"}) + 1
    IN  /\ t \in TeamTaskIds /\ astatus[m] # "completed" /\ D \subseteq 1..(t - 1)
        /\ tstatus' = [tstatus EXCEPT ![t] = "queued"]
        /\ towner' = [towner EXCEPT ![t] = m]
        /\ tdeps' = [tdeps EXCEPT ![t] = D]
        /\ Command
        /\ UNCHANGED <<tmanual, astatus, runVars, executorVars, schedVars, sfresh, smine,
                       editorVars, efresh>>

(* TASK_UPDATE_TRANSITIONS. *)
TaskTransitions ==
    [st \in TaskStates |->
        CASE st \in {"queued", "running"} -> {"waiting", "cancelled"}
          [] st = "waiting"   -> {"queued", "cancelled"}
          [] st = "submitted" -> {"accepted", "rework", "cancelled"}
          [] st = "rework"    -> {"queued", "waiting", "cancelled"}
          [] OTHER -> {}]

StatusEdits(t) ==
    {[task |-> t, status |-> st, manual |-> st = "waiting", owner |-> towner[t], deps |-> tdeps[t]] :
        st \in (TaskTransitions[tstatus[t]] \cup {tstatus[t]}) \ {"running", "submitted"}}

(* Every task reachable from D along dependencies. *)
ReachableFrom(D) ==
    LET Onward(S) == S \cup UNION {tdeps[d] : d \in S}
        closure[n \in 0..MaxTasks] == IF n = 0 THEN D ELSE Onward(closure[n - 1])
    IN  closure[MaxTasks]

(* An unmet dependency parks the task, a met one brings it back, unless its owner
   has put it in a manual wait. *)
StatusWith(t, D) ==
    LET unmet == \E d \in D : tstatus[d] # "accepted"
    IN  CASE ~tmanual[t] /\ unmet -> "waiting"
          [] ~tmanual[t] /\ ~unmet /\ tstatus[t] = "waiting" -> "queued"
          [] OTHER -> tstatus[t]

(* The graph of dependencies stays free of cycles. *)
DependencyEdits(t) ==
    {[task |-> t, owner |-> towner[t], deps |-> D, manual |-> tmanual[t], status |-> StatusWith(t, D)] :
        D \in {S \in SUBSET {u \in TeamTaskIds : tstatus[u] # "absent"} : t \notin ReachableFrom(S)}}

OwnerEdits(t) ==
    {[task |-> t, owner |-> m, deps |-> tdeps[t], status |-> "queued", manual |-> FALSE] :
        m \in {n \in TeamMembers : astatus[n] \notin {"completed", "failed"}} \ {towner[t]}}

(* updateTask up to its command: it checks the transition and the graph it has read. *)
UpdateRead(e, t) ==
    /\ eplace[e] = "idle" /\ tstatus[t] \notin TerminalTask \cup {"absent"}
    /\ \E u \in StatusEdits(t) \cup (IF tstatus[t] \in Editable
                                     THEN DependencyEdits(t) \cup OwnerEdits(t) ELSE {}) :
        edit' = [edit EXCEPT ![e] = u]
    /\ eplace' = [eplace EXCEPT ![e] = "decided"]
    /\ efresh' = [efresh EXCEPT ![e] = TRUE]
    /\ Command
    /\ UNCHANGED <<ledgerVars, astatus, runVars, executorVars, schedVars, sfresh, smine, emember>>

(* The compare-and-swap of updateTask: the task, and only the task, is as it was read. *)
EditApplies(e) == efresh[e]

UpdateWrite(e) ==
    /\ eplace[e] = "decided"
    /\ IF EditApplies(e)
       THEN LET u == edit[e]
            IN  /\ tstatus' = [tstatus EXCEPT ![u.task] = u.status]
                /\ tmanual' = [tmanual EXCEPT ![u.task] = u.manual]
                /\ towner' = [towner EXCEPT ![u.task] = u.owner]
                /\ tdeps' = [tdeps EXCEPT ![u.task] = u.deps]
                /\ Touch({u.task})
                /\ eplace' = [eplace EXCEPT ![e] = IF u.status = "cancelled" THEN "cancelled" ELSE "idle"]
                /\ edit' = IF u.status = "cancelled" THEN edit ELSE [edit EXCEPT ![e] = NoEdit]
       ELSE /\ eplace' = [eplace EXCEPT ![e] = "idle"] /\ edit' = [edit EXCEPT ![e] = NoEdit]
            /\ LeaveTasks
    /\ UNCHANGED <<astatus, runVars, executorVars, schedVars, smine, emember, boundVars>>

(* finishAppliedCommand of a cancellation: the run of the task is asked to stop. *)
CancelRunOfTask(e) ==
    /\ eplace[e] = "cancelled"
    /\ LET m == towner[edit[e].task]
       IN  IF rtask[m] = {edit[e].task} THEN RequestCancellation(m) ELSE UNCHANGED <<runVars, smine>>
    /\ eplace' = [eplace EXCEPT ![e] = "idle"] /\ edit' = [edit EXCEPT ![e] = NoEdit]
    /\ UNCHANGED <<ledgerVars, astatus, executorVars, schedVars, sfresh, emember, efresh, boundVars>>

(* reviewResult: only the submission that is current when it is written is decided. *)
ReviewResult(t, decision) ==
    /\ tstatus[t] = "submitted" /\ decision \in {"accepted", "rework"}
    /\ SetStatus({t}, decision) /\ Command
    /\ UNCHANGED <<astatus, runVars, executorVars, schedVars, smine, editorVars>>

(* manageAgent: the agent first, then its leases and run, then its tasks. *)
ManageAgent(e, m) ==
    /\ eplace[e] = "idle" /\ emember' = [emember EXCEPT ![e] = m]
    /\ \/ /\ astatus[m] \in {"running", "idle", "paused"}
          /\ astatus' = [astatus EXCEPT ![m] = "paused"]
          /\ eplace' = [eplace EXCEPT ![e] = "interrupt"]
       \/ /\ astatus' = [astatus EXCEPT ![m] = "completed"]
          /\ eplace' = [eplace EXCEPT ![e] = "close"]
    /\ Command
    /\ UNCHANGED <<ledgerVars, runVars, executorVars, schedVars, sfresh, smine, edit, efresh>>

(* revokeAgentExecutionLeases and requestAgentSessionRunCancellation. *)
RevokeAgent(e) ==
    /\ eplace[e] \in {"interrupt", "close"}
    /\ rfence' = [rfence EXCEPT ![emember[e]] = FALSE]
    /\ RequestCancellation(emember[e])
    /\ eplace' = [eplace EXCEPT ![e] = IF eplace[e] = "interrupt" THEN "interrupted" ELSE "closed"]
    /\ UNCHANGED <<ledgerVars, astatus, rplace, rctx, rtool, schedVars, sfresh, emember, edit, efresh, boundVars>>

SettleTasksOfAgent(e) ==
    LET Of(sts) == {t \in TeamTaskIds : towner[t] = emember[e] /\ tstatus[t] \in sts}
    IN  /\ \/ eplace[e] = "interrupted" /\ SetStatus(Of({"running"}), "rework")
           \/ eplace[e] = "closed" /\ SetStatus(Of({"queued", "running", "waiting", "rework"}), "cancelled")
        /\ eplace' = [eplace EXCEPT ![e] = "idle"]
        /\ UNCHANGED <<astatus, runVars, executorVars, schedVars, smine, emember, edit, boundVars>>

(* A reopened agent has a new session: a run left over in the old one is not of it. *)
ReopenAgent(m) ==
    /\ astatus[m] \in {"completed", "failed", "paused"} /\ rplace[m] = "none"
    /\ astatus' = [astatus EXCEPT ![m] = "idle"]
    /\ EndRun(m) /\ Command
    /\ UNCHANGED <<ledgerVars, executorVars, schedVars, sfresh, editorVars, efresh>>

-----------------------------------------------------------------------------
(* The scheduler. *)

CandidatesQueued(m) == {t \in TeamTaskIds : towner[t] = m /\ tstatus[t] = "queued"}
Candidates(m) ==
    {t \in TeamTaskIds : /\ towner[t] = m
                         /\ \/ tstatus[t] \in {"queued", "rework"}
                            \/ tstatus[t] = "waiting" /\ ~tmanual[t]}

Schedulable(m) == astatus[m] \in {"idle", "running"}

(* scheduleNextAgentTask up to the run: the oldest candidate whose dependencies are
   accepted; those met before it are parked.  A message linked to a task looks at
   that task only. *)
ScheduleBegin(s, m, among) ==
    LET ready  == {t \in among : DependenciesAccepted(t)}
        Before == {t \in among : tstatus[t] # "waiting" /\ \A u \in ready : t < u}
    IN  /\ splace[s] = "idle" /\ Schedulable(m) /\ rstate[m] = "none" /\ among # {}
        /\ tstatus' = [t \in TeamTaskIds |-> IF t \in Before THEN "waiting" ELSE tstatus[t]]
        /\ efresh' = [e \in Editors |-> efresh[e] /\ edit[e].task \notin Before]
        /\ UNCHANGED <<tmanual, tdeps, towner>>
        /\ IF ready = {}
           THEN sfresh' = [z \in Schedulers |-> sfresh[z] /\ stask[z] \cap Before = {}]
                /\ UNCHANGED <<schedVars, smine>>
           ELSE LET t == CHOOSE u \in ready : \A v \in ready : u <= v
                IN  /\ splace' = [splace EXCEPT ![s] = "chosen"]
                    /\ smember' = [smember EXCEPT ![s] = m]
                    /\ stask' = [stask EXCEPT ![s] = {t}]
                    /\ sseen' = [sseen EXCEPT ![s] = tstatus[t]]
                    /\ sfresh' = [z \in Schedulers |-> z = s \/ (sfresh[z] /\ stask[z] \cap Before = {})]
                    /\ smine' = [smine EXCEPT ![s] = FALSE]
        /\ UNCHANGED <<astatus, runVars, executorVars, editorVars, boundVars>>

StopScheduling(s) ==
    /\ splace' = [splace EXCEPT ![s] = "idle"] /\ stask' = [stask EXCEPT ![s] = {}]
    /\ UNCHANGED <<smember, sseen>>

(* createAgentRun: refused while another run of the session is active. *)
CreateTaskRun(s) ==
    LET m == smember[s]
    IN  /\ splace[s] = "chosen"
        /\ IF rstate[m] = "none"
           THEN /\ rstate' = [rstate EXCEPT ![m] = "queued"]
                /\ rtask' = [rtask EXCEPT ![m] = stask[s]]
                /\ smine' = [smine EXCEPT ![s] = TRUE]
                /\ splace' = [splace EXCEPT ![s] = "created"] /\ UNCHANGED <<smember, stask, sseen>>
           ELSE UNCHANGED <<runVars, smine>> /\ StopScheduling(s)
        /\ LeaveTasks
        /\ UNCHANGED <<astatus, executorVars, editorVars, boundVars>>

(* The claim of the task: nothing has written it since it was chosen. *)
ClaimAppliesStatus(s) ==
    \A t \in stask[s] : tstatus[t] = sseen[s] /\ towner[t] = smember[s]
ClaimApplies(s) == sfresh[s]

ClaimTask(s) ==
    /\ splace[s] = "created"
    /\ IF ClaimApplies(s)
       THEN SetStatus(stask[s], "running") /\ StopScheduling(s)
       ELSE LeaveTasks /\ splace' = [splace EXCEPT ![s] = "retire"] /\ UNCHANGED <<smember, stask, sseen>>
    /\ UNCHANGED <<astatus, runVars, executorVars, smine, editorVars, boundVars>>

(* cancelInactiveAgentRun, or a request to the executor that already has the run. *)
RetireRun(s) ==
    /\ splace[s] = "retire"
    /\ IF smine[s] THEN RequestCancellation(smember[s]) ELSE UNCHANGED <<runVars, smine>>
    /\ StopScheduling(s)
    /\ LeaveTasks
    /\ UNCHANGED <<astatus, executorVars, editorVars, boundVars>>

(* wakeMemberForMailbox on a task in a manual wait: back into the queue. *)
ResumeByMessage(t) ==
    /\ tstatus[t] = "waiting" /\ tmanual[t] /\ Schedulable(towner[t])
    /\ SetStatus({t}, "queued") /\ Command
    /\ UNCHANGED <<astatus, runVars, executorVars, schedVars, smine, editorVars>>

(* wakeMemberForMailbox: a recoverable run is resumed; without an active run there is a
   new one, for no task. *)
WakeMember(m) ==
    /\ Schedulable(m) /\ rstate[m] \in {"none", "recoverable"}
    /\ rstate' = [rstate EXCEPT ![m] = "queued"] /\ Command
    /\ LeaveTasks
    /\ UNCHANGED <<astatus, rtask, executorVars, schedVars, smine, editorVars>>

-----------------------------------------------------------------------------
(* The run of a member: the runner, its executor and the recovery sweep. *)

(* The runner claims the run and the two leases; the run of an agent that may not
   execute is terminalized. *)
StartRun(m) ==
    /\ rstate[m] = "queued" /\ rplace[m] = "none"
    /\ IF Schedulable(m)
       THEN /\ rstate' = [rstate EXCEPT ![m] = "running"]
            /\ astatus' = [astatus EXCEPT ![m] = "running"]
            /\ rplace' = [rplace EXCEPT ![m] = "start"]
            /\ rfence' = [rfence EXCEPT ![m] = TRUE]
            /\ UNCHANGED <<rtask, rctx, rtool, smine>>
       ELSE EndRun(m) /\ UNCHANGED <<astatus, executorVars>>
    /\ LeaveTasks
    /\ UNCHANGED <<schedVars, editorVars, boundVars>>

(* validateMemberExecutionFences: an executor whose run was asked to stop has lost its
   fences as well. *)
Fenced(m) == rfence[m] /\ rstate[m] # "cancelling"

(* loadMemberRuntime: the run of a task that is not running for this agent is stale; it
   fails, and teamAgentStatusAfterRun fails the agent with it.  A run cut inside a team
   tool whose command was applied is completed instead. *)
LoadRun(m) ==
    LET mine == {t \in TeamTaskIds : towner[t] = m /\ tstatus[t] = "running"}
    IN  /\ rplace[m] = "start" /\ Fenced(m)
        /\ IF rtask[m] \subseteq mine
           THEN /\ \E ctx \in (IF rtask[m] # {} THEN {rtask[m]}
                                ELSE IF mine = {} THEN {{}} ELSE {{t} : t \in mine}) :
                      rctx' = [rctx EXCEPT ![m] = ctx]
                /\ rplace' = [rplace EXCEPT ![m] = "turn"]
                /\ UNCHANGED <<runVars, smine, astatus>>
           ELSE /\ EndRun(m)
                /\ rplace' = [rplace EXCEPT ![m] = "end"]
                /\ astatus' = [astatus EXCEPT ![m] = IF @ = "running" /\ ~rtool[m] THEN "failed" ELSE @]
                /\ UNCHANGED rctx
        /\ rtool' = [rtool EXCEPT ![m] = FALSE]
        /\ LeaveTasks
        /\ UNCHANGED <<rfence, schedVars, editorVars, boundVars>>

SubmittableAny(t) == TRUE
Submittable(t) == tstatus[t] \notin TerminalTask

(* submitResult, as the turn ends or as a tool: a task in a wait keeps it. *)
ReadForSubmit(m) ==
    /\ rplace[m] = "turn" /\ Fenced(m)
    /\ rplace' = [rplace EXCEPT ![m] =
          IF \E t \in rctx[m] : Submittable(t) /\ tstatus[t] # "waiting" THEN "submit" ELSE "close"]
    /\ LeaveTasks
    /\ UNCHANGED <<astatus, runVars, rctx, rfence, rtool, schedVars, smine, editorVars, boundVars>>

(* The write is filtered on the status alone, and comes after the last look at the fence. *)
SubmitTask(m) ==
    /\ rplace[m] = "submit"
    /\ \E outcome \in {"submitted", "failed"} : SetStatus({t \in rctx[m] : Submittable(t)}, outcome)
    /\ rplace' = [rplace EXCEPT ![m] = "close"]
    /\ UNCHANGED <<astatus, runVars, rctx, rfence, rtool, schedVars, smine, editorVars, boundVars>>

(* setRunStatus: the run is over, by its end or an error.  It asks for the lease of the
   run, which neither the revocation of the team's leases nor a request to stop takes. *)
FinishRun(m, place) ==
    /\ EndRun(m)
    /\ rplace' = [rplace EXCEPT ![m] = place]
    /\ LeaveTasks
    /\ UNCHANGED <<astatus, rctx, rfence, rtool, schedVars, editorVars, boundVars>>

CompleteRun(m) == rplace[m] = "close" /\ FinishRun(m, "end")
FailRun(m)     == rplace[m] \in {"turn", "close"} /\ FinishRun(m, "fail")

(* markTaskFailed. *)
MarkTaskFailed(m) ==
    /\ rplace[m] = "fail"
    /\ SetStatus({t \in rctx[m] : tstatus[t] \in {"queued", "running", "waiting", "rework"}}, "failed")
    /\ astatus' = [astatus EXCEPT ![m] = "failed"]
    /\ rplace' = [rplace EXCEPT ![m] = "end"]
    /\ UNCHANGED <<runVars, rctx, rfence, rtool, schedVars, smine, editorVars, boundVars>>

(* The runner releases the leases. *)
ReleaseLeases(m) ==
    /\ rplace[m] = "end"
    /\ astatus' = [astatus EXCEPT ![m] = IF @ = "running" THEN "idle" ELSE @]
    /\ rplace' = [rplace EXCEPT ![m] = "none"] /\ rctx' = [rctx EXCEPT ![m] = {}]
    /\ LeaveTasks
    /\ UNCHANGED <<runVars, rfence, rtool, schedVars, smine, editorVars, boundVars>>

(* The executor of a run that was asked to stop finds its fences lost and leaves the run
   and its task as they are; the runner still holds the leases. *)
StopRun(m) ==
    /\ rplace[m] \in {"start", "turn", "close"} /\ rfence[m] /\ ~Fenced(m)
    /\ rplace' = [rplace EXCEPT ![m] = "end"]
    /\ LeaveTasks
    /\ UNCHANGED <<astatus, runVars, rctx, rfence, rtool, schedVars, smine, editorVars, boundVars>>

(* The executor leaves, without its fence or with its process. *)
LeaveRun(m) ==
    /\ rplace' = [rplace EXCEPT ![m] = "none"] /\ rctx' = [rctx EXCEPT ![m] = {}]
    /\ LeaveTasks
    /\ UNCHANGED <<astatus, runVars, rfence, schedVars, smine, editorVars>>

DetachRun(m) ==
    /\ rplace[m] \in {"start", "turn", "close"} /\ ~rfence[m]
    /\ LeaveRun(m) /\ UNCHANGED <<rtool, boundVars>>

CrashExecutor(m) ==
    /\ rplace[m] # "none" /\ taskCrashes < MaxTaskCrashes
    /\ taskCrashes' = taskCrashes + 1 /\ UNCHANGED commands
    /\ \E byTool \in (IF rplace[m] = "close" THEN BOOLEAN ELSE {FALSE}) : rtool' = [rtool EXCEPT ![m] = byTool]
    /\ LeaveRun(m)

(* processInterrupted: the executor itself leaves its run recoverable. *)
InterruptProcess(m) ==
    /\ rplace[m] \in {"turn", "close"} /\ taskCrashes < MaxTaskCrashes
    /\ taskCrashes' = taskCrashes + 1 /\ UNCHANGED commands
    /\ rstate' = [rstate EXCEPT ![m] = IF @ = "running" THEN "recoverable" ELSE @]
    /\ rplace' = [rplace EXCEPT ![m] = "end"]
    /\ LeaveTasks
    /\ UNCHANGED <<astatus, rtask, rctx, rfence, rtool, schedVars, smine, editorVars>>

CrashScheduler(s) ==
    /\ splace[s] # "idle" /\ taskCrashes < MaxTaskCrashes
    /\ taskCrashes' = taskCrashes + 1 /\ UNCHANGED commands
    /\ StopScheduling(s) /\ LeaveTasks
    /\ UNCHANGED <<astatus, runVars, executorVars, smine, editorVars>>

(* The sweeps of expired leases: a run nobody executes is recoverable, or cancelled if it
   was asked to stop; the agent that was running is idle. *)
ExpireRun(m) ==
    /\ rplace[m] = "none" /\ (rstate[m] \in {"running", "cancelling"} \/ astatus[m] = "running")
    /\ CASE rstate[m] = "running"    -> rstate' = [rstate EXCEPT ![m] = "recoverable"] /\ UNCHANGED <<rtask, smine>>
         [] rstate[m] = "cancelling" -> EndRun(m)
         [] OTHER                    -> UNCHANGED <<runVars, smine>>
    /\ astatus' = [astatus EXCEPT ![m] = IF @ = "running" THEN "idle" ELSE @]
    /\ LeaveTasks
    /\ UNCHANGED <<executorVars, schedVars, editorVars, boundVars>>

(* repairRunnableMemberWork: a recoverable run whose task may still run. *)
TaskRunnable(m) ==
    \A t \in rtask[m] : towner[t] = m /\ tstatus[t] \in {"queued", "running", "waiting", "rework"}

RequeueRun(m) ==
    /\ rstate[m] = "recoverable" /\ astatus[m] = "idle" /\ rplace[m] = "none" /\ TaskRunnable(m)
    /\ rstate' = [rstate EXCEPT ![m] = "queued"]
    /\ LeaveTasks
    /\ UNCHANGED <<astatus, rtask, executorVars, schedVars, smine, editorVars, boundVars>>

-----------------------------------------------------------------------------
RunProgress(m) ==
    \/ StartRun(m) \/ LoadRun(m) \/ ReadForSubmit(m) \/ SubmitTask(m) \/ CompleteRun(m)
    \/ MarkTaskFailed(m) \/ ReleaseLeases(m) \/ StopRun(m) \/ DetachRun(m)
    \/ ExpireRun(m) \/ RequeueRun(m)

TeamTaskNext ==
    \/ \E m \in TeamMembers : \/ \E D \in SUBSET TeamTaskIds : AssignTask(m, D)
                             \/ ReopenAgent(m)
                             \/ WakeMember(m)
                             \/ RunProgress(m) \/ FailRun(m)
                             \/ CrashExecutor(m) \/ InterruptProcess(m)
    \/ \E t \in TeamTaskIds : \/ \E decision \in {"accepted", "rework"} : ReviewResult(t, decision)
                             \/ ResumeByMessage(t)
    \/ \E e \in Editors : \/ \E t \in TeamTaskIds : UpdateRead(e, t)
                         \/ UpdateWrite(e) \/ CancelRunOfTask(e)
                         \/ \E m \in TeamMembers : ManageAgent(e, m)
                         \/ RevokeAgent(e) \/ SettleTasksOfAgent(e)
    \/ \E s \in Schedulers : \/ \E m \in TeamMembers :
                                  \/ ScheduleBegin(s, m, Candidates(m))
                                  \/ \E t \in Candidates(m) : ScheduleBegin(s, m, {t})
                            \/ CreateTaskRun(s) \/ ClaimTask(s) \/ RetireRun(s) \/ CrashScheduler(s)

TeamTaskSpec == TeamTaskInit /\ [][TeamTaskNext]_teamTaskVars

(* The runner polls, the recovery sweep calls the scheduler for every idle agent, calls in
   flight return, and a turn of the model ends. *)
TeamTaskFairness ==
    /\ \A m \in TeamMembers :
          /\ WF_teamTaskVars(\E s \in Schedulers : ScheduleBegin(s, m, Candidates(m)))
          /\ WF_teamTaskVars(RunProgress(m))
    /\ \A s \in Schedulers : WF_teamTaskVars(CreateTaskRun(s) \/ ClaimTask(s) \/ RetireRun(s))

FairTeamTaskSpec == TeamTaskSpec /\ TeamTaskFairness

-----------------------------------------------------------------------------
(* A task runs only when every task it depends on is accepted, although the scheduler
   looks at the dependencies two steps before it claims the task and an editor may
   change them in between (scheduleNextAgentTask, updateTask). *)
RunningMeetsDependencies ==
    \A t \in TeamTaskIds : tstatus[t] = "running" => DependenciesAccepted(t)

(* An accepted, failed or cancelled task is never reopened, whatever a scheduler, a late
   executor or an edit decided before still writes. *)
TerminalTaskFinal ==
    [][\A t \in TeamTaskIds : tstatus[t] \in TerminalTask => tstatus'[t] = tstatus[t]]_teamTaskVars

(* A task that could run does not wait for ever while its agent is in service: it is
   started, or is no longer ready, or the agent goes out of service.  The one exception
   is an agent whose session a dead executor's run keeps, when the task of that run may
   not run any more: the sweep of team-recovery.ts passes such a run over. *)
TaskReady(t) ==
    /\ tstatus[t] \in {"queued", "rework"} \/ (tstatus[t] = "waiting" /\ ~tmanual[t])
    /\ DependenciesAccepted(t) /\ Schedulable(towner[t])
SessionHeld(m) == rstate[m] = "recoverable" /\ ~TaskRunnable(m)
ReadyTaskRuns ==
    \A t \in TeamTaskIds : TaskReady(t) ~> (~TaskReady(t) \/ SessionHeld(towner[t]))

(* No task waits, through its dependencies, for itself: updateTask refuses an edit that
   "would create a cycle". *)
DependenciesAcyclic == \A t \in TeamTaskIds : t \notin ReachableFrom(tdeps[t])

(* A running task has a run, or an executor or a scheduler that still has to act on it. *)
RunningTaskHasRun ==
    \A t \in TeamTaskIds :
        tstatus[t] = "running" ~> (tstatus[t] # "running" \/ rtask[towner[t]] = {t})
=============================================================================
