------------------------------- MODULE MCTeam -------------------------------
(* The components of an Agent team side by side on small instances: one of   *)
(* those in Scopes moves, as chosen at the start, and the others stay where   *)
(* they begin.                                                               *)
EXTENDS TeamLeases, ExecutionBudget, TeamTasks, TeamSupervision

CONSTANTS Leases, Budget, Tasks, Supervision, Scopes

VARIABLE scope

teamScopeVars == <<scope, leaseVars, budgetVars, teamTaskVars, supervisionVars>>

TeamInit ==
    /\ scope \in Scopes
    /\ LeaseInit /\ BudgetInit /\ TeamTaskInit /\ SupervisionInit

TeamNext ==
    /\ UNCHANGED scope
    /\ \/ /\ scope = Leases /\ LeaseNext
          /\ UNCHANGED <<budgetVars, teamTaskVars, supervisionVars>>
       \/ /\ scope = Budget /\ BudgetNext
          /\ UNCHANGED <<leaseVars, teamTaskVars, supervisionVars>>
       \/ /\ scope = Tasks /\ TeamTaskNext
          /\ UNCHANGED <<leaseVars, budgetVars, supervisionVars>>
       \/ /\ scope = Supervision /\ SupervisionNext
          /\ UNCHANGED <<leaseVars, budgetVars, teamTaskVars>>

(* The fairness of the components, of the one that moves. *)
LeaseFair ==
    /\ \A t \in Tickets :
          /\ WF_leaseVars(scope = Leases /\ AcquireStep(t))
          /\ WF_leaseVars(scope = Leases /\ ExecuteStep(t))
          /\ WF_leaseVars(scope = Leases /\ ReleaseSlot(t))
          /\ WF_leaseVars(scope = Leases /\ Released(t))
          /\ WF_leaseVars(scope = Leases /\ ReleaseSession(t))
          /\ WF_leaseVars(scope = Leases /\ ReleaseAgent(t))
    /\ \A r \in TeamRuns :
          /\ WF_leaseVars(scope = Leases /\ ExpireRunLease(r))
          /\ WF_leaseVars(scope = Leases /\ RequeueMemberRun(r))
    /\ \A s \in Slots :
          /\ WF_leaseVars(scope = Leases /\ ExpireSlot(s))
          /\ WF_leaseVars(scope = Leases /\ RecoverSlot(s))
    /\ \A s \in Sessions :
          /\ WF_leaseVars(scope = Leases /\ ExpireSession(s))
          /\ WF_leaseVars(scope = Leases /\ RecoverSession(s))
          /\ WF_leaseVars(scope = Leases /\ RecoverAgent(s))

(* Where the run has three executions, the third only replays a call that    *)
(* the first has made and reported, while the sweep still holds the          *)
(* reservation of the first and the second is past the check of its fence.   *)
LateReplay ==
    current = 3 =>
        /\ <<AnyCall, 1>> \in telemetry /\ \A e \in Executions : tried[e] \subseteq {AnyCall}
        /\ stage[1] = "idle"
        /\ stage[2] \in {"idle", "start", "calling", "settle", "count", "report", "close"}
        /\ tried[3] = {} => held[Sweep].owner = 1 /\ held[2].attempt = 2
        /\ held[Sweep].owner = 1 \/ stage[2] \in {"start", "calling", "settle"}

BudgetFair ==
    /\ \A c \in Calls : SF_budgetVars(scope = Budget /\ SweepRead(c))
    /\ WF_budgetVars(scope = Budget /\ SweepJudge)
    /\ WF_budgetVars(scope = Budget /\ Undo(Sweep))

TaskFair ==
    /\ \A m \in TeamMembers :
          /\ WF_teamTaskVars(scope = Tasks
                             /\ \E s \in Schedulers : ScheduleBegin(s, m, Candidates(m)))
          /\ WF_teamTaskVars(scope = Tasks /\ RunProgress(m))
    /\ \A s \in Schedulers :
          WF_teamTaskVars(scope = Tasks /\ (CreateTaskRun(s) \/ ClaimTask(s) \/ RetireRun(s)))

TeamSpec   == TeamInit /\ [][TeamNext]_teamScopeVars
SharesSpec == TeamSpec /\ LeaseFair /\ BudgetFair
TasksSpec  == TeamSpec /\ TaskFair

TeamTypeOK == LeaseTypeOK /\ BudgetTypeOK /\ TeamTaskTypeOK /\ SupervisionTypeOK

(* What a team shares comes back: slots, sessions and agents of executors    *)
(* that are gone, and reservations whose holder will not use them.           *)
SharesRecovered == DeadLeasesFreed /\ StaleCleared
=============================================================================
