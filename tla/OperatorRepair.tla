---------------------------- MODULE OperatorRepair ----------------------------
(* The operator's command that prepares a durable compaction for a           *)
(* conversation no run can work on any more. Who may run, what the context   *)
(* is and which job owns it are different documents: the command reads them  *)
(* one after the other, installs its job, whose presence keeps runs from     *)
(* starting, and then reads them all again. Runs, the workers of jobs and    *)
(* the administrators of models go on meanwhile. RepairPrefix says which     *)
(* prefix of the history it chooses.                                         *)
EXTENDS Integers, SequencesExt

CONSTANTS
    Operators,      \* commands, by whoever gives them
    Attempts,       \* repair attempts: the fresh part of an idempotency key
    MaxRepairRuns,  \* bound on the runs
    MaxRevision,    \* bound on the revisions of the context
    MaxRepairJobs,  \* bound on the jobs
    MaxChanges      \* bound on what administrators change

ASSUME RepairAssumption == MaxRevision \in Nat \ {0}

VARIABLES
    conv,      \* the conversation: revision, which replacement it is, its fence
    authority, \* the Root agent's generation and the model's frozen resolution
    agentRun,  \* the run of the conversation, and how far it got
    pointer,   \* the conversation runtime names a run
    repairJobs, \* the jobs of the conversation, in the order of their creation
    op,        \* each command: where it is, what it planned and what it saw
    runsMade

repairVars == <<conv, authority, agentRun, pointer, repairJobs, op, runsMade>>

NoPlan == [rev |-> 0, base |-> 0, who |-> 0]
Unseen == [rev |-> 0, base |-> 0, fence |-> FALSE, pointer |-> FALSE, who |-> 0]
Fresh  == [at |-> "idle", pass |-> "none", mode |-> "none", attempt |-> 0, plan |-> NoPlan,
           seen |-> Unseen, job |-> 0, result |-> "none"]

RepairInit ==
    /\ conv = [rev |-> 1, base |-> 0, fence |-> FALSE]
    /\ authority = 1
    /\ agentRun = "none"
    /\ pointer = FALSE
    /\ repairJobs = <<>>
    /\ op = [o \in Operators |-> Fresh]
    /\ runsMade = 0

-----------------------------------------------------------------------------
ActiveJob == {j \in DOMAIN repairJobs : repairJobs[j].active}

(* A run is active from its creation until its document is terminal; the     *)
(* pointer of the runtime is set after the one and cleared after the other.  *)
ActiveRun == agentRun \in {"created", "queued", "leased", "working"}

StartRun ==
    /\ agentRun = "none" /\ runsMade < MaxRepairRuns
    /\ agentRun' = "created"
    /\ runsMade' = runsMade + 1
    /\ UNCHANGED <<conv, authority, pointer, repairJobs, op>>

NameRun ==
    /\ agentRun = "created"
    /\ agentRun' = "queued"
    /\ pointer' = TRUE
    /\ UNCHANGED <<conv, authority, repairJobs, op, runsMade>>

LeaseRun ==
    /\ agentRun = "queued"
    /\ agentRun' = "leased"
    /\ UNCHANGED <<conv, authority, pointer, repairJobs, op, runsMade>>

(* The barrier, before the executor works: an active job sends the run back  *)
(* to the queue; a job that ended, even in failure, lets it through.         *)
MayWorkUndue == \A j \in ActiveJob : ~repairJobs[j].due
MayWork == ActiveJob = {}

InspectBarrier ==
    /\ agentRun = "leased"
    /\ agentRun' = IF MayWork THEN "working" ELSE "queued"
    /\ UNCHANGED <<conv, authority, pointer, repairJobs, op, runsMade>>

AppendTurn ==
    /\ agentRun = "working" /\ conv.rev < MaxRevision
    /\ conv' = [conv EXCEPT !.rev = @ + 1]
    /\ UNCHANGED <<authority, agentRun, pointer, repairJobs, op, runsMade>>

(* The run replaces the context itself, or leaves that to a job of its own,  *)
(* which freezes all of it.                                                  *)
CompactInRun ==
    /\ agentRun = "working" /\ ~conv.fence /\ conv.rev < MaxRevision
    /\ conv' = [conv EXCEPT !.rev = @ + 1, !.base = @ + 1]
    /\ UNCHANGED <<authority, agentRun, pointer, repairJobs, op, runsMade>>

NewJob(key, plan) ==
    [keys |-> {key}, status |-> "queued", active |-> TRUE, due |-> FALSE,
     rev |-> conv.rev, base |-> plan.base, part |-> plan.rev, who |-> plan.who]

LeaveToJob ==
    /\ agentRun = "working" /\ ActiveJob = {} /\ Len(repairJobs) < MaxRepairJobs
    /\ repairJobs' = Append(repairJobs,
                       NewJob(<<0, conv.rev, conv.base>>,
                              [rev |-> 0, base |-> conv.base, who |-> authority]))
    /\ UNCHANGED <<conv, authority, agentRun, pointer, op, runsMade>>

EndRun ==
    /\ agentRun \in {"queued", "leased", "working"}
    /\ agentRun' = "ended"
    /\ UNCHANGED <<conv, authority, pointer, repairJobs, op, runsMade>>

ClearPointer ==
    /\ agentRun = "ended"
    /\ agentRun' = "none"
    /\ pointer' = FALSE
    /\ UNCHANGED <<conv, authority, repairJobs, op, runsMade>>

(* A new generation of the Root agent, or another mapping of its model.      *)
ChangeAuthority ==
    /\ authority <= MaxChanges
    /\ authority' = authority + 1
    /\ UNCHANGED <<conv, agentRun, pointer, repairJobs, op, runsMade>>

-----------------------------------------------------------------------------
(* The workers of jobs, as far as the command can tell.                      *)
Elsewhere == <<authority, agentRun, pointer, op, runsMade>>

BecomeClaimable(j) ==
    /\ repairJobs[j].status = "queued" /\ ~repairJobs[j].due
    /\ repairJobs' = [repairJobs EXCEPT ![j].due = TRUE]
    /\ UNCHANGED <<conv, Elsewhere>>

ClaimJob(j) ==
    /\ repairJobs[j].status = "queued" /\ repairJobs[j].due
    /\ repairJobs' = [repairJobs EXCEPT ![j].status = "leased"]
    /\ UNCHANGED <<conv, Elsewhere>>

FenceContext(j) ==
    /\ repairJobs[j].status = "leased" /\ ~conv.fence
    /\ conv' = [conv EXCEPT !.fence = TRUE]
    /\ UNCHANGED <<repairJobs, Elsewhere>>

Ended(j, status) == [repairJobs EXCEPT ![j].status = status, ![j].active = FALSE]

EndJob(j) ==
    /\ repairJobs[j].status = "leased" /\ conv.fence
    /\ IF repairJobs[j].base = conv.base /\ conv.rev < MaxRevision
       THEN /\ conv' = [rev |-> conv.rev + 1, base |-> conv.base + 1, fence |-> FALSE]
            /\ repairJobs' = Ended(j, "merged")
       ELSE /\ conv' = [conv EXCEPT !.fence = FALSE]
            /\ repairJobs' = Ended(j, "failed")
    /\ UNCHANGED Elsewhere

-----------------------------------------------------------------------------
Step(o, at) == op' = [op EXCEPT ![o].at = at]
End(o, result) ==
    op' = [op EXCEPT ![o] = [Fresh EXCEPT !.at = "done", !.job = op[o].job, !.result = result]]
World == <<conv, authority, agentRun, pointer, repairJobs, runsMade>>

(* --dry-run, --prepare with the attempt a dry run has given, --activate.    *)
GiveCommand(o) ==
    /\ op[o].at = "idle"
    /\ \/ \E mode \in {"dry-run", "prepare"}, a \in Attempts :
             op' = [op EXCEPT ![o] = [Fresh EXCEPT !.at = "conversation", !.pass = "plan",
                                                   !.mode = mode, !.attempt = a]]
       \/ \E j \in DOMAIN repairJobs :
             op' = [op EXCEPT ![o] = [Fresh EXCEPT !.at = "conversation", !.pass = "activate",
                                                   !.mode = "activate", !.job = j]]
    /\ UNCHANGED World

(* loadAuthorizedProject: one read after the other.                          *)
ReadConversation(o) ==
    /\ op[o].at = "conversation"
    /\ op' = [op EXCEPT ![o].at = "runtime", ![o].seen.rev = conv.rev,
                        ![o].seen.base = conv.base, ![o].seen.fence = conv.fence]
    /\ UNCHANGED World

ReadRuntime(o) ==
    /\ op[o].at = "runtime"
    /\ op' = [op EXCEPT ![o].at = "authority", ![o].seen.pointer = pointer]
    /\ UNCHANGED World

(* Activation is refused at once if the model of the job is another now.     *)
ReadAuthority(o) ==
    /\ op[o].at = "authority"
    /\ IF op[o].pass = "activate" /\ repairJobs[op[o].job].who # authority
       THEN End(o, "refused")
       ELSE op' = [op EXCEPT ![o].at = "run", ![o].seen.who = authority]
    /\ UNCHANGED World

(* assertQuiescentRepairAuthority: what was read before, and then the active *)
(* run, or the pointer a run has left or is about to lease.                  *)
Quiescent(o) == ~op[o].seen.fence /\ ~op[o].seen.pointer /\ ~ActiveRun /\ ~pointer

Unchanged(o) == [f \in {"rev", "base", "who"} |-> op[o].seen[f]] = op[o].plan

CheckAuthority(o) ==
    /\ op[o].at = "run"
    /\ CASE op[o].pass = "verify" ->
              IF Quiescent(o) /\ Unchanged(o) THEN End(o, "prepared") ELSE Step(o, "rollback")
         [] op[o].pass # "verify" ->
              IF Quiescent(o) THEN Step(o, "job") ELSE End(o, "refused")
    /\ UNCHANGED World

Key(o) == <<op[o].attempt, op[o].seen.rev, op[o].seen.base>>

Unclaimed(job) == job.status = "queued"

(* The same intent again: this key, this prefix, this model, not claimed.    *)
Exact(job, key, plan) ==
    /\ key \in job.keys /\ Unclaimed(job)
    /\ job.rev = plan.rev /\ job.base = plan.base /\ job.part = plan.rev /\ job.who = plan.who

Seen(o) == [rev |-> op[o].seen.rev, base |-> op[o].seen.base, who |-> op[o].seen.who]

CheckActiveJob(o) ==
    /\ op[o].at = "job" /\ op[o].pass = "plan"
    /\ CASE \E j \in ActiveJob : ~Exact(repairJobs[j], Key(o), Seen(o)) -> End(o, "refused")
         [] op[o].mode = "dry-run" /\ \A j \in ActiveJob : Exact(repairJobs[j], Key(o), Seen(o)) ->
              End(o, "reported")
         [] OTHER -> op' = [op EXCEPT ![o].at = "enqueue", ![o].plan = Seen(o), ![o].seen = Unseen]
    /\ UNCHANGED World

(* enqueueDurableCompaction: a job that knows the key is returned, whatever  *)
(* became of it; a prefix the context no longer starts with is refused.      *)
PlanKey(o) == <<op[o].attempt, op[o].plan.rev, op[o].plan.base>>

Prior(o) == {j \in DOMAIN repairJobs : PlanKey(o) \in repairJobs[j].keys}

(* Nothing but the exact, active, unclaimed job is the command's own.        *)
Verify(o, j, jobs) ==
    IF jobs[j].active /\ Exact(jobs[j], PlanKey(o), op[o].plan)
    THEN op' = [op EXCEPT ![o].at = "conversation", ![o].pass = "verify", ![o].job = j,
                          ![o].seen = Unseen]
    ELSE End(o, "manual")

FindPrior(o) ==
    /\ op[o].at = "enqueue"
    /\ \/ \E j \in Prior(o) : Verify(o, j, repairJobs)
       \/ Prior(o) = {} /\ conv.base # op[o].plan.base /\ End(o, "refused")
       \/ Prior(o) = {} /\ conv.base = op[o].plan.base
          /\ op' = [op EXCEPT ![o].at = "create", ![o].seen.rev = conv.rev]
    /\ UNCHANGED World

(* The unique key of the active job decides a race: the loser joins it.      *)
CreateJob(o) ==
    /\ op[o].at = "create"
    /\ IF ActiveJob = {} /\ Prior(o) = {}
       THEN /\ Len(repairJobs) < MaxRepairJobs
            /\ repairJobs' = Append(repairJobs,
                               [NewJob(PlanKey(o), op[o].plan) EXCEPT !.rev = op[o].seen.rev])
            /\ Verify(o, Len(repairJobs) + 1, repairJobs')
       ELSE \E j \in Prior(o) \union ActiveJob :
              /\ repairJobs' = [repairJobs EXCEPT ![j].keys = @ \union {PlanKey(o)}]
              /\ Verify(o, j, repairJobs')
    /\ UNCHANGED <<conv, authority, agentRun, pointer, runsMade>>

CreateFails(o) == op[o].at = "create" /\ End(o, "failed") /\ UNCHANGED World

(* The command takes back its own job only while nobody has claimed it.      *)
Cancellable(job) == job.active /\ Unclaimed(job)

RollBack(o) ==
    /\ op[o].at = "rollback"
    /\ LET j == op[o].job
       IN  IF Cancellable(repairJobs[j])
           THEN repairJobs' = Ended(j, "cancelled") /\ End(o, "rolled back")
           ELSE /\ UNCHANGED repairJobs
                /\ End(o, IF repairJobs[j].status = "cancelled" THEN "rolled back" ELSE "manual")
    /\ UNCHANGED <<conv, authority, agentRun, pointer, runsMade>>

(* An error of the database, before or after the cancellation.               *)
RollBackFails(o) ==
    /\ op[o].at = "rollback"
    /\ \/ UNCHANGED repairJobs
       \/ Cancellable(repairJobs[op[o].job]) /\ repairJobs' = Ended(op[o].job, "cancelled")
    /\ End(o, "manual")
    /\ UNCHANGED <<conv, authority, agentRun, pointer, runsMade>>

CheckOwnJob(o) ==
    /\ op[o].at = "job" /\ op[o].pass = "activate"
    /\ IF op[o].job \in ActiveJob /\ Unclaimed(repairJobs[op[o].job])
       THEN Step(o, "activate") ELSE End(o, "refused")
    /\ UNCHANGED World

(* Claimable at once, or already so; a claim meanwhile wins.                 *)
Activate(o) ==
    /\ op[o].at = "activate"
    /\ IF Cancellable(repairJobs[op[o].job])
       THEN repairJobs' = [repairJobs EXCEPT ![op[o].job].due = TRUE] /\ End(o, "activated")
       ELSE End(o, "manual") /\ UNCHANGED repairJobs
    /\ UNCHANGED <<conv, authority, agentRun, pointer, runsMade>>

Command(o) ==
    \/ GiveCommand(o) \/ ReadConversation(o) \/ ReadRuntime(o) \/ ReadAuthority(o)
    \/ CheckAuthority(o) \/ CheckActiveJob(o) \/ FindPrior(o) \/ CreateJob(o)
    \/ CreateFails(o) \/ RollBack(o) \/ RollBackFails(o) \/ CheckOwnJob(o) \/ Activate(o)

RepairOver ==
    /\ \A o \in Operators : op[o].at = "done"
    /\ UNCHANGED repairVars

RepairNext ==
    \/ \E o \in Operators : Command(o)
    \/ \E j \in DOMAIN repairJobs :
          BecomeClaimable(j) \/ ClaimJob(j) \/ FenceContext(j) \/ EndJob(j)
    \/ StartRun \/ NameRun \/ LeaseRun \/ InspectBarrier \/ AppendTurn \/ CompactInRun
    \/ LeaveToJob \/ EndRun \/ ClearPointer \/ ChangeAuthority \/ RepairOver

RepairSpec == RepairInit /\ [][RepairNext]_repairVars

-----------------------------------------------------------------------------
RepairTypeOK ==
    /\ conv.rev \in 1..MaxRevision /\ conv.fence \in BOOLEAN
    /\ agentRun \in {"none", "created", "queued", "leased", "working", "ended"}
    /\ Cardinality(ActiveJob) <= 1
    /\ \A o \in Operators :
          /\ op[o].at \in {"idle", "conversation", "runtime", "authority", "run", "job",
                           "enqueue", "create", "rollback", "activate", "done"}
          /\ op[o].result \in {"none", "refused", "reported", "manual", "prepared",
                               "rolled back", "activated", "failed"}

(* As long as a prepared job stands, no run works on its context: those that *)
(* had passed the barrier before it was there are over.                      *)
PreparedWhileQuiet ==
    \A o \in Operators :
       op[o].result \in {"prepared", "activated"} /\ repairJobs[op[o].job].active
       => agentRun # "working"

(* A command that was rolled back leaves no barrier behind.                  *)
RolledBackGone ==
    \A o \in Operators : op[o].result = "rolled back" => ~repairJobs[op[o].job].active
=============================================================================
