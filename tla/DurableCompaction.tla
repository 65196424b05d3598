------------------------- MODULE DurableCompaction -------------------------
(***************************************************************************)
(* Durable compaction of one context owner (a Conversation or an           *)
(* AgentSession).  A run of the agent loop freezes a prefix of the active  *)
(* context as a CompactionJob; background workers summarise the prefix and *)
(* replace it by one message, while the run goes on appending turns.       *)
(*                                                                         *)
(* MongoDB runs without transactions: an action below is one document      *)
(* write (with the reads it is a compare-and-swap on), and everything that *)
(* spans two writes is two actions with a program counter between them.    *)
(*                                                                         *)
(* Time is modelled by what the code can see of it: a lease, a fence or a  *)
(* guard is live until its expiry passes, and a deadline is in the future  *)
(* until it elapses.  A heartbeat is the expiry not happening.  A write    *)
(* whose filter was built before an expiry and lands after it has the same *)
(* effect as one that lands first: nothing but another claim, fence or     *)
(* reap reads the expiry, and those change the token the filter names.     *)
(***************************************************************************)
EXTENDS Integers, Sequences

CONSTANTS
  Workers,      \* execution slots of all DurableCompactionWorkers
  MaxJobs,      \* bound: compaction jobs created for the owner
  MaxTurns,     \* bound: turns appended to the transcript
  MaxAttempts,  \* maxAttempts of processClaimedCompactionJob (5)
  MaxCas,       \* MAX_MERGE_CAS_ATTEMPTS (8)
  MaxEpoch,     \* bound: project-context epochs opened by runs
  MaxFaults,    \* bound: crashes, database errors, pauses longer than a lease
  MaxSyncs,     \* bound: synchronous compactions made by runs
  MayCancel,    \* whether commands cancel or supersede jobs
  MayDelete     \* whether the conversation may be deleted

ASSUME ConstantsAssumption ==
  /\ MaxJobs \in Nat
  /\ MaxTurns \in Nat
  /\ MaxAttempts \in Nat \ {0}
  /\ MaxCas \in Nat \ {0}
  /\ MaxEpoch \in Nat
  /\ MaxFaults \in Nat
  /\ MaxSyncs \in Nat
  /\ MayCancel \in BOOLEAN
  /\ MayDelete \in BOOLEAN

VARIABLES
  log,     \* number of turns in Conversation.messages, the full transcript
  owner,   \* the owner document: active context, revision, fence
  jobs,    \* the context_compaction_jobs collection
  rt,      \* ConversationRuntime: settlement marker, project-context epoch
  run,     \* the agent run that owns the context, if any
  wk,      \* the workers: program counter and what they hold in memory
  faults,  \* faults so far
  syncs,   \* synchronous compactions so far
  swaps    \* history: how often the prefix of a job has been replaced

vars == <<log, owner, jobs, rt, run, wk, faults, syncs, swaps>>

Jobs   == 1 .. MaxJobs
NoJob  == 0
NoLease == 0

ActiveStatus ==
  {"queued", "summarizing", "summary_ready", "merge_prepared", "retryable"}
CancelSafe == ActiveStatus \ {"merge_prepared"}
Terminal   == {"merged", "failed", "cancelled", "superseded"}
Status     == {"none", "deleted"} \cup ActiveStatus \cup Terminal

-----------------------------------------------------------------------------
(* A message stands for the turns lo..hi of the transcript: a turn for     *)
(* itself, a summary for every turn of the prefix it replaces.  Equality   *)
(* of messages is what hashCompactionMessages compares.                    *)
Message == [kind : {"turn", "durable", "sync"}, job : 0 .. MaxJobs,
            lo : Nat, hi : Nat]

Turn(n) == [kind |-> "turn", job |-> NoJob, lo |-> n, hi |-> n]

LastTurn(msgs) == IF msgs = <<>> THEN 0 ELSE msgs[Len(msgs)].hi

Summary(kind, j, msgs) ==
  [kind |-> kind, job |-> j, lo |-> msgs[1].lo, hi |-> LastTurn(msgs)]

Prefix(msgs, n) == SubSeq(msgs, 1, n)

NoFence == [job |-> NoJob, token |-> NoLease, live |-> FALSE]

FreshOwner == [live |-> TRUE, msgs |-> <<>>, rev |-> 0, last |-> NoJob,
               fence |-> NoFence]

NoRecord == [status |-> "none", active |-> FALSE, prefix |-> <<>>,
             rev |-> 0, lease |-> NoLease, leaseLive |-> FALSE,
             guard |-> "none", delayed |-> FALSE, summary |-> FALSE,
             replacement |-> FALSE, epoch |-> 0, settled |-> FALSE,
             attempt |-> 0]

IdleRun == [pc |-> "idle", job |-> NoJob, mem |-> <<>>, compacted |-> FALSE,
            failed |-> NoJob, epoch |-> 0]

IdleWorker == [pc |-> "idle", job |-> NoJob, token |-> NoLease, msgs |-> <<>>,
               rev |-> 0, tries |-> 0]

Init ==
  /\ log = 0
  /\ owner = FreshOwner
  /\ jobs = [j \in Jobs |-> NoRecord]
  /\ rt = [marker |-> NoJob, epoch |-> 0]
  /\ run = IdleRun
  /\ wk = [w \in Workers |-> IdleWorker]
  /\ faults = 0
  /\ syncs = 0
  /\ swaps = [j \in Jobs |-> 0]

-----------------------------------------------------------------------------
(* Filters shared by the commands of the repository.                       *)

Unleased(j)    == jobs[j].lease = NoLease
LeaseNotTaken(j) == Unleased(j)   \* mutant: no takeover
LeaseLapsed(j) == Unleased(j) \/ ~jobs[j].leaseLive
NoLiveGuard(j) == jobs[j].guard # "live"
NoActiveJob    == \A j \in Jobs : ~jobs[j].active

\* mutant: the job is found by its id alone
AnyLease(w) == wk[w].job \in Jobs

(* liveJobLeaseFilter: the job still carries this claim's token, unexpired *)
OwnsLease(w) ==
  /\ wk[w].job \in Jobs
  /\ jobs[wk[w].job].lease = wk[w].token
  /\ jobs[wk[w].job].leaseLive

Closed(j, st) ==
  [jobs EXCEPT ![j].status = st, ![j].active = FALSE, ![j].lease = NoLease,
               ![j].leaseLive = FALSE, ![j].guard = "none"]

FencedBy(j, t) == owner.fence.job = j /\ owner.fence.token = t

Unfenced(j, t) ==
  IF FencedBy(j, t) THEN [owner EXCEPT !.fence = NoFence] ELSE owner

(* the most recent job of the owner                                        *)
Created(j) == jobs[j].status \notin {"none", "deleted"}
Latest(j)  == Created(j) /\ \A i \in Jobs : Created(i) => i <= j

(* at most one: the most recent job, if it has failed                      *)
FailedLatest == {j \in Jobs : Latest(j) /\ jobs[j].status = "failed"}

Goto(w, pc) == wk' = [wk EXCEPT ![w].pc = pc]
GoIdle(w)   == wk' = [wk EXCEPT ![w] = IdleWorker]

(* a step that may be taken only while the budget of faults lasts          *)
Fault == faults < MaxFaults /\ faults' = faults + 1

-----------------------------------------------------------------------------
(* The run: the agent loop that owns the context between its admission and *)
(* its exit.  The admission barrier defers a run while a job is active.  A *)
(* run may open a project-context epoch, of which it keeps a copy.         *)

StartRun(fresh) ==
  /\ run.pc = "idle"
  /\ owner.live
  /\ NoActiveJob
  /\ fresh => rt.epoch < MaxEpoch
  /\ rt' = [rt EXCEPT !.epoch = IF fresh THEN @ + 1 ELSE @]
  /\ run' = [IdleRun EXCEPT
               !.pc = "running",
               !.mem = owner.msgs,
               !.epoch = rt'.epoch,
               !.failed = IF FailedLatest = {} THEN NoJob
                          ELSE CHOOSE j \in FailedLatest : TRUE]
  /\ UNCHANGED <<log, owner, jobs, wk, faults, syncs, swaps>>

(* appendConversationMessages: transcript and active context in one CAS    *)
Append1(pc) ==
  /\ log < MaxTurns
  /\ log' = log + 1
  /\ owner' = [owner EXCEPT !.msgs = Append(@, Turn(log + 1)), !.rev = @ + 1]
  /\ run' = [run EXCEPT !.mem = Append(@, Turn(log + 1)), !.pc = pc]

(* tool results, user input, and the turns of a run without a shadow       *)
AppendTurn ==
  /\ run.pc = "running"
  /\ Append1("running")
  /\ UNCHANGED <<jobs, rt, wk, faults, syncs, swaps>>

(* the delayed shadow: its active_key blocks new runs at once, its future  *)
(* deadline keeps workers away while the run summarises locally            *)
PrepareShadow(n) ==
  /\ run.pc = "running"
  /\ run.job = NoJob
  /\ n \in 1 .. Len(run.mem)
  /\ n <= Len(owner.msgs)
  /\ Prefix(owner.msgs, n) = Prefix(run.mem, n)
  /\ NoActiveJob
  /\ \E j \in Jobs :
       /\ jobs[j].status = "none"
       /\ \A i \in 1 .. (j - 1) : jobs[i].status # "none"
       /\ jobs' = [jobs EXCEPT ![j] =
                     [NoRecord EXCEPT !.status = "queued", !.active = TRUE,
                        !.prefix = Prefix(run.mem, n), !.rev = owner.rev,
                        !.delayed = TRUE]]
       /\ run' = [run EXCEPT !.job = j]
  /\ UNCHANGED <<log, owner, rt, wk, faults, syncs, swaps>>

(* before a model call the run fences its shadow against the workers; only *)
(* an unclaimed job whose deadline is still ahead can be guarded           *)
CanGuardAny(j) == jobs[j].delayed \/ jobs[j].summary   \* mutant

CanGuard(j) ==
  /\ jobs[j].status = "queued"
  /\ jobs[j].active
  /\ Unleased(j)
  /\ jobs[j].delayed
  /\ NoLiveGuard(j)

AcquireGuard ==
  /\ run.pc = "running"
  /\ run.job # NoJob
  /\ CanGuard(run.job)
  /\ jobs' = [jobs EXCEPT ![run.job].guard = "live"]
  /\ run' = [run EXCEPT !.pc = "turn"]
  /\ UNCHANGED <<log, owner, rt, wk, faults, syncs, swaps>>

(* the last heartbeat before the answer is persisted                       *)
GuardHeld ==
  /\ jobs[run.job].status = "queued"
  /\ Unleased(run.job)
  /\ jobs[run.job].guard = "live"

EnsureGuard ==
  /\ run.pc = "turn"
  /\ GuardHeld
  /\ run' = [run EXCEPT !.pc = "commit"]
  /\ UNCHANGED <<log, owner, jobs, rt, wk, faults, syncs, swaps>>

CommitTurn ==
  /\ run.pc = "commit"
  /\ Append1("release")
  /\ UNCHANGED <<jobs, rt, wk, faults, syncs, swaps>>

(* a provider error, or a refused heartbeat: the answer is not persisted   *)
DropTurn ==
  /\ run.pc \in {"turn", "commit"}
  /\ run' = [run EXCEPT !.pc = "release"]
  /\ UNCHANGED <<log, owner, jobs, rt, wk, faults, syncs, swaps>>

(* releaseSourceTurnCompactionGuard clears exactly the token it acquired;  *)
(* a claim has already removed it                                          *)
ReleaseGuard ==
  /\ run.pc = "release"
  /\ jobs' = [jobs EXCEPT ![run.job].guard = "none"]
  /\ run' = [run EXCEPT !.pc = "running"]
  /\ UNCHANGED <<log, owner, rt, wk, faults, syncs, swaps>>

(* the local summary is offered to the job, at most once, between turns    *)
CanOffer(j) ==
  /\ jobs[j].status = "queued"
  /\ jobs[j].active
  /\ Unleased(j)
  /\ NoLiveGuard(j)

OfferSummary ==
  /\ run.pc = "running"
  /\ run.job # NoJob
  /\ CanOffer(run.job)
  /\ jobs' = [jobs EXCEPT ![run.job].status = "summary_ready",
                          ![run.job].summary = TRUE,
                          ![run.job].delayed = FALSE,
                          ![run.job].guard = "none"]
  /\ UNCHANGED <<log, owner, rt, run, wk, faults, syncs, swaps>>

(* activateDurableCompactionJob                                            *)
Activated(j) ==
  IF /\ j # NoJob
     /\ jobs[j].active /\ jobs[j].status \in ActiveStatus
     /\ jobs[j].delayed
     /\ NoLiveGuard(j)
  THEN [jobs EXCEPT ![j].delayed = FALSE, ![j].guard = "none"]
  ELSE jobs

(* the loop meets a job that the workers own: it defers and throws         *)
PauseRun ==
  /\ run.pc = "running"
  /\ run.job # NoJob
  /\ jobs' = Activated(run.job)
  /\ run' = IdleRun
  /\ UNCHANGED <<log, owner, rt, wk, faults, syncs, swaps>>

(* normal end of the loop: finalizeHippocampus activates the shadow        *)
ExitLoop ==
  /\ run.pc = "running"
  /\ jobs' = Activated(run.job)
  /\ run' = [run EXCEPT !.pc = "exit"]
  /\ UNCHANGED <<log, owner, rt, wk, faults, syncs, swaps>>

(* then the executor saves: a run that has compacted writes the messages   *)
(* it holds in memory over the active context, whatever that has become    *)
FinishRun ==
  /\ run.pc = "exit"
  /\ owner' = IF run.compacted
              THEN [owner EXCEPT !.msgs = run.mem, !.rev = @ + 1]
              ELSE owner
  /\ run' = IdleRun
  /\ UNCHANGED <<log, jobs, rt, wk, faults, syncs, swaps>>

(* sync-fallback and 413: without a prepared job, the run itself compacts  *)
(* what it holds in memory, and opens an epoch with it ...                 *)
SyncCompact ==
  /\ run.pc = "running"
  /\ run.job = NoJob
  /\ run.mem # <<>>
  /\ syncs < MaxSyncs
  /\ syncs' = syncs + 1
  /\ rt' = [rt EXCEPT !.epoch = run.epoch + 1]
  /\ run' = [run EXCEPT !.pc = "replace",
                        !.mem = <<Summary("sync", NoJob, run.mem)>>,
                        !.compacted = TRUE,
                        !.epoch = run.epoch + 1]
  /\ UNCHANGED <<log, owner, jobs, wk, faults, swaps>>

(* ... and then replaces the whole context                                 *)
ReplaceContext ==
  /\ run.pc = "replace"
  /\ owner' = [owner EXCEPT !.msgs = run.mem, !.rev = owner.rev + 1]
  /\ run' = [run EXCEPT !.pc = IF run.failed = NoJob THEN "running"
                                                     ELSE "repaired"]
  /\ UNCHANGED <<log, jobs, rt, wk, faults, syncs, swaps>>

(* closeFailedCompactionAfterSynchronousRepair                             *)
CanClose(j) ==
  /\ j \in FailedLatest
  /\ NoActiveJob
  /\ owner.rev > jobs[j].rev
  /\ owner.msgs[1] = run.mem[1]

CloseFailed ==
  /\ run.pc = "repaired"
  /\ jobs' = IF CanClose(run.failed)
             THEN [jobs EXCEPT ![run.failed].status = "superseded"]
             ELSE jobs
  /\ run' = [run EXCEPT !.pc = "running", !.failed = NoJob]
  /\ UNCHANGED <<log, owner, rt, wk, faults, syncs, swaps>>

CrashRun ==
  /\ run.pc # "idle"
  /\ Fault
  /\ run' = IdleRun
  /\ UNCHANGED <<log, owner, jobs, rt, wk, syncs, swaps>>

-----------------------------------------------------------------------------
(* Workers: claimNextCompactionJob, then processClaimedCompactionJob.      *)

Claimable(j) ==
  /\ jobs[j].active
  /\ jobs[j].status \in ActiveStatus
  /\ ~jobs[j].delayed
  /\ LeaseLapsed(j)
  /\ NoLiveGuard(j)

Claim(w, j) ==
  /\ wk[w].pc = "idle"
  /\ Claimable(j)
  /\ jobs' = [jobs EXCEPT ![j].lease = jobs[j].attempt + 1,
                          ![j].leaseLive = TRUE,
                          ![j].attempt = @ + 1,
                          ![j].guard = "none"]
  /\ wk' = [wk EXCEPT ![w] = [IdleWorker EXCEPT !.pc = "claimed", !.job = j,
                                !.token = jobs[j].attempt + 1]]
  /\ UNCHANGED <<log, owner, rt, run, faults, syncs, swaps>>

(* establishContextCompactionFence reads the lease in one query ...        *)
ReadLease(w) ==
  /\ wk[w].pc = "claimed"
  /\ Goto(w, IF OwnsLease(w) THEN "fencing" ELSE "missing")
  /\ UNCHANGED <<log, owner, jobs, rt, run, faults, syncs, swaps>>

(* ... and installs the fence in the next, if the owner carries none that  *)
(* is live, or already this one                                            *)
CanFence(w) ==
  /\ owner.live
  /\ \/ ~owner.fence.live
     \/ FencedBy(wk[w].job, wk[w].token)

InstallFence(w) ==
  /\ wk[w].pc = "fencing"
  /\ IF CanFence(w)
     THEN /\ owner' = [owner EXCEPT !.fence = [job |-> wk[w].job,
                                               token |-> wk[w].token,
                                               live |-> TRUE]]
          /\ Goto(w, "work")
     ELSE /\ Goto(w, "missing")
          /\ UNCHANGED owner
  /\ UNCHANGED <<log, jobs, rt, run, faults, syncs, swaps>>

(* failCompactionJobForMissingOwner: an expired lease will do, as long as  *)
(* nobody has taken the job over                                           *)
OrphanOf(w) ==
  /\ ~owner.live
  /\ jobs[wk[w].job].status \in ActiveStatus
  /\ jobs[wk[w].job].lease = wk[w].token

FailMissing(w) ==
  /\ wk[w].pc = "missing"
  /\ jobs' = IF OrphanOf(w) THEN Closed(wk[w].job, "failed") ELSE jobs
  /\ GoIdle(w)
  /\ UNCHANGED <<log, owner, rt, run, faults, syncs, swaps>>

(* beginCompactionSummary; a job taken over while summarizing stays so     *)
BeginSummary(w) ==
  /\ wk[w].pc = "work"
  /\ OwnsLease(w)
  /\ ~jobs[wk[w].job].summary
  /\ jobs[wk[w].job].status \in {"queued", "retryable", "summarizing"}
  /\ jobs' = [jobs EXCEPT ![wk[w].job].status = "summarizing"]
  /\ Goto(w, "summarize")
  /\ UNCHANGED <<log, owner, rt, run, faults, syncs, swaps>>

SaveSummary(w) ==
  /\ wk[w].pc = "summarize"
  /\ OwnsLease(w)
  /\ jobs[wk[w].job].status = "summarizing"
  /\ jobs' = [jobs EXCEPT ![wk[w].job].status = "summary_ready",
                          ![wk[w].job].summary = TRUE]
  /\ Goto(w, "work")
  /\ UNCHANGED <<log, owner, rt, run, faults, syncs, swaps>>

(* prepareDurableMergeContext: the epoch of the merge is frozen once       *)
FreezeMergeContext(w) ==
  LET j == wk[w].job IN
  /\ wk[w].pc = "work"
  /\ OwnsLease(w)
  /\ jobs[j].summary
  /\ ~jobs[j].replacement
  /\ jobs[j].epoch = 0
  /\ jobs[j].status \in {"summary_ready", "retryable"}
  /\ jobs' = [jobs EXCEPT ![j].epoch = rt.epoch + 1]
  /\ UNCHANGED <<log, owner, rt, run, wk, faults, syncs, swaps>>

(* prepareCompactionMerge, or its replay for a job that had it already     *)
PrepareMerge(w) ==
  LET j == wk[w].job IN
  /\ wk[w].pc = "work"
  /\ OwnsLease(w)
  /\ jobs[j].summary
  /\ jobs[j].replacement \/ jobs[j].epoch # 0
  /\ jobs[j].status \in {"summary_ready", "retryable", "merge_prepared"}
  /\ jobs' = [jobs EXCEPT ![j].status = "merge_prepared",
                          ![j].replacement = TRUE]
  /\ Goto(w, "snapshot")
  /\ UNCHANGED <<log, owner, rt, run, faults, syncs, swaps>>

(* applyPreparedMergeToOwner, the reads of one attempt.  The attempts      *)
(* after the last one only ask whether the swap has happened after all.    *)
PrefixIntact(j, msgs) ==
  /\ Len(msgs) >= Len(jobs[j].prefix)
  /\ Prefix(msgs, Len(jobs[j].prefix)) = jobs[j].prefix

AttemptsLeftInclusive(w) == wk[w].tries <= MaxCas   \* mutant
AttemptsLeft(w) == wk[w].tries < MaxCas

ReadOwner(w) ==
  LET j == wk[w].job IN
  /\ wk[w].pc = "snapshot"
  /\ OwnsLease(w)
  /\ IF ~owner.live THEN Goto(w, "missing")
     ELSE IF owner.last = j THEN Goto(w, "settle")
     ELSE IF ~AttemptsLeft(w) \/ ~PrefixIntact(j, owner.msgs)
     THEN Goto(w, "conflict")
     ELSE wk' = [wk EXCEPT ![w].pc = "cas", ![w].msgs = owner.msgs,
                           ![w].rev = owner.rev, ![w].tries = @ + 1]
  /\ UNCHANGED <<log, owner, jobs, rt, run, faults, syncs, swaps>>

(* ... and its write: the revision read and an unexpired fence of this     *)
(* claim, or another attempt.  The lease is not looked at again.           *)
\* mutants: a filter on the fence alone, on neither of the two
CasMatchesFence(w) ==
  owner.live /\ FencedBy(wk[w].job, wk[w].token) /\ owner.fence.live
CasMatchesOwner(w) == owner.live

CasMatches(w) ==
  /\ owner.live
  /\ owner.rev = wk[w].rev
  /\ FencedBy(wk[w].job, wk[w].token)
  /\ owner.fence.live

MergedWithoutTail(j, msgs) == <<Summary("durable", j, jobs[j].prefix)>>   \* mutant

Merged(j, msgs) ==
  <<Summary("durable", j, jobs[j].prefix)>>
    \o SubSeq(msgs, Len(jobs[j].prefix) + 1, Len(msgs))

SwapContext(w) ==
  LET j == wk[w].job IN
  /\ wk[w].pc = "cas"
  /\ IF CasMatches(w)
     THEN /\ owner' = [owner EXCEPT !.msgs = Merged(j, wk[w].msgs),
                                    !.rev = @ + 1,
                                    !.last = j,
                                    !.fence = NoFence]
          /\ swaps' = [swaps EXCEPT ![j] = @ + 1]
          /\ wk' = [wk EXCEPT ![w] = [IdleWorker EXCEPT !.pc = "settle",
                                        !.job = j, !.token = wk[w].token]]
     ELSE /\ wk' = [wk EXCEPT ![w].pc = "snapshot", ![w].msgs = <<>>,
                              ![w].rev = 0]
          /\ UNCHANGED <<owner, swaps>>
  /\ UNCHANGED <<log, jobs, rt, run, faults, syncs>>

(* settleAppliedCompactionRuntime: read the lease and the owner ...        *)
ReadSettlement(w) ==
  LET j == wk[w].job IN
  /\ wk[w].pc = "settle"
  /\ OwnsLease(w)
  /\ IF jobs[j].settled THEN Goto(w, "finalize")
     ELSE IF owner.live /\ owner.last = j THEN Goto(w, "runtime")
     ELSE GoIdle(w)
  /\ UNCHANGED <<log, owner, jobs, rt, run, faults, syncs, swaps>>

(* ... reset the runtime once, never taking its epoch back ...             *)
\* mutants: the epoch is left as it is, the epoch is always overwritten
SettledCounters(j) == [rt EXCEPT !.marker = j]
SettledOverwriting(j) ==
  IF rt.marker = j THEN rt ELSE [marker |-> j, epoch |-> jobs[j].epoch]

SettledRuntime(j) ==
  IF rt.marker = j THEN rt
  ELSE [marker |-> j,
        epoch |-> IF rt.epoch <= jobs[j].epoch THEN jobs[j].epoch
                                               ELSE rt.epoch]

SettleRuntime(w) ==
  /\ wk[w].pc = "runtime"
  /\ rt' = SettledRuntime(wk[w].job)
  /\ Goto(w, "mark")
  /\ UNCHANGED <<log, owner, jobs, run, faults, syncs, swaps>>

(* ... and record in the job that it has been done                         *)
MarkSettled(w) ==
  LET j == wk[w].job IN
  /\ wk[w].pc = "mark"
  /\ OwnsLease(w)
  /\ IF rt.marker = j
     THEN /\ jobs' = [jobs EXCEPT ![j].settled = TRUE]
          /\ Goto(w, "finalize")
     ELSE /\ GoIdle(w)
          /\ UNCHANGED jobs
  /\ UNCHANGED <<log, owner, rt, run, faults, syncs, swaps>>

(* finalizeAppliedCompactionJob                                            *)
Converged(j) == owner.last = j /\ jobs[j].settled

Finalize(w) ==
  LET j == wk[w].job IN
  /\ wk[w].pc = "finalize"
  /\ OwnsLease(w)
  /\ IF ~owner.live THEN Goto(w, "missing") /\ UNCHANGED jobs
     ELSE IF Converged(j)
     THEN /\ jobs' = Closed(j, "merged")
          /\ Goto(w, "unfence")
     ELSE Goto(w, "conflict") /\ UNCHANGED jobs
  /\ UNCHANGED <<log, owner, rt, run, faults, syncs, swaps>>

(* failCompactionJob after a merge conflict                                *)
FailConflict(w) ==
  /\ wk[w].pc = "conflict"
  /\ OwnsLease(w)
  /\ jobs' = Closed(wk[w].job, "failed")
  /\ Goto(w, "unfence")
  /\ UNCHANGED <<log, owner, rt, run, faults, syncs, swaps>>

(* clearOwnerFence, the write after every transition that ends a claim     *)
ClearFence(w) ==
  /\ wk[w].pc = "unfence"
  /\ owner' = Unfenced(wk[w].job, wk[w].token)
  /\ GoIdle(w)
  /\ UNCHANGED <<log, jobs, rt, run, faults, syncs, swaps>>

(* heartbeatCompactionJob renews the lease and then, in a second write that*)
(* may be late, the fence: its token must match, its expiry need not be    *)
(* ahead                                                                   *)
RenewFence(w) ==
  /\ wk[w].pc \in {"work", "summarize", "snapshot", "cas"}
  /\ FencedBy(wk[w].job, wk[w].token)
  /\ ~owner.fence.live
  /\ owner' = [owner EXCEPT !.fence.live = TRUE]
  /\ UNCHANGED <<log, jobs, rt, run, wk, faults, syncs, swaps>>

(* a filter on the live lease no longer matches: the claim is abandoned    *)
LosesLease(w) ==
  /\ wk[w].pc \in {"work", "summarize", "snapshot", "settle", "mark",
                   "finalize", "conflict"}
  /\ ~OwnsLease(w)
  /\ GoIdle(w)
  /\ UNCHANGED <<log, owner, jobs, rt, run, faults, syncs, swaps>>

(* the catch of processClaimedCompactionJob: an error of the provider or   *)
(* of the database anywhere after the fence, an aborted summary            *)
Released(j) ==
  [jobs EXCEPT ![j].status = "retryable", ![j].lease = NoLease,
               ![j].leaseLive = FALSE, ![j].delayed = TRUE,
               ![j].guard = "none"]

Error(w, fatal) ==
  LET j == wk[w].job IN
  /\ wk[w].pc \in {"work", "summarize", "snapshot", "cas", "settle",
                   "runtime", "mark", "finalize", "conflict"}
  /\ fatal => wk[w].pc = "summarize"
  /\ Fault
  /\ IF OwnsLease(w)
     THEN /\ jobs' = IF fatal \/ jobs[j].attempt >= MaxAttempts
                     THEN Closed(j, "failed")
                     ELSE Released(j)
          /\ Goto(w, "unfence")
     ELSE /\ GoIdle(w)
          /\ UNCHANGED jobs
  /\ UNCHANGED <<log, owner, rt, run, syncs, swaps>>

(* stop() while the claim was in flight hands the job back at once         *)
StopAfterClaim(w) ==
  /\ wk[w].pc = "claimed"
  /\ OwnsLease(w)
  /\ Fault
  /\ jobs' = [Released(wk[w].job) EXCEPT ![wk[w].job].delayed = FALSE]
  /\ Goto(w, "unfence")
  /\ UNCHANGED <<log, owner, rt, run, syncs, swaps>>

CrashWorker(w) ==
  /\ wk[w].pc # "idle"
  /\ Fault
  /\ GoIdle(w)
  /\ UNCHANGED <<log, owner, jobs, rt, run, syncs, swaps>>

-----------------------------------------------------------------------------
(* Commands of other processes.  Each runs in a process of its own, for    *)
(* which a slot that is idle stands while it clears the owner's fence.     *)

(* cancelDurableCompactionJob, and supersede of an unclaimed shadow        *)
CanTerminate(j, st) ==
  /\ jobs[j].active
  /\ NoLiveGuard(j)
  /\ IF st = "superseded" THEN jobs[j].status = "queued" /\ Unleased(j)
                          ELSE jobs[j].status \in CancelSafe

Terminate(w, j, st) ==
  /\ MayCancel
  /\ wk[w].pc = "idle"
  /\ CanTerminate(j, st)
  /\ jobs' = Closed(j, st)
  /\ wk' = IF Unleased(j) THEN wk
           ELSE [wk EXCEPT ![w] = [IdleWorker EXCEPT !.pc = "unfence",
                                     !.job = j, !.token = jobs[j].lease]]
  /\ UNCHANGED <<log, owner, rt, run, faults, syncs, swaps>>

(* the project is deleted: the conversation first, then what belongs to it *)
DeleteOwner ==
  /\ MayDelete
  /\ run.pc = "idle"
  /\ owner.live
  /\ owner' = [FreshOwner EXCEPT !.live = FALSE]
  /\ UNCHANGED <<log, jobs, rt, run, wk, faults, syncs, swaps>>

DeleteJobs ==
  /\ ~owner.live
  /\ \E j \in Jobs : Created(j)
  /\ jobs' = [j \in Jobs |->
                IF jobs[j].status = "none" THEN NoRecord
                ELSE [NoRecord EXCEPT !.status = "deleted"]]
  /\ UNCHANGED <<log, owner, rt, run, wk, faults, syncs, swaps>>

-----------------------------------------------------------------------------
(* Time.  A holder renews what it holds, so that an expiry under it is a   *)
(* fault: a missed heartbeat, a pause, a lost write.  An expiry of what a  *)
(* dead holder left behind is only a matter of time.  The fence copies the *)
(* expiry of a lease, which is renewed before it and followed by later     *)
(* ones: a lease that lapses while the owner carries a live fence is a     *)
(* skew of clocks, hence a fault too.                                      *)

Holds(w, j, t) == wk[w].pc # "idle" /\ wk[w].job = j /\ wk[w].token = t

Lapse(held) == IF held THEN Fault ELSE UNCHANGED faults

LapseLease(j) ==
  /\ jobs[j].leaseLive
  /\ Lapse(owner.fence.live \/ \E w \in Workers : Holds(w, j, jobs[j].lease))
  /\ jobs' = [jobs EXCEPT ![j].leaseLive = FALSE]
  /\ UNCHANGED <<log, owner, rt, run, wk, syncs, swaps>>

LapseFence ==
  /\ owner.fence.live
  /\ Lapse(\E w \in Workers : Holds(w, owner.fence.job, owner.fence.token))
  /\ owner' = [owner EXCEPT !.fence.live = FALSE]
  /\ UNCHANGED <<log, jobs, rt, run, wk, syncs, swaps>>

LapseGuard(j) ==
  /\ jobs[j].guard = "live"
  /\ Lapse(run.job = j)
  /\ jobs' = [jobs EXCEPT ![j].guard = "expired"]
  /\ UNCHANGED <<log, owner, rt, run, wk, syncs, swaps>>

(* the deadline of a shadow, or the backoff of a retry                     *)
Elapse(j) ==
  /\ jobs[j].delayed
  /\ jobs[j].status \in ActiveStatus
  /\ jobs' = [jobs EXCEPT ![j].delayed = FALSE]
  /\ UNCHANGED <<log, owner, rt, run, wk, faults, syncs, swaps>>

(* clearExpiredContextCompactionFences, at the start of every pump         *)
\* mutant: only the fences of jobs that are still active
ReapableOfActive ==
  owner.fence # NoFence /\ ~owner.fence.live /\ jobs[owner.fence.job].active
Reapable == owner.fence # NoFence /\ ~owner.fence.live

ReapFence ==
  /\ Reapable
  /\ owner' = [owner EXCEPT !.fence = NoFence]
  /\ UNCHANGED <<log, jobs, rt, run, wk, faults, syncs, swaps>>

-----------------------------------------------------------------------------

RunGuarded == EnsureGuard \/ CommitTurn \/ DropTurn \/ ReleaseGuard

RunStep ==
  \/ \E fresh \in BOOLEAN : StartRun(fresh)
  \/ AppendTurn
  \/ \E n \in 1 .. MaxTurns : PrepareShadow(n)
  \/ AcquireGuard \/ RunGuarded \/ OfferSummary
  \/ PauseRun \/ ExitLoop \/ FinishRun
  \/ SyncCompact \/ ReplaceContext \/ CloseFailed \/ CrashRun

(* what a worker that holds a claim does next, faults apart                *)
Process(w) ==
  \/ ReadLease(w) \/ InstallFence(w) \/ FailMissing(w)
  \/ BeginSummary(w) \/ SaveSummary(w)
  \/ FreezeMergeContext(w) \/ PrepareMerge(w)
  \/ ReadOwner(w) \/ SwapContext(w)
  \/ ReadSettlement(w) \/ SettleRuntime(w) \/ MarkSettled(w)
  \/ Finalize(w) \/ FailConflict(w) \/ ClearFence(w) \/ LosesLease(w)

WorkerStep(w) ==
  \/ \E j \in Jobs : Claim(w, j)
  \/ Process(w)
  \/ RenewFence(w)
  \/ \E fatal \in BOOLEAN : Error(w, fatal)
  \/ StopAfterClaim(w)
  \/ CrashWorker(w)

Command ==
  \/ \E w \in Workers, j \in Jobs, st \in {"cancelled", "superseded"} :
       Terminate(w, j, st)
  \/ DeleteOwner
  \/ DeleteJobs

Time ==
  \/ \E j \in Jobs : LapseLease(j) \/ LapseGuard(j) \/ Elapse(j)
  \/ LapseFence
  \/ ReapFence

Next ==
  \/ RunStep
  \/ \E w \in Workers : WorkerStep(w)
  \/ Command
  \/ Time

Spec == Init /\ [][Next]_vars

(* Workers poll and finish what they hold, time passes, a guarded model    *)
(* call ends.  Nothing is assumed of a run between its turns, of commands, *)
(* or of faults.                                                           *)
Fairness ==
  /\ \A w \in Workers : WF_vars(Process(w))
  /\ WF_vars(\E w \in Workers, j \in Jobs : Claim(w, j))
  /\ \A j \in Jobs : /\ WF_vars(LapseLease(j) /\ UNCHANGED faults)
                     /\ WF_vars(LapseGuard(j) /\ UNCHANGED faults)
                     /\ WF_vars(Elapse(j))
  /\ WF_vars(LapseFence /\ UNCHANGED faults)
  /\ WF_vars(ReapFence)
  /\ WF_vars(RunGuarded)

FairSpec == Spec /\ Fairness

-----------------------------------------------------------------------------
(* Properties.                                                             *)

RunType ==
  [pc : {"idle", "running", "turn", "commit", "release", "replace",
         "repaired", "exit"},
   job : 0 .. MaxJobs, mem : Seq(Message), compacted : BOOLEAN,
   failed : 0 .. MaxJobs, epoch : Nat]

WorkerType ==
  [pc : {"idle", "claimed", "fencing", "missing", "work", "summarize",
         "snapshot", "cas", "settle", "runtime", "mark", "finalize",
         "conflict", "unfence"},
   job : 0 .. MaxJobs, token : Nat, msgs : Seq(Message), rev : Nat,
   tries : 0 .. MaxCas]

JobType ==
  [status : Status, active : BOOLEAN, prefix : Seq(Message), rev : Nat,
   lease : Nat, leaseLive : BOOLEAN, guard : {"none", "live", "expired"},
   delayed : BOOLEAN, summary : BOOLEAN, replacement : BOOLEAN, epoch : Nat,
   settled : BOOLEAN, attempt : Nat]

OwnerType ==
  [live : BOOLEAN, msgs : Seq(Message), rev : Nat, last : 0 .. MaxJobs,
   fence : [job : 0 .. MaxJobs, token : Nat, live : BOOLEAN]]

(* The shape of every document and of every process's memory.              *)
TypeOK ==
  /\ log \in Nat
  /\ owner \in OwnerType
  /\ jobs \in [Jobs -> JobType]
  /\ rt \in [marker : 0 .. MaxJobs, epoch : Nat]
  /\ run \in RunType
  /\ wk \in [Workers -> WorkerType]
  /\ faults \in Nat
  /\ syncs \in Nat
  /\ swaps \in [Jobs -> Nat]

(* msgs stands for the turns 1..n: each once, in order, none missing       *)
Chain(msgs, n) ==
  /\ LastTurn(msgs) = n
  /\ msgs # <<>> => msgs[1].lo = 1
  /\ \A i \in 1 .. Len(msgs) : msgs[i].lo \in 1 .. msgs[i].hi
  /\ \A i \in 1 .. (Len(msgs) - 1) : msgs[i + 1].lo = msgs[i].hi + 1

(* No compaction loses, repeats or reorders a turn: whatever the workers,  *)
(* the runs and their crashes do, the active context stands for the whole  *)
(* transcript (applyPreparedMergeToOwner keeps the tail that was appended  *)
(* after the prefix was frozen).                                           *)
NoTurnLost == owner.live => Chain(owner.msgs, log)

(* The inductive invariant behind NoTurnLost and EpochMonotone.            *)

(* a job that is claimed is active, and an active job has a prefix         *)
JobInv ==
  \A j \in Jobs :
    /\ jobs[j].lease # NoLease => jobs[j].active
    /\ jobs[j].active => jobs[j].prefix # <<>>
    /\ jobs[j].epoch <= rt.epoch + 1

(* a process that acts on a job acts on one that has been created          *)
HolderInv ==
  /\ \A w \in Workers :
       wk[w].pc # "idle" => /\ wk[w].job \in Jobs
                            /\ jobs[wk[w].job].status # "none"
                            /\ wk[w].token # NoLease
  /\ run.pc \in {"turn", "commit", "release"} => run.job \in Jobs
  /\ run.pc = "repaired" => run.failed \in Jobs

(* the revision identifies the context a worker has read, which began with *)
(* the prefix of its job                                                   *)
SnapshotInv ==
  \A w \in Workers :
    wk[w].pc = "cas" /\ owner.live =>
      /\ wk[w].rev <= owner.rev
      /\ wk[w].rev = owner.rev => wk[w].msgs = owner.msgs
      /\ jobs[wk[w].job].prefix # <<>>
      /\ PrefixIntact(wk[w].job, wk[w].msgs)

(* what a run holds in memory stands for the same turns as the context,    *)
(* whoever has compacted which of them                                     *)
ContextInv ==
  /\ owner.live => Chain(owner.msgs, log)
  /\ run.pc # "idle" => owner.live /\ Chain(run.mem, log)

(* a run without a shadow is alone with its epoch, but for the settlement  *)
(* of a merge that was frozen before it started                            *)
EpochInv ==
  run.pc # "idle" /\ run.job = NoJob =>
    /\ NoActiveJob
    /\ rt.epoch <= run.epoch + 1
    /\ \A j \in Jobs : jobs[j].epoch <= run.epoch + 1

IInv == TypeOK /\ JobInv /\ HolderInv /\ SnapshotInv /\ ContextInv /\ EpochInv

(* A prefix is replaced at most once, although every worker that takes a   *)
(* job over replays the merge (last_applied_compaction_id).                *)
SwappedAtMostOnce == \A j \in Jobs : swaps[j] <= 1

(* A job is merged only when its prefix has been replaced and the runtime  *)
(* has reached the project-context epoch of the merge: the three documents *)
(* converge before the job becomes terminal (finalizeAppliedCompactionJob).*)
MergedConverged ==
  \A j \in Jobs : jobs[j].status = "merged" =>
    /\ swaps[j] = 1
    /\ jobs[j].epoch > 0
    /\ rt.epoch >= jobs[j].epoch

(* While its guard lives, a run computes an answer from the context that   *)
(* is persisted: no worker can have replaced it under the model call       *)
(* (acquireSourceTurnCompactionGuard).                                     *)
GuardedContextCurrent ==
  /\ run.pc \in {"turn", "commit"}
  /\ jobs[run.job].guard = "live"
  => owner.msgs = run.mem

(* An error, a takeover or a late worker never reopens a job: a terminal   *)
(* status is final, except that a failed job may be repaired               *)
(* (closeFailedCompactionAfterSynchronousRepair) and any be deleted.       *)
TerminalStable ==
  [][\A j \in Jobs : jobs[j].status \in Terminal =>
       \/ jobs'[j].status \in {jobs[j].status, "deleted"}
       \/ jobs[j].status = "failed" /\ jobs'[j].status = "superseded"]_vars

(* The context is only replaced for a job that is still active. It fails   *)
(* with two faults and a cancellation: a worker whose claim lapsed after   *)
(* it had read the context still swaps it, if the one that took the job    *)
(* over found it cancelled and closed it without a fence of its own; the   *)
(* filter of the swap does not look at the job (applyPreparedMergeToOwner). *)
OnlyActiveJobsSwap ==
  [][\A j \in Jobs : swaps'[j] # swaps[j] => jobs[j].active]_vars

(* Neither a merge nor a late settlement takes the project context back to *)
(* an epoch before the one a run has opened since (guardedProjectContext-  *)
(* Value: a newer epoch always wins).                                      *)
EpochMonotone == [][rt'.epoch >= rt.epoch]_vars

(* Every job terminates, so that the runs its active_key defers resume.    *)
ActiveJobTerminates == \A j \in Jobs : jobs[j].active ~> ~jobs[j].active

(* No fence outlives its claim for good, whichever of the two writes that  *)
(* end a claim is lost.                                                    *)
FenceCleared ==
  \A j \in Jobs :
    (owner.fence.job = j /\ ~jobs[j].active) ~> (owner.fence.job # j)

(* What a reader of the context sees of the jobs, the workers and the run. *)
(* It holds as long as no run compacts by itself (MaxSyncs = 0): see       *)
(* OfferedContextUntouched.                                                *)
View == [i \in 1 .. Len(owner.msgs) |->
           [lo |-> owner.msgs[i].lo, hi |-> owner.msgs[i].hi]]

Promise == INSTANCE ContextReplacement
             WITH turns <- log, view <- View, exists <- owner.live,
                  folded <- {j \in Jobs : swaps[j] > 0}

(* The protocol implements ContextReplacement: every step adds a turn,     *)
(* folds a prefix once for its job, deletes the context or cannot be seen  *)
(* by its reader (appendConversationMessages, applyPreparedMergeToOwner).  *)
ImplementsContextReplacement == Promise!AbsSpec

(* docs: a failed job leaves its input in the context.                     *)
FailedKeepsInput ==
  \A j \in Jobs : jobs[j].status = "failed" => swaps[j] = 0

(* docs: a prepared merge is given up only if the prefix has changed.      *)
ConflictOnlyOnChangedPrefix ==
  \A w \in Workers :
    wk[w].pc = "conflict" /\ OwnsLease(w) /\ owner.live
      => ~PrefixIntact(wk[w].job, owner.msgs)

(* comment: after the offer of its summary the run never mutates the       *)
(* context, it only appends to it; what replaces it is the worker's swap.  *)
OfferedContextUntouched ==
  [][/\ run.job # NoJob
     /\ jobs[run.job].status # "queued"
     /\ swaps' = swaps
     => Prefix(owner'.msgs, Len(owner.msgs)) = owner.msgs]_vars
=============================================================================
