---------------------- MODULE DurableCompactionSwap_proofs ----------------------
(***************************************************************************)
(* Theorems about the merge of DurableCompaction, for any number of        *)
(* workers, jobs, turns and faults: what a swap may do, when a job is      *)
(* terminal, what the guard of a run protects, and that the whole          *)
(* implements ContextReplacement.                                          *)
(***************************************************************************)
EXTENDS DurableCompaction_proofs

-----------------------------------------------------------------------------
(* The invariant.                                                          *)

(* a job that no worker has claimed since it was created                   *)
Fresh(r) == r.active /\ r.status = "queued" /\ r.lease = NoLease

(* An active job has an active status, it is the only one of the owner,    *)
(* and a guard lives only on a job that has not been claimed.              *)
ActiveInv ==
  \A j \in Jobs :
    /\ jobs[j].active => jobs[j].status \in ActiveStatus
    /\ jobs[j].guard = "live" => Fresh(jobs[j])
    /\ \A i \in Jobs : jobs[i].active /\ jobs[j].active => i = j

(* A prefix that an active job has replaced is named by the owner, and a   *)
(* worker whose revision still stands has read the owner before any active *)
(* job, and before its own, replaced a prefix.                             *)
SwapInv ==
  /\ \A j \in Jobs :
       /\ jobs[j].status = "none" => swaps[j] = 0
       /\ owner.live /\ jobs[j].active /\ swaps[j] > 0 => owner.last = j
       /\ owner.live /\ owner.last = j => swaps[j] > 0
  /\ \A w \in Workers :
       owner.live /\ wk[w].pc = "cas" /\ wk[w].rev = owner.rev =>
         /\ swaps[wk[w].job] = 0
         /\ \A j \in Jobs : jobs[j].active => swaps[j] = 0

(* The runtime has reached the epoch of a job that it names as settled.    *)
Reached(j) == jobs[j].epoch > 0 /\ rt.epoch >= jobs[j].epoch

(* where a worker has prepared the merge of its job                        *)
PreparedPcs == {"snapshot", "cas", "settle", "runtime", "mark", "finalize"}

MergeInv ==
  /\ \A j \in Jobs :
       /\ jobs[j].settled => Reached(j)
       /\ jobs[j].replacement => jobs[j].epoch > 0
       /\ rt.marker = j => /\ jobs[j].status # "none"
                           /\ jobs[j].status # "deleted" => Reached(j)
  /\ \A w \in Workers :
       /\ wk[w].pc \in PreparedPcs
       /\ jobs[wk[w].job].status # "deleted"
       => jobs[wk[w].job].epoch > 0

(* where a worker has installed the fence of its claim                     *)
FencedPcs == {"work", "summarize", "snapshot", "cas", "settle", "runtime",
              "mark", "finalize", "conflict"}

(* where it holds the token of a claim that it has made itself             *)
ClaimPcs == FencedPcs \cup {"claimed", "fencing", "missing"}

(* A token is handed out once per job.  Whoever holds the current one and  *)
(* has installed its fence has fenced off every earlier claim that is      *)
(* still about to swap.                                                    *)
TokenInv ==
  \A w \in Workers : wk[w].pc \in ClaimPcs =>
    /\ jobs[wk[w].job].status # "deleted" =>
         wk[w].token <= jobs[wk[w].job].attempt
    /\ ~Fresh(jobs[wk[w].job])
    /\ \A v \in Workers \ {w} :
         wk[v].pc \in ClaimPcs /\ wk[v].job = wk[w].job =>
           /\ wk[v].token # wk[w].token
           /\ wk[w].pc = "cas" /\ FencedBy(wk[w].job, wk[w].token)
              /\ wk[v].pc \in FencedPcs
              => jobs[wk[v].job].lease # wk[v].token

(* Without commands that cancel jobs, the job of a swap that would match   *)
(* is active, and a run whose job is unclaimed holds the context.          *)
OwnedInv ==
  /\ \A w \in Workers :
       wk[w].pc = "cas" /\ owner.live /\ FencedBy(wk[w].job, wk[w].token)
         => jobs[wk[w].job].active
  /\ /\ run.pc \notin {"idle", "replace"}
     /\ run.job = NoJob \/ Fresh(jobs[run.job])
     => owner.msgs = run.mem

MInv ==
  /\ ActiveInv /\ SwapInv /\ MergeInv /\ TokenInv
  /\ ~MayCancel => OwnedInv
  /\ SwappedAtMostOnce /\ MergedConverged

USE DEF NoJob, NoLease

-----------------------------------------------------------------------------
(* What a step may do to one job.                                          *)

(* somebody who holds the claim of job i and its fence gives the claim up  *)
Closing(i) ==
  \E v \in Workers :
    /\ wk[v].pc \in FencedPcs /\ wk[v].job = i /\ jobs[i].lease = wk[v].token
    /\ wk'[v].pc # "cas" /\ owner' = owner

Evolves(i) ==
  LET q == jobs[i]
      r == jobs'[i]
  IN  /\ r.active => q.active /\ r.status \in ActiveStatus
      /\ q.active /\ ~r.active => MayCancel \/ ~owner.live \/ Closing(i)
      /\ \/ r.status = q.status
         \/ q.status \in ActiveStatus /\ r.status \in ActiveStatus \cup Terminal
         \/ q.status = "failed" /\ r.status = "superseded"
      /\ r.status = "merged" => q.status = "merged" \/ (owner.live /\ Converged(i))
      /\ r.guard = "live" => Fresh(r)
      /\ Fresh(r) => Fresh(q)
      /\ r.epoch = q.epoch \/ (q.epoch = 0 /\ q.active /\ r.epoch = rt.epoch + 1)
      /\ r.settled => q.settled \/ (q.active /\ rt.marker = i)
      /\ r.replacement => q.replacement \/ q.epoch # 0
      /\ \/ r.attempt = q.attempt /\ r.lease \in {q.lease, NoLease}
         \/ /\ r.attempt = q.attempt + 1 /\ r.lease = q.attempt + 1
            /\ q.status \in ActiveStatus

Shadowed(i) ==
  LET r == jobs'[i]
  IN  /\ jobs[i].status = "none" /\ NoActiveJob
      /\ run.pc = "running" /\ run.job = NoJob /\ run' = [run EXCEPT !.job = i]
      /\ UNCHANGED <<log, owner, rt, wk, swaps>>
      /\ Fresh(r) /\ r.guard = "none" /\ r.epoch = 0 /\ r.attempt = 0
      /\ ~r.settled /\ ~r.replacement

LEMMA SameEvolves ==
  ASSUME ActiveInv, NEW i \in Jobs, jobs'[i] = jobs[i]
  PROVE  Evolves(i)
  BY DEF ActiveInv, Evolves, Fresh

(* the writes of workers that own the lease of their job                   *)
LEMMA OwnedEvolves ==
  ASSUME IInv, ActiveInv, NEW i \in Jobs, NEW w \in Workers, OwnsLease(w),
         \/ BeginSummary(w) \/ SaveSummary(w) \/ FreezeMergeContext(w)
         \/ PrepareMerge(w) \/ MarkSettled(w) \/ Finalize(w) \/ FailConflict(w)
         \/ \E fatal \in BOOLEAN : Error(w, fatal)
         \/ StopAfterClaim(w)
  PROVE  Evolves(i)
<1> DEFINE j == wk[w].job
<1>1. /\ jobs \in [Jobs -> JobType] /\ jobs[i] \in JobType /\ wk \in [Workers -> WorkerType]
      /\ rt.epoch \in Nat
  BY DEF IInv, TypeOK
<1>2. wk[w].pc # "idle"
  BY DEF BeginSummary, SaveSummary, FreezeMergeContext, PrepareMerge, MarkSettled,
     Finalize, FailConflict, Error, StopAfterClaim
<1>3. /\ j \in Jobs /\ jobs[j] \in JobType /\ jobs[j].active
      /\ jobs[j].lease # NoLease /\ jobs[j].lease = wk[w].token
  BY <1>2, OwnedJob DEF IInv, OwnsLease
<1>4. /\ jobs[j].status \in ActiveStatus /\ jobs[j].guard # "live"
      /\ ~Fresh(jobs[j])
  BY <1>3 DEF ActiveInv, Fresh
<1>5. CASE jobs'[i] = jobs[i]
  BY <1>5, SameEvolves
<1>6. CASE BeginSummary(w)
  BY <1>1, <1>3, <1>4, <1>5, <1>6 DEF BeginSummary, Evolves, Fresh, JobType, ActiveStatus
<1>7. CASE SaveSummary(w)
  BY <1>1, <1>3, <1>4, <1>5, <1>7 DEF SaveSummary, Evolves, Fresh, JobType, ActiveStatus
<1>8. CASE FreezeMergeContext(w)
  BY <1>1, <1>3, <1>4, <1>5, <1>8 DEF FreezeMergeContext, Evolves, Fresh, JobType, ActiveStatus
<1>9. CASE PrepareMerge(w)
  BY <1>1, <1>3, <1>4, <1>5, <1>9 DEF PrepareMerge, Evolves, Fresh, JobType, ActiveStatus
<1>10. CASE MarkSettled(w)
  <2>1. CASE rt.marker = j
    <3>1. jobs' = [jobs EXCEPT ![j].settled = TRUE]
      BY <1>10, <2>1 DEF MarkSettled
    <3> QED
      BY <1>1, <1>3, <1>4, <1>5, <2>1, <3>1 DEF Evolves, Fresh, JobType, ActiveStatus
  <2>2. CASE rt.marker # j
    BY <1>5, <1>10, <2>2 DEF MarkSettled
  <2> QED BY <2>1, <2>2
<1>11. ASSUME NEW st \in {"merged", "failed"}, jobs' = Closed(j, st), i = j,
              st = "merged" => owner.live /\ Converged(i), Closing(i)
       PROVE  Evolves(i)
  BY <1>1, <1>3, <1>4, <1>11 DEF Closed, Evolves, Fresh, JobType, ActiveStatus, Terminal
<1>12. ASSUME jobs' = Closed(j, "merged") \/ jobs' = Closed(j, "failed"), i # j
       PROVE  Evolves(i)
  <2>1. jobs'[i] = jobs[i]
    BY <1>1, <1>12 DEF Closed
  <2> QED BY <2>1, SameEvolves
<1>13. ASSUME \E pc \in {"unfence"} : Goto(w, pc), owner' = owner, wk[w].pc \in FencedPcs, i = j
       PROVE  Closing(i)
  BY <1>1, <1>3, <1>13 DEF Goto, Closing
<1>14. CASE Finalize(w)
  <2>1. CASE owner.live /\ Converged(j)
    <3>1. /\ jobs' = Closed(j, "merged") /\ Goto(w, "unfence") /\ owner' = owner
          /\ wk[w].pc \in FencedPcs
      BY <1>14, <2>1 DEF Finalize, FencedPcs
    <3> QED BY <2>1, <3>1, <1>11, <1>12, <1>13
  <2>2. CASE ~(owner.live /\ Converged(j))
    <3>1. jobs' = jobs
      BY <1>14, <2>2 DEF Finalize
    <3> QED BY <1>5, <3>1
  <2> QED BY <2>1, <2>2
<1>15. CASE FailConflict(w)
  <2>1. /\ jobs' = Closed(j, "failed") /\ Goto(w, "unfence") /\ owner' = owner
        /\ wk[w].pc \in FencedPcs
    BY <1>15 DEF FailConflict, FencedPcs
  <2> QED BY <2>1, <1>11, <1>12, <1>13
<1>16. ASSUME jobs' = Released(j) \/ jobs' = [Released(j) EXCEPT ![j].delayed = FALSE]
       PROVE  Evolves(i)
  <2> DEFINE rel == [jobs EXCEPT ![j].status = "retryable", ![j].lease = NoLease,
                       ![j].leaseLive = FALSE, ![j].delayed = TRUE, ![j].guard = "none"]
  <2>1. CASE i = j
    <3>1. /\ jobs'[i].status = "retryable" /\ jobs'[i].lease = NoLease
          /\ jobs'[i].guard = "none" /\ jobs'[i].active = jobs[i].active
          /\ jobs'[i].epoch = jobs[i].epoch /\ jobs'[i].settled = jobs[i].settled
          /\ jobs'[i].replacement = jobs[i].replacement
          /\ jobs'[i].attempt = jobs[i].attempt
      BY <1>1, <1>3, <1>16, <2>1 DEF Released, JobType
    <3> QED BY <1>3, <1>4, <2>1, <3>1 DEF Evolves, Fresh, ActiveStatus
  <2>2. CASE i # j
    <3>1. jobs'[i] = jobs[i]
      BY <1>1, <1>16, <2>2 DEF Released
    <3> QED BY <1>5, <3>1
  <2> QED BY <2>1, <2>2
<1>17. ASSUME NEW fatal \in BOOLEAN, Error(w, fatal) PROVE Evolves(i)
  <2>1. /\ jobs' = Closed(j, "failed") \/ jobs' = Released(j)
        /\ Goto(w, "unfence") /\ owner' = owner /\ wk[w].pc \in FencedPcs
    BY <1>17 DEF Error, FencedPcs
  <2> QED BY <2>1, <1>11, <1>12, <1>13, <1>16
<1>18. CASE StopAfterClaim(w)
  BY <1>16, <1>18 DEF StopAfterClaim
<1> QED
  BY <1>6, <1>7, <1>8, <1>9, <1>10, <1>14, <1>15, <1>17, <1>18

LEMMA ShadowShadows ==
  ASSUME IInv, ActiveInv, NEW i \in Jobs, NEW n \in 1 .. MaxTurns, PrepareShadow(n)
  PROVE  Evolves(i) \/ Shadowed(i)
<1> DEFINE r == [NoRecord EXCEPT !.status = "queued", !.active = TRUE,
                   !.prefix = Prefix(run.mem, n), !.rev = owner.rev, !.delayed = TRUE]
<1>1. jobs \in [Jobs -> JobType]
  BY DEF IInv, TypeOK
<1>2. PICK j \in Jobs : /\ jobs[j].status = "none"
                        /\ jobs' = [jobs EXCEPT ![j] = r]
                        /\ run' = [run EXCEPT !.job = j]
  BY DEF PrepareShadow
<1>3. CASE i = j
  <2>1. jobs'[i] = r
    BY <1>1, <1>2, <1>3
  <2>2. /\ Fresh(r) /\ r.guard = "none" /\ r.epoch = 0 /\ r.attempt = 0
        /\ ~r.settled /\ ~r.replacement
    BY DEF NoRecord, Fresh
  <2> HIDE DEF r
  <2> QED BY <1>2, <1>3, <2>1, <2>2 DEF PrepareShadow, Shadowed
<1>4. CASE i # j
  BY <1>1, <1>2, <1>4, SameEvolves
<1> QED
  BY <1>3, <1>4

(* the writes of a run to its job                                          *)
LEMMA RunEvolves ==
  ASSUME IInv, ActiveInv, NEW i \in Jobs, RunStep
  PROVE  Evolves(i) \/ Shadowed(i)
<1>1. /\ jobs \in [Jobs -> JobType] /\ jobs[i] \in JobType
      /\ run.job \in 0 .. MaxJobs /\ run.failed \in 0 .. MaxJobs
  BY DEF IInv, TypeOK, RunType
<1>2. /\ jobs[i].active => jobs[i].status \in ActiveStatus
      /\ jobs[i].guard = "live" => Fresh(jobs[i])
  BY DEF ActiveInv
<1>3. CASE jobs'[i] = jobs[i]
  BY <1>3, SameEvolves
<1>4. CASE AcquireGuard
  BY <1>1, <1>2, <1>3, <1>4 DEF AcquireGuard, CanGuard, Unleased, Evolves, Fresh, JobType
<1>5. CASE ReleaseGuard
  BY <1>1, <1>2, <1>3, <1>5 DEF ReleaseGuard, Evolves, Fresh, JobType
<1>6. CASE OfferSummary
  BY <1>1, <1>2, <1>3, <1>6 DEF OfferSummary, CanOffer, Evolves, Fresh, JobType, ActiveStatus
<1>7. CASE jobs' = Activated(run.job)
  <2>1. CASE jobs' = [jobs EXCEPT ![run.job].delayed = FALSE, ![run.job].guard = "none"]
    BY <1>1, <1>2, <1>3, <2>1 DEF Evolves, Fresh, JobType
  <2> QED
    BY <1>3, <1>7, <2>1 DEF Activated
<1>8. CASE CloseFailed
  <2>1. CASE jobs' = [jobs EXCEPT ![run.failed].status = "superseded"] /\ CanClose(run.failed)
    BY <1>1, <1>2, <1>3, <2>1
       DEF CanClose, FailedLatest, Evolves, Fresh, JobType, ActiveStatus
  <2> QED
    BY <1>3, <1>8, <2>1 DEF CloseFailed
<1>9. ASSUME \/ \E fresh \in BOOLEAN : StartRun(fresh)
             \/ AppendTurn \/ EnsureGuard \/ CommitTurn \/ DropTurn
             \/ FinishRun \/ SyncCompact \/ ReplaceContext \/ CrashRun
      PROVE  jobs' = jobs
  BY <1>9 DEF StartRun, AppendTurn, EnsureGuard, CommitTurn, DropTurn, FinishRun,
     SyncCompact, ReplaceContext, CrashRun
<1> QED
  BY <1>3, <1>4, <1>5, <1>6, <1>7, <1>8, <1>9, ShadowShadows
     DEF RunStep, RunGuarded, PauseRun, ExitLoop

(* a job closed from outside its claim                                     *)
LEMMA ClosedEvolves ==
  ASSUME IInv, ActiveInv, NEW i \in Jobs, NEW j \in Jobs, NEW st \in {"failed", "cancelled", "superseded"},
         jobs' = Closed(j, st), jobs[j].status \in ActiveStatus, MayCancel \/ ~owner.live
  PROVE  Evolves(i)
<1>1. jobs \in [Jobs -> JobType] /\ jobs[i] \in JobType
  BY DEF IInv, TypeOK
<1>2. CASE j = i
  <2>1. /\ jobs'[i].status = st /\ ~jobs'[i].active /\ jobs'[i].lease = NoLease
        /\ jobs'[i].guard = "none" /\ jobs'[i].epoch = jobs[i].epoch
        /\ jobs'[i].settled = jobs[i].settled /\ jobs'[i].replacement = jobs[i].replacement
        /\ jobs'[i].attempt = jobs[i].attempt
    BY <1>1, <1>2 DEF Closed, JobType
  <2>2. st \in Terminal /\ jobs[i].status \in ActiveStatus
    BY <1>2 DEF Terminal
  <2> QED
    BY <2>1, <2>2 DEF Evolves, Fresh
<1>3. CASE j # i
  BY <1>1, <1>3, SameEvolves DEF Closed
<1> QED
  BY <1>2, <1>3

LEMMA JobsEvolve ==
  ASSUME IInv, ActiveInv, NEW i \in Jobs, Next
  PROVE  Evolves(i) \/ Shadowed(i) \/ DeleteJobs
<1>1. /\ jobs \in [Jobs -> JobType] /\ jobs[i] \in JobType
      /\ wk \in [Workers -> WorkerType]
  BY DEF IInv, TypeOK
<1>2. /\ jobs[i].active => jobs[i].status \in ActiveStatus
      /\ jobs[i].guard = "live" => Fresh(jobs[i])
      /\ jobs[i].lease # NoLease => jobs[i].active
  BY DEF ActiveInv, IInv, JobInv
<1>3. ASSUME jobs'[i] = jobs[i] PROVE Evolves(i)
  BY <1>3, SameEvolves
<1>4. ASSUME NEW w \in Workers, WorkerStep(w) PROVE Evolves(i)
  <2>1. ASSUME NEW j \in Jobs, Claim(w, j) PROVE Evolves(i)
    BY <1>1, <1>2, <1>3, <2>1
       DEF Claim, Claimable, NoLiveGuard, Evolves, Fresh, JobType, ActiveStatus
  <2>2. CASE FailMissing(w)
    <3>1. CASE jobs' = Closed(wk[w].job, "failed") /\ OrphanOf(w)
      <4>1. wk[w].job \in Jobs
        BY <2>2 DEF FailMissing, IInv, HolderInv
      <4>2. jobs[wk[w].job].status \in ActiveStatus /\ ~owner.live
        BY <3>1 DEF OrphanOf
      <4> QED
        BY <3>1, <4>1, <4>2, ClosedEvolves
    <3>2. CASE ~OrphanOf(w)
      BY <1>3, <2>2, <3>2 DEF FailMissing, OrphanOf
    <3> QED
      BY <2>2, <3>1, <3>2 DEF FailMissing
  <2>3. ASSUME \/ ReadLease(w) \/ InstallFence(w) \/ ReadOwner(w) \/ SwapContext(w)
               \/ ReadSettlement(w) \/ SettleRuntime(w) \/ ClearFence(w) \/ LosesLease(w)
               \/ RenewFence(w) \/ CrashWorker(w)
        PROVE  jobs' = jobs
    BY <2>3 DEF ReadLease, InstallFence, ReadOwner, SwapContext, ReadSettlement, SettleRuntime,
       ClearFence, LosesLease, RenewFence, CrashWorker
  <2>4. ASSUME NEW fatal \in BOOLEAN, Error(w, fatal) PROVE Evolves(i)
    <3>1. CASE OwnsLease(w)
      BY <2>4, <3>1, OwnedEvolves
    <3>2. CASE ~OwnsLease(w)
      BY <1>3, <2>4, <3>2 DEF Error, OwnsLease
    <3> QED
      BY <3>1, <3>2
  <2>5. ASSUME \/ BeginSummary(w) \/ SaveSummary(w) \/ FreezeMergeContext(w) \/ PrepareMerge(w)
               \/ MarkSettled(w) \/ Finalize(w) \/ FailConflict(w) \/ StopAfterClaim(w)
        PROVE  Evolves(i)
    <3>1. OwnsLease(w)
      BY <2>5 DEF BeginSummary, SaveSummary, FreezeMergeContext, PrepareMerge, MarkSettled,
         Finalize, FailConflict, StopAfterClaim
    <3> QED
      BY <2>5, <3>1, OwnedEvolves
  <2>6. jobs' = jobs => Evolves(i)
    BY <1>3
  <2> QED
    BY <1>4, <2>1, <2>2, <2>3, <2>4, <2>5, <2>6 DEF WorkerStep, Process
<1>5. ASSUME NEW w \in Workers, NEW j \in Jobs, NEW st \in {"cancelled", "superseded"},
             Terminate(w, j, st)
      PROVE  Evolves(i)
  <2>1. MayCancel /\ jobs' = Closed(j, st) /\ jobs[j].status \in ActiveStatus
    BY <1>5 DEF Terminate, CanTerminate, CancelSafe, ActiveStatus
  <2> QED
    BY <2>1, ClosedEvolves
<1>6. CASE DeleteOwner
  BY <1>3, <1>6 DEF DeleteOwner
<1>7. ASSUME NEW j \in Jobs, LapseLease(j) \/ LapseGuard(j) \/ Elapse(j) PROVE Evolves(i)
  <2>1. CASE LapseLease(j)
    BY <1>1, <1>2, <1>3, <2>1 DEF LapseLease, Evolves, Fresh, JobType
  <2>2. CASE LapseGuard(j)
    BY <1>1, <1>2, <1>3, <2>2 DEF LapseGuard, Evolves, Fresh, JobType
  <2>3. CASE Elapse(j)
    BY <1>1, <1>2, <1>3, <2>3 DEF Elapse, Evolves, Fresh, JobType
  <2> QED
    BY <1>7, <2>1, <2>2, <2>3
<1>8. CASE LapseFence \/ ReapFence
  BY <1>3, <1>8 DEF LapseFence, ReapFence
<1>9. CASE RunStep
  BY <1>9, RunEvolves
<1> QED
  BY <1>4, <1>5, <1>6, <1>7, <1>8, <1>9 DEF Next, Command, Time

-----------------------------------------------------------------------------
(* What a step may do to one worker.                                       *)

Proceeds(w) ==
  /\ wk[w].pc # "idle" /\ wk'[w].pc # "cas"
  /\ wk'[w].job = wk[w].job /\ wk'[w].token = wk[w].token
  /\ wk'[w].pc \in ClaimPcs => wk[w].pc \in ClaimPcs
  /\ wk'[w].pc \in FencedPcs =>
       \/ wk[w].pc \in FencedPcs
       \/ owner'.fence.job = wk[w].job /\ owner'.fence.token = wk[w].token
  /\ wk'[w].pc \in PreparedPcs =>
       \/ wk[w].pc \in PreparedPcs
       \/ jobs[wk[w].job].replacement \/ jobs[wk[w].job].epoch # 0

Reads(w) ==
  /\ wk[w].pc = "snapshot" /\ OwnsLease(w)
  /\ owner.live /\ owner.last # wk[w].job
  /\ wk'[w].pc = "cas" /\ wk'[w].rev = owner.rev
  /\ wk'[w].job = wk[w].job /\ wk'[w].token = wk[w].token
  /\ \A v \in Workers \ {w} : wk'[v] = wk[v]
  /\ UNCHANGED <<log, owner, jobs, rt, run, swaps>>

Claims(w, j) ==
  /\ jobs[j].status \in ActiveStatus
  /\ wk'[w].pc = "claimed" /\ wk'[w].job = j /\ wk'[w].token = jobs[j].attempt + 1
  /\ jobs'[j].attempt = jobs[j].attempt + 1 /\ jobs'[j].lease = jobs[j].attempt + 1
  /\ \A v \in Workers \ {w} : wk'[v] = wk[v]

Acts(w) ==
  \/ wk'[w] = wk[w]
  \/ wk'[w].pc \in {"idle", "unfence"}
  \/ Proceeds(w)
  \/ Reads(w)
  \/ \E j \in Jobs : Claims(w, j)

LEMMA GotoActs ==
  ASSUME IInv, NEW w \in Workers, NEW pc \in PCs \ {"idle", "cas"}, Goto(w, pc),
         wk[w].pc # "idle",
         pc \in ClaimPcs => wk[w].pc \in ClaimPcs,
         pc \in FencedPcs =>
           \/ wk[w].pc \in FencedPcs
           \/ owner'.fence.job = wk[w].job /\ owner'.fence.token = wk[w].token,
         pc \in PreparedPcs =>
           \/ wk[w].pc \in PreparedPcs
           \/ jobs[wk[w].job].replacement \/ jobs[wk[w].job].epoch # 0
  PROVE  Acts(w)
<1>1. wk \in [Workers -> WorkerType] /\ wk[w] \in WorkerType
  BY DEF IInv, TypeOK
<1>2. wk'[w] = [wk[w] EXCEPT !.pc = pc]
  BY <1>1 DEF Goto
<1>3. wk'[w].pc = pc /\ wk'[w].job = wk[w].job /\ wk'[w].token = wk[w].token
  BY <1>1, <1>2 DEF WorkerType
<1> QED
  BY <1>3 DEF Acts, Proceeds, PCs

LEMMA ReadActs ==
  ASSUME IInv, NEW w \in Workers, ReadOwner(w)
  PROVE  Acts(w)
<1>1. wk \in [Workers -> WorkerType] /\ wk[w] \in WorkerType /\ wk[w].pc = "snapshot"
  BY DEF IInv, TypeOK, ReadOwner
<1>2. ASSUME NEW pc \in {"missing", "settle", "conflict"}, Goto(w, pc)
      PROVE  Acts(w)
  BY <1>1, <1>2, GotoActs DEF ClaimPcs, FencedPcs, PreparedPcs, PCs
<1>3. CASE /\ wk' = [wk EXCEPT ![w].pc = "cas", ![w].msgs = owner.msgs,
                               ![w].rev = owner.rev, ![w].tries = @ + 1]
           /\ owner.live /\ owner.last # wk[w].job
  <2>1. /\ wk'[w].pc = "cas" /\ wk'[w].rev = owner.rev
        /\ wk'[w].job = wk[w].job /\ wk'[w].token = wk[w].token
        /\ \A v \in Workers \ {w} : wk'[v] = wk[v]
    BY <1>1, <1>3 DEF WorkerType
  <2> QED
    BY <1>1, <1>3, <2>1 DEF ReadOwner, Reads, Acts
<1> QED
  BY <1>2, <1>3 DEF ReadOwner

LEMMA WorkersAct ==
  ASSUME IInv, Next, NEW w \in Workers
  PROVE  Acts(w)
<1>1. wk \in [Workers -> WorkerType] /\ wk[w] \in WorkerType
  BY DEF IInv, TypeOK
<1>2. ASSUME wk'[w] = wk[w] PROVE Acts(w)
  BY <1>2 DEF Acts
<1>3. ASSUME GoIdle(w) PROVE Acts(w)
  BY <1>1, <1>3 DEF GoIdle, IdleWorker, Acts
<1>4. ASSUME NEW v \in Workers, v # w, WorkerStep(v)
      PROVE  wk'[w] = wk[w]
  BY <1>1, <1>4 DEF WorkerStep, Process, Claim, ReadLease, InstallFence, FailMissing,
     BeginSummary, SaveSummary, FreezeMergeContext, PrepareMerge, ReadOwner, SwapContext,
     ReadSettlement, SettleRuntime, MarkSettled, Finalize, FailConflict, ClearFence, LosesLease,
     RenewFence, StopAfterClaim, CrashWorker, Error, Goto, GoIdle
<1>5. ASSUME NEW j \in Jobs, Claim(w, j) PROVE Acts(w)
  <2>1. /\ wk' = [wk EXCEPT ![w] = [IdleWorker EXCEPT !.pc = "claimed", !.job = j,
                                     !.token = jobs[j].attempt + 1]]
        /\ jobs' = [jobs EXCEPT ![j].lease = jobs[j].attempt + 1, ![j].leaseLive = TRUE,
                                ![j].attempt = @ + 1, ![j].guard = "none"]
        /\ jobs[j].status \in ActiveStatus
    BY <1>5 DEF Claim, Claimable
  <2>2. /\ wk'[w].pc = "claimed" /\ wk'[w].job = j /\ wk'[w].token = jobs[j].attempt + 1
        /\ \A v \in Workers \ {w} : wk'[v] = wk[v]
    BY <1>1, <2>1 DEF IdleWorker
  <2>3. jobs \in [Jobs -> JobType] /\ jobs[j] \in JobType
    BY DEF IInv, TypeOK
  <2>4. jobs'[j].attempt = jobs[j].attempt + 1 /\ jobs'[j].lease = jobs[j].attempt + 1
    BY <2>1, <2>3 DEF JobType
  <2> QED
    BY <2>1, <2>2, <2>4 DEF Claims, Acts
<1>6. CASE ReadLease(w)
  BY <1>6, GotoActs DEF ReadLease, ClaimPcs, FencedPcs, PreparedPcs, PCs
<1>7. CASE InstallFence(w)
  <2>1. CASE CanFence(w)
    <3>1. owner \in OwnerType
      BY DEF IInv, TypeOK
    <3>2. owner'.fence.job = wk[w].job /\ owner'.fence.token = wk[w].token
      BY <1>7, <2>1, <3>1 DEF InstallFence, OwnerType
    <3> QED
      BY <1>7, <2>1, <3>2, GotoActs DEF InstallFence, ClaimPcs, PreparedPcs, PCs
  <2>2. CASE ~CanFence(w)
    <3>1. Goto(w, "missing") /\ wk[w].pc = "fencing"
      BY <1>7, <2>2 DEF InstallFence
    <3> QED
      BY <3>1, GotoActs DEF ClaimPcs, FencedPcs, PreparedPcs, PCs
  <2> QED
    BY <2>1, <2>2
<1>8. CASE BeginSummary(w)
  BY <1>8, GotoActs DEF BeginSummary, ClaimPcs, FencedPcs, PreparedPcs, PCs
<1>9. CASE SaveSummary(w)
  BY <1>9, GotoActs DEF SaveSummary, ClaimPcs, FencedPcs, PreparedPcs, PCs
<1>10. CASE PrepareMerge(w)
  <2>1. /\ wk[w].pc = "work" /\ Goto(w, "snapshot")
        /\ jobs[wk[w].job].replacement \/ jobs[wk[w].job].epoch # 0
    BY <1>10 DEF PrepareMerge
  <2> QED
    BY <2>1, GotoActs DEF ClaimPcs, FencedPcs, PCs
<1>11. CASE SwapContext(w)
  <2>1. CASE CasMatches(w)
    <3>1. wk[w].pc = "cas" /\ wk' = [wk EXCEPT ![w] = [IdleWorker EXCEPT !.pc = "settle",
                                       !.job = wk[w].job, !.token = wk[w].token]]
      BY <1>11, <2>1 DEF SwapContext
    <3>2. wk'[w].pc = "settle" /\ wk'[w].job = wk[w].job /\ wk'[w].token = wk[w].token
      BY <1>1, <3>1 DEF IdleWorker
    <3> QED
      BY <3>1, <3>2 DEF Acts, Proceeds, ClaimPcs, FencedPcs, PreparedPcs
  <2>2. CASE ~CasMatches(w)
    <3>1. wk[w].pc = "cas" /\ wk' = [wk EXCEPT ![w].pc = "snapshot", ![w].msgs = <<>>, ![w].rev = 0]
      BY <1>11, <2>2 DEF SwapContext
    <3>2. wk'[w].pc = "snapshot" /\ wk'[w].job = wk[w].job /\ wk'[w].token = wk[w].token
      BY <1>1, <3>1 DEF WorkerType
    <3> QED
      BY <3>1, <3>2 DEF Acts, Proceeds, ClaimPcs, FencedPcs, PreparedPcs
  <2> QED
    BY <2>1, <2>2
<1>12. CASE ReadSettlement(w)
  BY <1>3, <1>12, GotoActs DEF ReadSettlement, ClaimPcs, FencedPcs, PreparedPcs, PCs
<1>13. CASE SettleRuntime(w)
  BY <1>13, GotoActs DEF SettleRuntime, ClaimPcs, FencedPcs, PreparedPcs, PCs
<1>14. CASE MarkSettled(w)
  BY <1>3, <1>14, GotoActs DEF MarkSettled, ClaimPcs, FencedPcs, PreparedPcs, PCs
<1>15. CASE Finalize(w)
  BY <1>15, GotoActs DEF Finalize, ClaimPcs, FencedPcs, PreparedPcs, PCs
<1>16. CASE FailConflict(w)
  BY <1>16, GotoActs DEF FailConflict, ClaimPcs, FencedPcs, PreparedPcs, PCs
<1>17. ASSUME NEW fatal \in BOOLEAN, Error(w, fatal) PROVE Acts(w)
  BY <1>3, <1>17, GotoActs DEF Error, ClaimPcs, FencedPcs, PreparedPcs, PCs
<1>18. CASE StopAfterClaim(w)
  BY <1>18, GotoActs DEF StopAfterClaim, ClaimPcs, FencedPcs, PreparedPcs, PCs
<1>19. CASE FailMissing(w) \/ ClearFence(w) \/ LosesLease(w) \/ CrashWorker(w)
  BY <1>3, <1>19 DEF FailMissing, ClearFence, LosesLease, CrashWorker
<1>20. CASE FreezeMergeContext(w) \/ RenewFence(w)
  BY <1>2, <1>20 DEF FreezeMergeContext, RenewFence
<1>21. CASE WorkerStep(w)
  BY <1>5, <1>6, <1>7, <1>8, <1>9, <1>10, <1>11, <1>12, <1>13, <1>14, <1>15, <1>16, <1>17,
     <1>18, <1>19, <1>20, <1>21, ReadActs DEF WorkerStep, Process
<1>22. ASSUME NEW v \in Workers, NEW j \in Jobs, NEW st \in {"cancelled", "superseded"},
             Terminate(v, j, st)
       PROVE Acts(w)
  BY <1>1, <1>22 DEF Terminate, IdleWorker, Acts
<1>23. ASSUME RunStep \/ DeleteOwner \/ DeleteJobs \/ Time PROVE wk' = wk
  BY <1>23 DEF RunStep, RunGuarded, StartRun, AppendTurn, PrepareShadow, AcquireGuard,
     EnsureGuard, CommitTurn, DropTurn, ReleaseGuard, OfferSummary, PauseRun, ExitLoop, FinishRun,
     SyncCompact, ReplaceContext, CloseFailed, CrashRun, DeleteOwner, DeleteJobs, Time,
     LapseLease, LapseGuard, Elapse, LapseFence, ReapFence
<1> QED
  BY <1>2, <1>4, <1>21, <1>22, <1>23 DEF Next, Command

-----------------------------------------------------------------------------
(* What a step may do to the owner, the runtime and the history.           *)

LEMMA FenceMoves ==
  ASSUME IInv, Next
  PROVE  \/ owner'.fence.job = NoJob
         \/ owner'.fence.job = owner.fence.job /\ owner'.fence.token = owner.fence.token
         \/ \E u \in Workers : /\ wk[u].pc = "fencing"
                               /\ owner'.fence.job = wk[u].job
                               /\ owner'.fence.token = wk[u].token
<1> DEFINE Frame ==
             \/ owner'.fence.job = NoJob
             \/ owner'.fence.job = owner.fence.job /\ owner'.fence.token = owner.fence.token
             \/ \E u \in Workers : /\ wk[u].pc = "fencing"
                                   /\ owner'.fence.job = wk[u].job
                                   /\ owner'.fence.token = wk[u].token
<1>1. owner \in OwnerType
  BY DEF IInv, TypeOK
<1>2. ASSUME RunStep PROVE Frame
  <2>1. ASSUME AppendTurn \/ CommitTurn \/ FinishRun \/ ReplaceContext
        PROVE  Frame
    BY <1>1, <2>1 DEF AppendTurn, CommitTurn, Append1, FinishRun, ReplaceContext, OwnerType
  <2>2. ASSUME \/ \E fresh \in BOOLEAN : StartRun(fresh)
               \/ \E n \in 1 .. MaxTurns : PrepareShadow(n)
               \/ AcquireGuard \/ EnsureGuard \/ DropTurn \/ ReleaseGuard \/ OfferSummary
               \/ PauseRun \/ ExitLoop \/ SyncCompact \/ CloseFailed \/ CrashRun
        PROVE  owner' = owner
    BY <2>2 DEF StartRun, PrepareShadow, AcquireGuard, EnsureGuard, DropTurn, ReleaseGuard,
       OfferSummary, PauseRun, ExitLoop, SyncCompact, CloseFailed, CrashRun
  <2> QED
    BY <1>2, <2>1, <2>2 DEF RunStep, RunGuarded
<1>3. ASSUME NEW w \in Workers, WorkerStep(w) PROVE Frame
  <2>1. CASE InstallFence(w)
    <3>1. CASE CanFence(w)
      BY <1>1, <2>1, <3>1 DEF InstallFence, OwnerType
    <3>2. CASE ~CanFence(w)
      BY <2>1, <3>2 DEF InstallFence
    <3> QED
      BY <3>1, <3>2
  <2>2. CASE SwapContext(w)
    <3>1. CASE CasMatches(w)
      <4>1. owner' = [owner EXCEPT !.msgs = Merged(wk[w].job, wk[w].msgs), !.rev = @ + 1,
                                   !.last = wk[w].job, !.fence = NoFence]
        BY <2>2, <3>1 DEF SwapContext
      <4>2. owner'.fence = NoFence
        BY <1>1, <4>1 DEF OwnerType
      <4> QED
        BY <4>2 DEF NoFence
    <3>2. CASE ~CasMatches(w)
      BY <2>2, <3>2 DEF SwapContext
    <3> QED
      BY <3>1, <3>2
  <2>3. CASE ClearFence(w)
    BY <1>1, <2>3 DEF ClearFence, Unfenced, OwnerType, NoFence
  <2>4. CASE RenewFence(w)
    BY <1>1, <2>4 DEF RenewFence, OwnerType
  <2>5. ASSUME \/ \E j \in Jobs : Claim(w, j)
               \/ ReadLease(w) \/ FailMissing(w) \/ BeginSummary(w) \/ SaveSummary(w)
               \/ FreezeMergeContext(w) \/ PrepareMerge(w) \/ ReadOwner(w) \/ ReadSettlement(w)
               \/ SettleRuntime(w) \/ MarkSettled(w) \/ Finalize(w) \/ FailConflict(w)
               \/ LosesLease(w) \/ StopAfterClaim(w) \/ CrashWorker(w)
               \/ \E fatal \in BOOLEAN : Error(w, fatal)
        PROVE  owner' = owner
    BY <2>5 DEF Claim, ReadLease, FailMissing, BeginSummary, SaveSummary, FreezeMergeContext,
       PrepareMerge, ReadOwner, ReadSettlement, SettleRuntime, MarkSettled, Finalize, FailConflict,
       LosesLease, StopAfterClaim, CrashWorker, Error
  <2> QED
    BY <1>3, <2>1, <2>2, <2>3, <2>4, <2>5 DEF WorkerStep, Process
<1>4. ASSUME Command PROVE Frame
  <2>1. CASE DeleteOwner
    BY <2>1 DEF DeleteOwner, FreshOwner, NoFence
  <2>2. ASSUME ~DeleteOwner PROVE owner' = owner
    BY <1>4, <2>2 DEF Command, Terminate, DeleteJobs
  <2> QED
    BY <2>1, <2>2
<1>5. ASSUME Time PROVE Frame
  <2>1. CASE LapseFence
    BY <1>1, <2>1 DEF LapseFence, OwnerType
  <2>2. CASE ReapFence
    BY <1>1, <2>2 DEF ReapFence, OwnerType, NoFence
  <2>3. ASSUME NEW j \in Jobs, LapseLease(j) \/ LapseGuard(j) \/ Elapse(j) PROVE owner' = owner
    BY <2>3 DEF LapseLease, LapseGuard, Elapse
  <2> QED
    BY <1>5, <2>1, <2>2, <2>3 DEF Time
<1> QED
  BY <1>2, <1>3, <1>4, <1>5 DEF Next

(* the context is replaced for a job, or the history and the job that the  *)
(* owner names as the last one stay what they are                          *)
LEMMA LastMoves ==
  ASSUME IInv, Next
  PROVE  \/ \E w \in Workers : SwapContext(w) /\ CasMatches(w)
         \/ swaps' = swaps /\ (owner'.live => owner'.last = owner.last)
<1>1. owner \in OwnerType
  BY DEF IInv, TypeOK
<1>2. ASSUME RunStep PROVE owner'.last = owner.last /\ swaps' = swaps
  <2>1. ASSUME AppendTurn \/ CommitTurn \/ FinishRun \/ ReplaceContext
        PROVE  owner'.last = owner.last
    BY <1>1, <2>1 DEF AppendTurn, CommitTurn, Append1, FinishRun, ReplaceContext, OwnerType
  <2>2. ASSUME \/ \E fresh \in BOOLEAN : StartRun(fresh)
               \/ \E n \in 1 .. MaxTurns : PrepareShadow(n)
               \/ AcquireGuard \/ EnsureGuard \/ DropTurn \/ ReleaseGuard \/ OfferSummary
               \/ PauseRun \/ ExitLoop \/ SyncCompact \/ CloseFailed \/ CrashRun
        PROVE  owner' = owner
    BY <2>2 DEF StartRun, PrepareShadow, AcquireGuard, EnsureGuard, DropTurn, ReleaseGuard,
       OfferSummary, PauseRun, ExitLoop, SyncCompact, CloseFailed, CrashRun
  <2> QED
    BY <1>2, <2>1, <2>2, RunCounts DEF RunStep, RunGuarded
<1>3. ASSUME NEW w \in Workers, WorkerStep(w), ~(SwapContext(w) /\ CasMatches(w))
      PROVE  owner'.last = owner.last /\ swaps' = swaps
  <2>1. CASE InstallFence(w)
    BY <1>1, <2>1, <1>3 DEF InstallFence, OwnerType
  <2>2. CASE SwapContext(w)
    BY <1>3, <2>2 DEF SwapContext
  <2>3. CASE ClearFence(w)
    BY <1>1, <2>3 DEF ClearFence, Unfenced, OwnerType
  <2>4. CASE RenewFence(w)
    BY <1>1, <2>4 DEF RenewFence, OwnerType
  <2>5. ASSUME \/ \E j \in Jobs : Claim(w, j)
               \/ ReadLease(w) \/ FailMissing(w) \/ BeginSummary(w) \/ SaveSummary(w)
               \/ FreezeMergeContext(w) \/ PrepareMerge(w) \/ ReadOwner(w) \/ ReadSettlement(w)
               \/ SettleRuntime(w) \/ MarkSettled(w) \/ Finalize(w) \/ FailConflict(w)
               \/ LosesLease(w) \/ StopAfterClaim(w) \/ CrashWorker(w)
               \/ \E fatal \in BOOLEAN : Error(w, fatal)
        PROVE  owner' = owner /\ swaps' = swaps
    BY <2>5 DEF Claim, ReadLease, FailMissing, BeginSummary, SaveSummary, FreezeMergeContext,
       PrepareMerge, ReadOwner, ReadSettlement, SettleRuntime, MarkSettled, Finalize, FailConflict,
       LosesLease, StopAfterClaim, CrashWorker, Error
  <2> QED
    BY <1>3, <2>1, <2>2, <2>3, <2>4, <2>5 DEF WorkerStep, Process
<1>4. ASSUME Command PROVE swaps' = swaps /\ (owner'.live => owner'.last = owner.last)
  <2>1. CASE DeleteOwner
    BY <2>1 DEF DeleteOwner, FreshOwner
  <2>2. ASSUME ~DeleteOwner PROVE owner' = owner /\ swaps' = swaps
    BY <1>4, <2>2 DEF Command, Terminate, DeleteJobs
  <2> QED
    BY <2>1, <2>2
<1>5. ASSUME Time PROVE owner'.last = owner.last /\ swaps' = swaps
  <2>1. CASE LapseFence
    BY <1>1, <2>1 DEF LapseFence, OwnerType
  <2>2. CASE ReapFence
    BY <1>1, <2>2 DEF ReapFence, OwnerType
  <2>3. ASSUME NEW j \in Jobs, LapseLease(j) \/ LapseGuard(j) \/ Elapse(j)
        PROVE  owner' = owner /\ swaps' = swaps
    BY <2>3 DEF LapseLease, LapseGuard, Elapse
  <2> QED
    BY <1>5, <2>1, <2>2, <2>3 DEF Time
<1> QED
  BY <1>2, <1>3, <1>4, <1>5 DEF Next

(* what the swap writes                                                    *)
LEMMA SwapWrites ==
  ASSUME IInv, NEW w \in Workers, SwapContext(w), CasMatches(w)
  PROVE  /\ wk[w].pc = "cas" /\ wk[w].job \in Jobs /\ wk[w].rev = owner.rev
         /\ owner.live /\ owner'.live /\ owner'.last = wk[w].job /\ owner'.rev = owner.rev + 1
         /\ swaps' = [swaps EXCEPT ![wk[w].job] = @ + 1]
         /\ UNCHANGED <<log, jobs, rt, run, faults, syncs>>
<1>1. owner \in OwnerType
  BY DEF IInv, TypeOK
<1>2. wk[w].pc = "cas" /\ wk[w].job \in Jobs /\ wk[w].rev = owner.rev /\ owner.live
  BY DEF SwapContext, CasMatches, IInv, HolderInv
<1>3. owner' = [owner EXCEPT !.msgs = Merged(wk[w].job, wk[w].msgs), !.rev = @ + 1,
                             !.last = wk[w].job, !.fence = NoFence]
  BY DEF SwapContext
<1>4. owner'.live = owner.live /\ owner'.last = wk[w].job /\ owner'.rev = owner.rev + 1
  BY <1>1, <1>3 DEF OwnerType
<1> QED
  BY <1>2, <1>4 DEF SwapContext

LEMMA MarkerMoves ==
  ASSUME IInv, Next
  PROVE  \/ rt'.marker = rt.marker
         \/ \E w \in Workers : SettleRuntime(w)
<1>1. rt \in [marker : 0 .. MaxJobs, epoch : Nat]
  BY DEF IInv, TypeOK
<1>2. ASSUME NEW fresh \in BOOLEAN, StartRun(fresh) PROVE rt'.marker = rt.marker
  BY <1>1, <1>2 DEF StartRun
<1>3. CASE SyncCompact
  BY <1>1, <1>3 DEF SyncCompact
<1>4. ASSUME RunStep, \A fresh \in BOOLEAN : ~StartRun(fresh), ~SyncCompact
      PROVE  rt' = rt
  BY <1>4 DEF RunStep, RunGuarded, AppendTurn, PrepareShadow, AcquireGuard, EnsureGuard, CommitTurn,
     DropTurn, ReleaseGuard, OfferSummary, PauseRun, ExitLoop, FinishRun, ReplaceContext,
     CloseFailed, CrashRun
<1>5. ASSUME NEW w \in Workers, WorkerStep(w), ~SettleRuntime(w)
      PROVE  rt' = rt
  BY <1>5 DEF WorkerStep, Process, Claim, ReadLease, InstallFence, FailMissing, BeginSummary,
     SaveSummary, FreezeMergeContext, PrepareMerge, ReadOwner, SwapContext, ReadSettlement,
     MarkSettled, Finalize, FailConflict, ClearFence, LosesLease, RenewFence, StopAfterClaim,
     CrashWorker, Error
<1>6. ASSUME Command \/ Time PROVE rt' = rt
  BY <1>6 DEF Command, Terminate, DeleteOwner, DeleteJobs, Time, LapseLease, LapseGuard, Elapse,
     LapseFence, ReapFence
<1> QED
  BY <1>2, <1>3, <1>4, <1>5, <1>6 DEF Next

LEMMA ErasedJob ==
  ASSUME IInv, DeleteJobs, NEW i \in Jobs
  PROVE  LET r == jobs'[i] IN
         /\ ~owner.live
         /\ ~r.active /\ r.guard = "none" /\ r.lease = NoLease
         /\ ~r.settled /\ ~r.replacement
         /\ IF jobs[i].status = "none" THEN r.status = "none" ELSE r.status = "deleted"
         /\ UNCHANGED <<log, owner, rt, run, wk, swaps>>
<1>1. jobs'[i] = IF jobs[i].status = "none" THEN NoRecord
                 ELSE [NoRecord EXCEPT !.status = "deleted"]
  BY DEF DeleteJobs
<1>2. CASE jobs[i].status = "none"
  <2>1. jobs'[i] = NoRecord
    BY <1>1, <1>2
  <2> QED
    BY <1>2, <2>1 DEF DeleteJobs, NoRecord
<1>3. CASE jobs[i].status # "none"
  <2>1. jobs'[i] = [NoRecord EXCEPT !.status = "deleted"]
    BY <1>1, <1>3
  <2> QED
    BY <1>3, <2>1 DEF DeleteJobs, NoRecord
<1> QED
  BY <1>2, <1>3

(* a job that had been created and has not been deleted has evolved        *)
LEMMA Remains ==
  ASSUME IInv, ActiveInv, Next, NEW i \in Jobs, jobs[i].status # "none",
         jobs'[i].status # "deleted"
  PROVE  Evolves(i) /\ jobs[i].status # "deleted"
<1>1. ~DeleteJobs
  BY ErasedJob
<1>2. Evolves(i)
  BY <1>1, JobsEvolve DEF Shadowed
<1> QED
  BY <1>2 DEF Evolves, ActiveStatus

(* a job that is active was so before, or the step has created it          *)
LEMMA WasActive ==
  ASSUME IInv, ActiveInv, Next, NEW i \in Jobs, jobs'[i].active
  PROVE  \/ Evolves(i) /\ jobs[i].active /\ jobs[i].status # "none"
         \/ Shadowed(i)
<1>1. ~DeleteJobs
  BY ErasedJob
<1>2. jobs[i].active => jobs[i].status # "none"
  BY DEF ActiveInv, ActiveStatus
<1> QED
  BY <1>1, <1>2, JobsEvolve DEF Evolves

LEMMA ActiveStep ==
  ASSUME IInv, ActiveInv, Next
  PROVE  ActiveInv'
<1>1. ASSUME NEW j \in Jobs, jobs'[j].active
      PROVE  jobs'[j].status \in ActiveStatus
  BY <1>1, WasActive DEF Evolves, Shadowed, Fresh, ActiveStatus
<1>2. ASSUME NEW j \in Jobs, jobs'[j].guard = "live"
      PROVE  Fresh(jobs'[j])
  <2>1. ~DeleteJobs
    BY <1>2, ErasedJob
  <2> QED
    BY <1>2, <2>1, JobsEvolve DEF Evolves, Shadowed
<1>3. ASSUME NEW i \in Jobs, NEW j \in Jobs, jobs'[i].active, jobs'[j].active
      PROVE  i = j
  <2>1. CASE jobs[i].active /\ jobs[j].active
    BY <2>1 DEF ActiveInv
  <2>2. CASE Shadowed(i) /\ Shadowed(j)
    <3>1. run \in RunType
      BY DEF IInv, TypeOK
    <3>2. run' = [run EXCEPT !.job = i] /\ run' = [run EXCEPT !.job = j]
      BY <2>2 DEF Shadowed
    <3> QED
      BY <3>1, <3>2 DEF RunType
  <2>3. (Shadowed(i) \/ Shadowed(j)) => ~jobs[i].active /\ ~jobs[j].active
    BY DEF Shadowed, NoActiveJob
  <2> QED
    BY <1>3, <2>1, <2>2, <2>3, WasActive
<1> QED
  BY <1>1, <1>2, <1>3 DEF ActiveInv, Fresh

-----------------------------------------------------------------------------
(* A prefix is replaced once.                                              *)

LEMMA SwapsGrow ==
  ASSUME IInv, Next, NEW j \in Jobs
  PROVE  swaps'[j] >= swaps[j] /\ swaps'[j] \in Nat /\ swaps[j] \in Nat
<1>1. swaps \in [Jobs -> Nat]
  BY DEF IInv, TypeOK
<1>2. ASSUME NEW w \in Workers, SwapContext(w), CasMatches(w)
      PROVE  swaps'[j] >= swaps[j] /\ swaps'[j] \in Nat
  BY <1>1, <1>2, SwapWrites
<1> QED
  BY <1>1, <1>2, LastMoves

(* the step that replaces a prefix                                         *)
LEMMA SwapSwaps ==
  ASSUME IInv, ActiveInv, SwapInv, SwappedAtMostOnce,
         NEW w \in Workers, SwapContext(w), CasMatches(w)
  PROVE  SwapInv' /\ SwappedAtMostOnce'
<1> DEFINE k == wk[w].job
<1>1. /\ wk[w].pc = "cas" /\ k \in Jobs /\ wk[w].rev = owner.rev
      /\ owner.live /\ owner'.last = k /\ owner'.rev = owner.rev + 1
      /\ swaps' = [swaps EXCEPT ![k] = @ + 1]
      /\ jobs' = jobs
  BY SwapWrites
<1>2. swaps \in [Jobs -> Nat] /\ wk \in [Workers -> WorkerType] /\ owner.rev \in Nat
  BY DEF IInv, TypeOK, OwnerType
<1>3. swaps[k] = 0 /\ \A j \in Jobs : jobs[j].active => swaps[j] = 0
  BY <1>1 DEF SwapInv
<1>4. jobs[k].status # "none"
  BY <1>1 DEF IInv, HolderInv
<1>5. swaps'[k] = 1 /\ \A j \in Jobs \ {k} : swaps'[j] = swaps[j]
  BY <1>1, <1>2, <1>3
<1>6. ASSUME NEW v \in Workers, wk'[v].pc = "cas", wk'[v].rev = owner'.rev
      PROVE  FALSE
  <2>1. wk' = [wk EXCEPT ![w] = [IdleWorker EXCEPT !.pc = "settle", !.job = k,
                                                   !.token = wk[w].token]]
    BY DEF SwapContext
  <2>2. wk'[v] = wk[v]
    BY <1>2, <1>6, <2>1 DEF IdleWorker
  <2>3. wk[v].rev <= owner.rev /\ wk[v].rev \in Nat
    BY <1>1, <1>2, <1>6, <2>2 DEF IInv, SnapshotInv, WorkerType
  <2> QED
    BY <1>1, <1>2, <1>6, <2>2, <2>3
<1>7. SwapInv'
  <2>1. ASSUME NEW j \in Jobs
        PROVE  /\ jobs'[j].status = "none" => swaps'[j] = 0
               /\ owner'.live /\ jobs'[j].active /\ swaps'[j] > 0 => owner'.last = j
               /\ owner'.live /\ owner'.last = j => swaps'[j] > 0
    BY <1>1, <1>3, <1>4, <1>5 DEF SwapInv
  <2> QED
    BY <1>6, <2>1 DEF SwapInv
<1>8. SwappedAtMostOnce'
  BY <1>5 DEF SwappedAtMostOnce
<1> QED
  BY <1>7, <1>8

LEMMA SwapStep ==
  ASSUME IInv, ActiveInv, SwapInv, SwappedAtMostOnce, Next
  PROVE  SwapInv' /\ SwappedAtMostOnce'
<1>1. CASE \E w \in Workers : SwapContext(w) /\ CasMatches(w)
  BY <1>1, SwapSwaps
<1>2. CASE swaps' = swaps /\ (owner'.live => owner'.last = owner.last)
  <2>1. owner'.live => owner.live
    BY RevisionGrows
  <2>2. ASSUME NEW j \in Jobs, jobs'[j].active, swaps[j] # 0
        PROVE  jobs[j].active
    BY <2>2, WasActive DEF Shadowed, SwapInv
  <2>3. swaps \in [Jobs -> Nat] /\ wk \in [Workers -> WorkerType] /\ owner.rev \in Nat
    BY DEF IInv, TypeOK, OwnerType
  <2>4. ASSUME NEW j \in Jobs
        PROVE  /\ jobs'[j].status = "none" => swaps'[j] = 0
               /\ owner'.live /\ jobs'[j].active /\ swaps'[j] > 0 => owner'.last = j
               /\ owner'.live /\ owner'.last = j => swaps'[j] > 0
    BY <1>2, <2>1, <2>2, <2>3, CreatedStays DEF SwapInv
  <2>5. ASSUME NEW v \in Workers, owner'.live, wk'[v].pc = "cas", wk'[v].rev = owner'.rev
        PROVE  /\ swaps'[wk'[v].job] = 0
               /\ \A j \in Jobs : jobs'[j].active => swaps'[j] = 0
    <3>1. CASE wk'[v] = wk[v]
      <4>1. wk[v].rev <= owner.rev /\ wk[v].rev \in Nat
        BY <2>1, <2>3, <2>5, <3>1 DEF IInv, SnapshotInv, WorkerType
      <4>2. wk[v].rev = owner.rev
        BY <2>3, <2>5, <3>1, <4>1, RevisionGrows
      <4>3. /\ swaps[wk[v].job] = 0
            /\ \A j \in Jobs : jobs[j].active => swaps[j] = 0
        BY <2>1, <2>5, <3>1, <4>2 DEF SwapInv
      <4> QED
        BY <1>2, <2>2, <3>1, <4>3
    <3>2. CASE Reads(v)
      <4>1. wk[v].job \in Jobs /\ jobs[wk[v].job].active
        BY <3>2, OwnedJob DEF Reads, IInv
      <4>2. swaps[wk[v].job] = 0
        BY <2>3, <3>2, <4>1 DEF Reads, SwapInv
      <4>3. \A j \in Jobs : jobs[j].active => j = wk[v].job
        BY <4>1 DEF ActiveInv
      <4> QED
        BY <3>2, <4>2, <4>3 DEF Reads
    <3> QED
      BY <2>5, <3>1, <3>2, WorkersAct DEF Acts, Proceeds, Claims
  <2> QED
    BY <1>2, <2>4, <2>5 DEF SwapInv, SwappedAtMostOnce
<1> QED
  BY <1>1, <1>2, LastMoves

-----------------------------------------------------------------------------
(* A merge converges.                                                      *)

(* the epoch of a job is frozen once, and the runtime does not go back     *)
LEMMA ReachedStays ==
  ASSUME IInv, Next, NEW i \in Jobs, Evolves(i)
  PROVE  /\ Reached(i) => Reached(i)'
         /\ jobs[i].epoch > 0 => jobs'[i].epoch > 0
<1>1. jobs[i].epoch \in Nat /\ jobs'[i].epoch \in Nat /\ rt.epoch \in Nat /\ rt'.epoch \in Nat
  BY TypeStep DEF IInv, TypeOK, JobType
<1> QED
  BY <1>1, EpochGrows DEF Evolves, Reached

LEMMA MergeStep ==
  ASSUME IInv, ActiveInv, SwapInv, MergeInv, SwappedAtMostOnce, MergedConverged, Next
  PROVE  MergeInv' /\ MergedConverged'
<1>1. /\ jobs \in [Jobs -> JobType] /\ wk \in [Workers -> WorkerType] /\ rt.epoch \in Nat
      /\ jobs' \in [Jobs -> JobType] /\ rt'.epoch \in Nat /\ ConstantsAssumption
  BY TypeStep, ConstantsAssumption DEF IInv, TypeOK
<1>2. ASSUME NEW j \in Jobs, jobs'[j].settled
      PROVE  Reached(j)'
  <2>1. Evolves(j)
    BY <1>2, ErasedJob, JobsEvolve DEF Shadowed
  <2>2. Reached(j)
    BY <1>2, <2>1 DEF Evolves, MergeInv, ActiveInv, ActiveStatus
  <2> QED
    BY <2>1, <2>2, ReachedStays
<1>3. ASSUME NEW j \in Jobs, jobs'[j].replacement
      PROVE  jobs'[j].epoch > 0
  <2>1. Evolves(j)
    BY <1>3, ErasedJob, JobsEvolve DEF Shadowed
  <2>2. jobs[j].epoch > 0
    BY <1>1, <1>3, <2>1 DEF Evolves, MergeInv, JobType
  <2> QED
    BY <2>1, <2>2, ReachedStays
<1>4. ASSUME NEW j \in Jobs, rt'.marker = j
      PROVE  jobs'[j].status # "none" /\ (jobs'[j].status # "deleted" => Reached(j)')
  <2>1. ASSUME rt.marker = j
        PROVE  jobs'[j].status # "none" /\ (jobs'[j].status # "deleted" => Reached(j)')
    BY <2>1, CreatedStays, Remains, ReachedStays DEF MergeInv
  <2>2. ASSUME NEW w \in Workers, SettleRuntime(w), rt.marker # j
        PROVE  jobs'[j].status # "none" /\ (jobs'[j].status # "deleted" => Reached(j)')
    <3>1. wk[w].job \in Jobs /\ jobs[wk[w].job].status # "none" /\ wk[w].pc \in PreparedPcs
      BY <2>2 DEF SettleRuntime, IInv, HolderInv, PreparedPcs
    <3>2. rt' = SettledRuntime(wk[w].job) /\ jobs' = jobs
      BY <2>2 DEF SettleRuntime
    <3>3. /\ wk[w].job = j
          /\ rt'.epoch = IF rt.epoch <= jobs[j].epoch THEN jobs[j].epoch ELSE rt.epoch
      BY <1>4, <2>2, <3>2 DEF SettledRuntime
    <3>4. jobs[j].epoch \in Nat
      BY <1>1 DEF JobType
    <3>5. rt'.epoch >= jobs[j].epoch
      BY <1>1, <3>3, <3>4
    <3>6. jobs[j].status # "deleted" => jobs[j].epoch > 0
      BY <3>1, <3>3 DEF MergeInv
    <3> QED
      BY <3>1, <3>2, <3>3, <3>5, <3>6 DEF Reached
  <2> QED
    BY <1>4, <2>1, <2>2, MarkerMoves
<1>5. ASSUME NEW w \in Workers, wk'[w].pc \in PreparedPcs,
             jobs'[wk'[w].job].status # "deleted"
      PROVE  jobs'[wk'[w].job].epoch > 0
  <2>1. /\ wk[w].pc # "idle" /\ wk'[w].job = wk[w].job
        /\ \/ wk[w].pc \in PreparedPcs
           \/ jobs[wk[w].job].replacement \/ jobs[wk[w].job].epoch # 0
    BY <1>5, WorkersAct DEF Acts, Proceeds, Reads, Claims, PreparedPcs
  <2>2. wk[w].job \in Jobs /\ jobs[wk[w].job].status # "none"
    BY <2>1 DEF IInv, HolderInv
  <2>3. Evolves(wk[w].job) /\ jobs[wk[w].job].status # "deleted"
    BY <1>5, <2>1, <2>2, Remains
  <2>4. jobs[wk[w].job].epoch > 0
    BY <1>1, <2>1, <2>2, <2>3 DEF MergeInv, JobType
  <2> QED
    BY <2>1, <2>2, <2>3, <2>4, ReachedStays
<1>6. MergeInv'
  BY <1>2, <1>3, <1>4, <1>5 DEF MergeInv
<1>7. ASSUME NEW j \in Jobs, jobs'[j].status = "merged"
      PROVE  swaps'[j] = 1 /\ Reached(j)'
  <2>1. Evolves(j)
    BY <1>7, ErasedJob, JobsEvolve DEF Shadowed, Fresh
  <2>2. swaps[j] = 1 /\ Reached(j)
    <3>1. CASE jobs[j].status = "merged"
      BY <3>1 DEF MergedConverged, Reached
    <3>2. CASE owner.live /\ Converged(j)
      <4>1. swaps[j] > 0 /\ Reached(j)
        BY <3>2 DEF Converged, SwapInv, MergeInv
      <4>2. swaps[j] \in Nat /\ swaps[j] <= 1
        BY SwapsGrow DEF SwappedAtMostOnce
      <4> QED
        BY <4>1, <4>2
    <3> QED
      BY <1>7, <2>1, <3>1, <3>2 DEF Evolves
  <2>3. swaps'[j] <= 1
    BY SwapStep DEF SwappedAtMostOnce
  <2> QED
    BY <2>1, <2>2, <2>3, ReachedStays, SwapsGrow
<1>8. MergedConverged'
  BY <1>7 DEF MergedConverged, Reached
<1> QED
  BY <1>6, <1>8

-----------------------------------------------------------------------------
(* Tokens.                                                                 *)

Kept(w) ==
  /\ wk[w].pc \in ClaimPcs
  /\ wk'[w].job = wk[w].job /\ wk'[w].token = wk[w].token

LEMMA HeldBefore ==
  ASSUME IInv, Next, NEW w \in Workers, wk'[w].pc \in ClaimPcs
  PROVE  Kept(w) \/ \E j \in Jobs : Claims(w, j)
  BY WorkersAct DEF Acts, Proceeds, Reads, Kept, ClaimPcs, FencedPcs

(* what a claim that is kept knows of its job                              *)
LEMMA KeptClaim ==
  ASSUME IInv, ActiveInv, TokenInv, Next, NEW w \in Workers, Kept(w)
  PROVE  LET j == wk[w].job IN
         /\ j \in Jobs /\ wk[w].token \in Nat \ {NoLease}
         /\ jobs'[j].status # "deleted" => wk[w].token <= jobs'[j].attempt
         /\ ~Fresh(jobs'[j])
<1> DEFINE j == wk[w].job
<1>1. wk[w] \in WorkerType /\ wk[w].token \in Nat
  BY DEF IInv, TypeOK, WorkerType
<1>2. wk[w].pc # "idle" /\ j \in Jobs /\ jobs[j].status # "none" /\ wk[w].token # NoLease
  BY DEF Kept, ClaimPcs, FencedPcs, IInv, HolderInv
<1>3. ~Fresh(jobs[j]) /\ (jobs[j].status # "deleted" => wk[w].token <= jobs[j].attempt)
  BY DEF Kept, TokenInv
<1>4. jobs[j].attempt \in Nat
  BY <1>2 DEF IInv, TypeOK, JobType
<1>5. ASSUME jobs'[j].status # "deleted"
      PROVE  wk[w].token <= jobs'[j].attempt
  <2>1. Evolves(j) /\ jobs[j].status # "deleted"
    BY <1>2, <1>5, Remains
  <2>2. jobs'[j].attempt = jobs[j].attempt \/ jobs'[j].attempt = jobs[j].attempt + 1
    BY <2>1 DEF Evolves
  <2> QED
    BY <1>1, <1>3, <1>4, <2>1, <2>2
<1>6. ASSUME Fresh(jobs'[j]) PROVE FALSE
  <2>1. Evolves(j)
    BY <1>2, <1>6, WasActive DEF Fresh, Shadowed
  <2> QED
    BY <1>3, <1>6, <2>1 DEF Evolves
<1> QED
  BY <1>1, <1>2, <1>5, <1>6

(* a fence that still names the claim of a worker about to swap, or with   *)
(* which a worker has just installed it                                    *)
LEMMA FencedBefore ==
  ASSUME IInv, TokenInv, Next, NEW w \in Workers, wk[w].pc = "cas",
         owner'.fence.job = wk[w].job, owner'.fence.token = wk[w].token
  PROVE  FencedBy(wk[w].job, wk[w].token)
<1>1. wk[w].job \in Jobs /\ wk[w].job # NoJob
  BY ConstantsAssumption DEF IInv, HolderInv, Jobs
<1>2. ASSUME NEW u \in Workers, wk[u].pc = "fencing", owner'.fence.job = wk[u].job,
             owner'.fence.token = wk[u].token
      PROVE  FALSE
  BY <1>2 DEF TokenInv, ClaimPcs, FencedPcs
<1> QED
  BY <1>1, <1>2, FenceMoves DEF FencedBy

LEMMA TokenStep ==
  ASSUME IInv, ActiveInv, TokenInv, Next
  PROVE  TokenInv'
<1>1. ASSUME NEW w \in Workers, NEW j \in Jobs, Claims(w, j)
      PROVE  /\ wk'[w].token = jobs'[j].attempt /\ ~Fresh(jobs'[j])
             /\ \A v \in Workers \ {w} :
                  /\ wk'[v].pc \in ClaimPcs => Kept(v)
                  /\ wk'[v].pc \in ClaimPcs /\ wk'[v].job = j => wk'[v].token # wk'[w].token
  <2>1. jobs[j].attempt \in Nat
    BY DEF IInv, TypeOK, JobType
  <2>2. ~Fresh(jobs'[j])
    BY <1>1, <2>1 DEF Claims, Fresh
  <2>3. ASSUME NEW v \in Workers \ {w}, wk'[v].pc \in ClaimPcs
        PROVE  Kept(v) /\ (wk'[v].job = j => wk'[v].token # wk'[w].token)
    <3>1. Kept(v)
      BY <1>1, <2>3 DEF Claims, Kept
    <3>2. wk'[v].job = j => wk[v].token <= jobs[j].attempt
      BY <1>1, <3>1 DEF Kept, TokenInv, Claims, ActiveStatus
    <3> QED
      BY <1>1, <2>1, <3>1, <3>2, KeptClaim DEF Kept, Claims
  <2> QED
    BY <1>1, <2>2, <2>3 DEF Claims
<1>2. ASSUME NEW w \in Workers, wk'[w].pc \in ClaimPcs
      PROVE  /\ jobs'[wk'[w].job].status # "deleted" =>
                  wk'[w].token <= jobs'[wk'[w].job].attempt
             /\ ~Fresh(jobs'[wk'[w].job])
  <2>1. CASE Kept(w)
    BY <2>1, KeptClaim DEF Kept
  <2>2. ASSUME NEW j \in Jobs, Claims(w, j)
        PROVE  /\ jobs'[wk'[w].job].status # "deleted" =>
                    wk'[w].token <= jobs'[wk'[w].job].attempt
               /\ ~Fresh(jobs'[wk'[w].job])
    <3>1. wk'[w].job = j /\ wk'[w].token = jobs'[j].attempt /\ ~Fresh(jobs'[j])
      BY <1>1, <2>2 DEF Claims
    <3>2. jobs'[j].attempt \in Nat
      BY TypeStep DEF TypeOK, JobType
    <3> QED
      BY <3>1, <3>2
  <2> QED
    BY <1>2, <2>1, <2>2, HeldBefore
<1>3. ASSUME NEW w \in Workers, NEW v \in Workers \ {w}, wk'[w].pc \in ClaimPcs,
             wk'[v].pc \in ClaimPcs, wk'[v].job = wk'[w].job
      PROVE  wk'[v].token # wk'[w].token
  <2>1. ASSUME NEW j \in Jobs, Claims(w, j) PROVE wk'[v].token # wk'[w].token
    BY <1>1, <1>3, <2>1 DEF Claims
  <2>2. ASSUME NEW j \in Jobs, Claims(v, j) PROVE wk'[v].token # wk'[w].token
    BY <1>1, <1>3, <2>2 DEF Claims
  <2>3. CASE Kept(w) /\ Kept(v)
    BY <1>3, <2>3 DEF Kept, TokenInv
  <2> QED
    BY <1>3, <2>1, <2>2, <2>3, HeldBefore
<1>4. ASSUME NEW w \in Workers, NEW v \in Workers \ {w}, wk'[w].pc = "cas",
             owner'.fence.job = wk'[w].job, owner'.fence.token = wk'[w].token,
             wk'[v].pc \in FencedPcs, wk'[v].job = wk'[w].job
      PROVE  jobs'[wk'[v].job].lease # wk'[v].token
  <2>1. wk'[w].pc \in ClaimPcs /\ wk'[v].pc \in ClaimPcs
    BY <1>4 DEF ClaimPcs, FencedPcs
  <2>2. wk'[v].token # wk'[w].token
    BY <1>3, <1>4, <2>1
  <2>3. CASE Reads(w)
    BY <1>4, <2>2, <2>3 DEF Reads, OwnsLease
  <2>4. CASE wk'[w] = wk[w]
    <3> DEFINE j == wk[w].job
    <3>1. FencedBy(j, wk[w].token)
      BY <1>4, <2>4, FencedBefore
    <3>2. Kept(v)
      BY <1>4, <2>1, HeldBefore DEF Claims, FencedPcs
    <3>3. wk[v].pc \in FencedPcs
      <4>1. ASSUME Proceeds(v), wk[v].pc \notin FencedPcs PROVE FALSE
        <5>1. owner'.fence.token = wk[v].token
          BY <1>4, <4>1 DEF Proceeds
        <5> QED
          BY <1>4, <2>2, <3>2, <5>1 DEF Kept
      <4> QED
        BY <1>4, <4>1, WorkersAct DEF Acts, Reads, Claims, FencedPcs
    <3>4. wk[v].job = j /\ wk'[v].token = wk[v].token /\ wk'[v].job = j
      BY <1>4, <2>4, <3>2 DEF Kept
    <3>5. /\ jobs[j].lease # wk[v].token
          /\ jobs[j].status # "deleted" => wk[v].token <= jobs[j].attempt
      BY <1>4, <2>4, <3>1, <3>3, <3>4 DEF TokenInv, ClaimPcs, FencedPcs
    <3>6. j \in Jobs /\ wk[v].token \in Nat \ {NoLease}
      BY <3>2, <3>4, KeptClaim
    <3>7. jobs[j].attempt \in Nat /\ jobs[j].status # "none"
      BY <1>4, <2>4, <3>6 DEF IInv, TypeOK, JobType, HolderInv
    <3>8. CASE DeleteJobs
      BY <3>4, <3>6, <3>8, ErasedJob
    <3>9. CASE Evolves(j)
      <4>1. \/ jobs'[j].lease \in {jobs[j].lease, NoLease}
            \/ jobs'[j].lease = jobs[j].attempt + 1 /\ jobs[j].status \in ActiveStatus
        BY <3>9 DEF Evolves
      <4>2. jobs[j].status \in ActiveStatus => wk[v].token <= jobs[j].attempt
        BY <3>5 DEF ActiveStatus
      <4> QED
        BY <3>4, <3>5, <3>6, <3>7, <4>1, <4>2
    <3> QED
      BY <3>6, <3>7, <3>8, <3>9, JobsEvolve DEF Shadowed
  <2> QED
    BY <1>4, <2>3, <2>4, WorkersAct DEF Acts, Proceeds, Claims
<1> QED
  BY <1>2, <1>3, <1>4 DEF TokenInv, FencedBy, ClaimPcs

-----------------------------------------------------------------------------
(* What a run holds while its job is unclaimed.                            *)

LEMMA OnlyRuns ==
  ASSUME Next, ~RunStep
  PROVE  run' = run
<1>1. ASSUME NEW w \in Workers, WorkerStep(w) PROVE run' = run
  BY <1>1 DEF WorkerStep, Process, Claim, ReadLease, InstallFence, FailMissing, BeginSummary,
     SaveSummary, FreezeMergeContext, PrepareMerge, ReadOwner, SwapContext, ReadSettlement,
     SettleRuntime, MarkSettled, Finalize, FailConflict, ClearFence, LosesLease, RenewFence,
     StopAfterClaim, CrashWorker, Error
<1>2. ASSUME Command \/ Time PROVE run' = run
  BY <1>2 DEF Command, Terminate, DeleteOwner, DeleteJobs, Time, LapseLease, LapseGuard, Elapse,
     LapseFence, ReapFence
<1> QED
  BY <1>1, <1>2 DEF Next

LEMMA ReplaceOnly ==
  ASSUME IInv, Next, run.pc = "replace"
  PROVE  run' = run \/ run' = IdleRun \/ ReplaceContext
<1>1. ASSUME RunStep PROVE CrashRun \/ ReplaceContext
  BY <1>1 DEF RunStep, RunGuarded, StartRun, AppendTurn, PrepareShadow, AcquireGuard, EnsureGuard,
     CommitTurn, DropTurn, ReleaseGuard, OfferSummary, PauseRun, ExitLoop, FinishRun, SyncCompact,
     CloseFailed
<1>2. CrashRun => run' = IdleRun
  BY DEF CrashRun
<1> QED
  BY <1>1, <1>2, OnlyRuns

(* the run holds the context, as far as OwnedInv says so                   *)
Unclaimed == /\ run.pc \notin {"idle", "replace"}
             /\ run.job = NoJob \/ Fresh(jobs[run.job])

LEMMA OwnedSwap ==
  ASSUME IInv, ActiveInv, TokenInv, OwnedInv, NEW w \in Workers, SwapContext(w), CasMatches(w)
  PROVE  ~Unclaimed
<1> DEFINE j == wk[w].job
<1>1. /\ j \in Jobs /\ jobs[j].active
  BY SwapWrites DEF OwnedInv, CasMatches
<1>2. ~Fresh(jobs[j])
  BY SwapWrites DEF TokenInv, ClaimPcs, FencedPcs
<1>3. CASE run.job = NoJob
  BY <1>1, <1>3 DEF IInv, EpochInv, NoActiveJob, Unclaimed
<1>4. ASSUME run.job # NoJob, Fresh(jobs[run.job])
      PROVE  FALSE
  <2>1. run.job \in Jobs
    BY <1>4, ConstantsAssumption DEF IInv, TypeOK, RunType, Jobs
  <2>2. run.job = j
    BY <1>1, <1>4, <2>1 DEF ActiveInv, Fresh
  <2> QED
    BY <1>2, <1>4, <2>2
<1> QED
  BY <1>3, <1>4 DEF Unclaimed

(* a step that leaves the context and the run's copy alone                 *)
LEMMA UnclaimedBefore ==
  ASSUME IInv, ActiveInv, Next, run'.job = run.job, run.pc \notin {"idle", "replace"},
         run'.job = NoJob \/ Fresh(jobs'[run'.job])
  PROVE  Unclaimed
<1>1. CASE run.job = NoJob
  BY <1>1 DEF Unclaimed
<1>2. CASE run.job # NoJob
  <2>1. run.job \in Jobs
    BY <1>2, ConstantsAssumption DEF IInv, TypeOK, RunType, Jobs
  <2>2. Fresh(jobs'[run.job])
    BY <1>2
  <2>3. Fresh(jobs[run.job])
    BY <1>2, <2>1, <2>2, WasActive DEF Fresh, Evolves, Shadowed
  <2> QED
    BY <2>3 DEF Unclaimed
<1> QED
  BY <1>1, <1>2

LEMMA UnclaimedStep ==
  ASSUME IInv, ActiveInv, TokenInv, OwnedInv, Next,
         run'.pc \notin {"idle", "replace"},
         run'.job = NoJob \/ Fresh(jobs'[run'.job])
  PROVE  owner'.msgs = run'.mem
<1>1. /\ run \in RunType /\ owner \in OwnerType
      /\ Unclaimed => owner.msgs = run.mem
  BY DEF IInv, TypeOK, Unclaimed, OwnedInv
<1>2. CASE \E w \in Workers : SwapContext(w) /\ CasMatches(w)
  <2>1. run' = run
    BY <1>2, SwapWrites
  <2> QED
    BY <1>2, <2>1, OwnedSwap, UnclaimedBefore
<1>3. CASE DeleteOwner
  BY <1>3 DEF DeleteOwner
<1>4. ASSUME NEW pc \in {"running", "release"}, Append1(pc), run.pc \notin {"idle", "replace"}
      PROVE  owner'.msgs = run'.mem
  <2>1. /\ run' = [run EXCEPT !.mem = Append(@, Turn(log + 1)), !.pc = pc]
        /\ owner' = [owner EXCEPT !.msgs = Append(@, Turn(log + 1)), !.rev = @ + 1]
    BY <1>4 DEF Append1
  <2>2. /\ run'.job = run.job /\ run'.mem = Append(run.mem, Turn(log + 1))
        /\ owner'.msgs = Append(owner.msgs, Turn(log + 1))
    BY <1>1, <2>1 DEF RunType, OwnerType
  <2> QED
    BY <1>1, <1>4, <2>2, UnclaimedBefore
<1>5. CASE AppendTurn \/ CommitTurn
  BY <1>4, <1>5 DEF AppendTurn, CommitTurn
<1>6. CASE FinishRun
  BY <1>6 DEF FinishRun, IdleRun
<1>7. CASE ReplaceContext
  BY <1>1, <1>7 DEF ReplaceContext, RunType, OwnerType
<1>8. CASE SameContext /\ ~ReplaceContext
  <2>0. owner'.msgs = owner.msgs
    BY <1>8 DEF SameContext
  <2>1. CASE run' = run
    BY <1>1, <2>0, <2>1, UnclaimedBefore
  <2>2. CASE run' = IdleRun
    BY <2>2 DEF IdleRun
  <2>3. ASSUME NEW r \in RunType, run' = r, RunKeeps(r)
        PROVE  owner'.msgs = run'.mem
    <3>1. run.pc \notin {"idle", "replace"}
      BY <1>8, <2>1, <2>2, <2>3, ReplaceOnly DEF RunKeeps, IdleRun
    <3> QED
      BY <1>1, <2>0, <2>3, <3>1, UnclaimedBefore DEF RunKeeps
  <2>4. ASSUME NEW fresh \in BOOLEAN, StartRun(fresh)
        PROVE  owner'.msgs = run'.mem
    BY <2>0, <2>4 DEF StartRun, IdleRun
  <2>5. ASSUME NEW n \in 1 .. MaxTurns, PrepareShadow(n)
        PROVE  owner'.msgs = run'.mem
    <3>1. run.pc = "running" /\ run.job = NoJob /\ \E j \in Jobs : run' = [run EXCEPT !.job = j]
      BY <2>5 DEF PrepareShadow
    <3>2. run'.mem = run.mem /\ Unclaimed
      BY <1>1, <3>1 DEF RunType, Unclaimed
    <3> QED
      BY <1>1, <2>0, <3>2
  <2>6. CASE SyncCompact
    BY <1>1, <2>6 DEF SyncCompact, RunType
  <2> QED
    BY <1>5, <2>1, <2>2, <2>3, <2>4, <2>5, <2>6, RunFrame DEF IInv
<1> QED
  BY <1>2, <1>3, <1>5, <1>6, <1>7, <1>8, OwnerFrame DEF IInv

LEMMA OwnedStep ==
  ASSUME IInv, ActiveInv, TokenInv, OwnedInv, ~MayCancel, Next
  PROVE  OwnedInv'
<1>1. ASSUME NEW w \in Workers, wk'[w].pc = "cas", owner'.live,
             owner'.fence.job = wk'[w].job, owner'.fence.token = wk'[w].token
      PROVE  jobs'[wk'[w].job].active
  <2>0. owner.live
    BY <1>1, RevisionGrows
  <2>1. CASE Reads(w)
    BY <2>1, OwnedJob DEF Reads, IInv
  <2>2. CASE wk'[w] = wk[w]
    <3> DEFINE j == wk[w].job
    <3>1. FencedBy(j, wk[w].token) /\ j \in Jobs /\ jobs[j].status # "none"
      BY <1>1, <2>2, FencedBefore DEF IInv, HolderInv
    <3>2. jobs[j].active
      BY <1>1, <2>0, <2>2, <3>1 DEF OwnedInv
    <3>3. ~Closing(j)
      <4>1. ASSUME NEW v \in Workers, wk[v].pc \in FencedPcs, wk[v].job = j,
                   jobs[j].lease = wk[v].token, wk'[v].pc # "cas"
            PROVE  FALSE
        BY <1>1, <2>2, <3>1, <4>1 DEF TokenInv, ClaimPcs, FencedPcs
      <4> QED
        BY <4>1 DEF Closing
    <3> QED
      BY <2>0, <2>2, <3>1, <3>2, <3>3, ErasedJob, JobsEvolve DEF Evolves, Shadowed
  <2> QED
    BY <1>1, <2>1, <2>2, WorkersAct DEF Acts, Proceeds, Claims
<1>2. /\ run'.pc \notin {"idle", "replace"}
      /\ run'.job = NoJob \/ Fresh(jobs'[run'.job])
      => owner'.msgs = run'.mem
  BY UnclaimedStep
<1> QED
  BY <1>1, <1>2 DEF OwnedInv, FencedBy, Fresh

-----------------------------------------------------------------------------
(* The invariant holds.                                                    *)

LEMMA MergeInit == Init => MInv
<1> SUFFICES ASSUME Init PROVE MInv
  OBVIOUS
<1> USE ConstantsAssumption DEF Init
<1>1. ActiveInv
  BY DEF ActiveInv, NoRecord, Fresh
<1>2. SwapInv
  BY DEF SwapInv, NoRecord, FreshOwner, IdleWorker, Jobs
<1>3. MergeInv
  BY DEF MergeInv, NoRecord, IdleWorker, PreparedPcs, Jobs
<1>4. TokenInv
  BY DEF TokenInv, IdleWorker, ClaimPcs, FencedPcs
<1>5. OwnedInv
  BY DEF OwnedInv, IdleWorker, IdleRun
<1>6. SwappedAtMostOnce /\ MergedConverged
  BY DEF SwappedAtMostOnce, MergedConverged, NoRecord
<1> QED
  BY <1>1, <1>2, <1>3, <1>4, <1>5, <1>6 DEF MInv

LEMMA MergeNext == IInv /\ MInv /\ [Next]_vars => MInv'
<1> SUFFICES ASSUME IInv, MInv, [Next]_vars PROVE MInv'
  OBVIOUS
<1>1. CASE Next
  BY <1>1, ActiveStep, SwapStep, MergeStep, TokenStep, OwnedStep DEF MInv
<1>2. CASE UNCHANGED vars
  <2> USE <1>2 DEF vars
  <2>1. ActiveInv'
    BY DEF MInv, ActiveInv, Fresh
  <2>2. SwapInv' /\ SwappedAtMostOnce'
    BY DEF MInv, SwapInv, SwappedAtMostOnce
  <2>3. MergeInv' /\ MergedConverged'
    BY DEF MInv, MergeInv, Reached, MergedConverged
  <2>4. TokenInv'
    BY DEF MInv, TokenInv, Fresh, FencedBy
  <2>5. OwnedInv => OwnedInv'
    BY DEF OwnedInv, Fresh, FencedBy
  <2> QED
    BY <2>1, <2>2, <2>3, <2>4, <2>5 DEF MInv
<1> QED
  BY <1>1, <1>2

LEMMA MergeInvariance == Spec => [](IInv /\ MInv)
<1>1. Init => IInv /\ MInv
  BY InitInv, MergeInit
<1>2. IInv /\ MInv /\ [Next]_vars => (IInv /\ MInv)'
  BY NextInv, MergeNext
<1> QED
  BY <1>1, <1>2, PTL DEF Spec

-----------------------------------------------------------------------------
(* Theorems.                                                               *)

(* Whichever workers take a job over, and wherever they crash between the  *)
(* swap and the writes that follow it, the prefix of a job is replaced at  *)
(* most once: the owner names the job it was replaced for, and a swap with *)
(* an older revision does not match (applyPreparedMergeToOwner).           *)
THEOREM SwapsHappenOnce == Spec => []SwappedAtMostOnce
<1>1. MInv => SwappedAtMostOnce
  BY DEF MInv
<1> QED
  BY <1>1, MergeInvariance, PTL

(* A job is merged only after its prefix has been replaced and the runtime *)
(* has reached the epoch frozen in the job, whichever workers performed    *)
(* these writes (settleAppliedCompactionRuntime,                           *)
(* finalizeAppliedCompactionJob).                                          *)
THEOREM MergesConverge == Spec => []MergedConverged
<1>1. MInv => MergedConverged
  BY DEF MInv
<1> QED
  BY <1>1, MergeInvariance, PTL

(* No error, takeover or late worker reopens a job, or turns one terminal  *)
(* status into another, but for the repair of a failed job                 *)
(* (closeFailedCompactionAfterSynchronousRepair).                          *)
THEOREM TerminalIsFinal == Spec => TerminalStable
<1>1. ASSUME IInv, MInv, Next, NEW j \in Jobs, jobs[j].status \in Terminal
      PROVE  \/ jobs'[j].status \in {jobs[j].status, "deleted"}
             \/ jobs[j].status = "failed" /\ jobs'[j].status = "superseded"
  <2>1. jobs[j].status \notin ActiveStatus \cup {"none"}
    BY <1>1 DEF Terminal, ActiveStatus
  <2>2. CASE DeleteJobs
    BY <1>1, <2>1, <2>2, ErasedJob
  <2> QED
    BY <1>1, <2>1, <2>2, JobsEvolve DEF MInv, Evolves, Shadowed
<1>2. IInv /\ MInv /\ [Next]_vars =>
        [\A j \in Jobs : jobs[j].status \in Terminal =>
           \/ jobs'[j].status \in {jobs[j].status, "deleted"}
           \/ jobs[j].status = "failed" /\ jobs'[j].status = "superseded"]_vars
  BY <1>1
<1> QED
  BY <1>2, MergeInvariance, PTL DEF Spec, TerminalStable

(* While the guard of a run lives, the answer that the run computes is     *)
(* about the context that is persisted.  With a command that cancels jobs  *)
(* it is not so: see OnlyActiveJobsSwap (acquireSourceTurnCompactionGuard).*)
THEOREM GuardProtectsTheTurn ==
  ASSUME ~MayCancel
  PROVE  Spec => []GuardedContextCurrent
<1>1. ASSUME IInv, MInv, run.pc \in {"turn", "commit"}, jobs[run.job].guard = "live"
      PROVE  owner.msgs = run.mem
  <2>1. run.job \in Jobs
    BY <1>1 DEF IInv, HolderInv
  <2>2. Fresh(jobs[run.job])
    BY <1>1, <2>1 DEF MInv, ActiveInv
  <2> QED
    BY <1>1, <2>2 DEF MInv, OwnedInv
<1>2. IInv /\ MInv => GuardedContextCurrent
  BY <1>1 DEF GuardedContextCurrent
<1> QED
  BY <1>2, MergeInvariance, PTL

(* Without a command that cancels jobs, the context is only ever replaced  *)
(* for a job that is active, although the filter of the swap does not look *)
(* at the job (applyPreparedMergeToOwner).                                 *)
THEOREM SwapsOnlyForActiveJobs ==
  ASSUME ~MayCancel
  PROVE  Spec => OnlyActiveJobsSwap
<1>1. ASSUME IInv, MInv, Next, NEW j \in Jobs, swaps'[j] # swaps[j]
      PROVE  jobs[j].active
  <2>1. PICK w \in Workers : SwapContext(w) /\ CasMatches(w)
    BY <1>1, LastMoves
  <2>2. swaps' = [swaps EXCEPT ![wk[w].job] = @ + 1] /\ wk[w].pc = "cas"
    BY <1>1, <2>1, SwapWrites
  <2>3. wk[w].job = j
    BY <1>1, <2>2 DEF IInv, TypeOK
  <2> QED
    BY <1>1, <2>1, <2>2, <2>3 DEF MInv, OwnedInv, CasMatches
<1>2. IInv /\ MInv /\ [Next]_vars =>
        [\A j \in Jobs : swaps'[j] # swaps[j] => jobs[j].active]_vars
  BY <1>1 DEF vars
<1> QED
  BY <1>2, MergeInvariance, PTL DEF Spec, OnlyActiveJobsSwap

-----------------------------------------------------------------------------
(* What a reader of the context sees.                                      *)

Segments == [lo : Nat, hi : Nat]

ViewOf(m) == [i \in 1 .. Len(m) |-> [lo |-> m[i].lo, hi |-> m[i].hi]]

LEMMA ViewSeq ==
  ASSUME NEW m \in Seq(Message)
  PROVE  /\ ViewOf(m) \in Seq(Segments) /\ Len(ViewOf(m)) = Len(m) /\ Len(m) \in Nat
         /\ \A i \in 1 .. Len(m) : ViewOf(m)[i] = [lo |-> m[i].lo, hi |-> m[i].hi]
<1>1. Len(m) \in Nat /\ \A i \in 1 .. Len(m) : m[i] \in Message
  BY LenProperties, ElementOfSeq
<1>2. \A i \in 1 .. Len(m) : [lo |-> m[i].lo, hi |-> m[i].hi] \in Segments
  BY <1>1 DEF Message, Segments
<1>3. ViewOf(m) \in [1 .. Len(m) -> Segments]
  BY <1>2 DEF ViewOf
<1>4. ViewOf(m) \in Seq(Segments)
  BY <1>1, <1>3, SeqDef
<1>5. DOMAIN ViewOf(m) = 1 .. Len(m)
  BY DEF ViewOf
<1>6. Len(ViewOf(m)) \in Nat /\ DOMAIN ViewOf(m) = 1 .. Len(ViewOf(m))
  BY <1>4, LenProperties
<1>7. Len(ViewOf(m)) = Len(m)
  BY <1>1, <1>5, <1>6
<1> QED
  BY <1>1, <1>4, <1>7 DEF ViewOf

LEMMA ViewAppend ==
  ASSUME NEW m \in Seq(Message), NEW t \in Message
  PROVE  ViewOf(Append(m, t)) = Append(ViewOf(m), [lo |-> t.lo, hi |-> t.hi])
<1> DEFINE x == [lo |-> t.lo, hi |-> t.hi]
           u == Append(m, t)
           a == ViewOf(u)
           b == Append(ViewOf(m), x)
<1>1. x \in Segments
  BY DEF Message, Segments
<1>2. /\ u \in Seq(Message) /\ Len(u) = Len(m) + 1 /\ u[Len(m) + 1] = t
      /\ \A i \in 1 .. Len(m) : u[i] = m[i]
  BY AppendProperties
<1>3. /\ ViewOf(m) \in Seq(Segments) /\ Len(ViewOf(m)) = Len(m) /\ Len(m) \in Nat
      /\ \A i \in 1 .. Len(m) : ViewOf(m)[i] = [lo |-> m[i].lo, hi |-> m[i].hi]
  BY ViewSeq
<1>4. /\ b \in Seq(Segments) /\ Len(b) = Len(m) + 1 /\ b[Len(m) + 1] = x
      /\ \A i \in 1 .. Len(m) : b[i] = ViewOf(m)[i]
  BY <1>1, <1>3, AppendProperties
<1> HIDE DEF u
<1>5. /\ a \in Seq(Segments) /\ Len(a) = Len(u)
      /\ \A i \in 1 .. Len(u) : a[i] = [lo |-> u[i].lo, hi |-> u[i].hi]
  BY <1>2, ViewSeq
<1> HIDE DEF a, b, x
<1>6. \A i \in 1 .. Len(a) : a[i] = b[i]
  BY <1>2, <1>3, <1>4, <1>5 DEF x
<1> QED
  BY <1>2, <1>4, <1>5, <1>6, SeqEqual DEF a, b, u, x

(* a sequence with one element in the place of a prefix                    *)
LEMMA FoldShape ==
  ASSUME NEW S, NEW q \in Seq(S), NEW x \in S, NEW p \in 1 .. Len(q)
  PROVE  LET r == <<x>> \o SubSeq(q, p + 1, Len(q))
         IN  /\ r \in Seq(S) /\ Len(r) = 1 + (Len(q) - p) /\ r[1] = x
             /\ \A i \in 2 .. Len(r) : r[i] = q[p + i - 1]
<1> DEFINE tail == SubSeq(q, p + 1, Len(q))
           r    == <<x>> \o tail
<1>1. Len(q) \in Nat /\ p \in Nat /\ \A i \in (p + 1) .. Len(q) : q[i] \in S
  BY LenProperties, ElementOfSeq
<1>2. /\ tail \in Seq(S)
      /\ Len(tail) = Len(q) - p
      /\ \A i \in 1 .. (Len(q) - p) : tail[i] = q[p + i]
  <2>1. /\ tail \in Seq(S)
        /\ Len(tail) = IF p + 1 <= Len(q) THEN Len(q) - (p + 1) + 1 ELSE 0
        /\ \A i \in 1 .. (Len(q) - (p + 1) + 1) : tail[i] = q[(p + 1) + i - 1]
    BY <1>1, SubSeqProperties
  <2> HIDE DEF tail
  <2> QED
    BY <1>1, <2>1
<1> HIDE DEF tail
<1>3. <<x>> \in Seq(S) /\ Len(<<x>>) = 1 /\ <<x>>[1] = x
  OBVIOUS
<1>4. /\ r \in Seq(S) /\ Len(r) = 1 + Len(tail)
      /\ \A i \in 1 .. 1 + Len(tail) : r[i] = IF i <= 1 THEN <<x>>[i] ELSE tail[i - 1]
  BY <1>2, <1>3, ConcatProperties
<1> HIDE DEF r
<1>5. r[1] = x
  BY <1>1, <1>2, <1>3, <1>4
<1>6. ASSUME NEW i \in 2 .. Len(r) PROVE r[i] = q[p + i - 1]
  <2>1. r[i] = tail[i - 1] /\ i - 1 \in 1 .. (Len(q) - p) /\ p + (i - 1) = p + i - 1
    BY <1>1, <1>2, <1>4, <1>6
  <2> QED
    BY <1>2, <2>1
<1> QED
  BY <1>2, <1>4, <1>5, <1>6 DEF r, tail

LEMMA ViewFold ==
  ASSUME NEW m \in Seq(Message), NEW p \in 1 .. Len(m), NEW s \in Message,
         s.lo = m[1].lo, s.hi = m[p].hi
  PROVE  LET v == ViewOf(m)
         IN  ViewOf(<<s>> \o SubSeq(m, p + 1, Len(m)))
               = <<[lo |-> v[1].lo, hi |-> v[p].hi]>> \o SubSeq(v, p + 1, Len(v))
<1> DEFINE v == ViewOf(m)
           x == [lo |-> v[1].lo, hi |-> v[p].hi]
           u == <<s>> \o SubSeq(m, p + 1, Len(m))
           a == ViewOf(u)
           b == <<x>> \o SubSeq(v, p + 1, Len(v))
<1>1. /\ v \in Seq(Segments) /\ Len(v) = Len(m) /\ Len(m) \in Nat
      /\ \A i \in 1 .. Len(m) : v[i] = [lo |-> m[i].lo, hi |-> m[i].hi]
  BY ViewSeq
<1>2. 1 \in 1 .. Len(m) /\ p \in Nat
  BY <1>1
<1> HIDE DEF v
<1>3. x = [lo |-> s.lo, hi |-> s.hi] /\ x \in Segments
  <2>1. v[1] = [lo |-> m[1].lo, hi |-> m[1].hi] /\ v[p] = [lo |-> m[p].lo, hi |-> m[p].hi]
    BY <1>1, <1>2
  <2>2. v[1].lo = s.lo /\ v[p].hi = s.hi
    BY <2>1
  <2> QED
    BY <2>2 DEF Message, Segments
<1>4. /\ u \in Seq(Message) /\ Len(u) = 1 + (Len(m) - p) /\ u[1] = s
      /\ \A i \in 2 .. Len(u) : u[i] = m[p + i - 1]
  BY FoldShape
<1> HIDE DEF x, u
<1>5. /\ b \in Seq(Segments) /\ Len(b) = 1 + (Len(v) - p) /\ b[1] = x
      /\ \A i \in 2 .. Len(b) : b[i] = v[p + i - 1]
  BY <1>1, <1>3, FoldShape
<1>6. /\ a \in Seq(Segments) /\ Len(a) = Len(u)
      /\ \A i \in 1 .. Len(u) : a[i] = [lo |-> u[i].lo, hi |-> u[i].hi]
  BY <1>4, ViewSeq
<1> HIDE DEF a, b
<1>7. ASSUME NEW i \in 1 .. Len(a) PROVE a[i] = b[i]
  <2>1. CASE i = 1
    BY <1>3, <1>4, <1>5, <1>6, <2>1
  <2>2. CASE i # 1
    <3>1. i \in 2 .. Len(u) /\ i \in 2 .. Len(b) /\ p + i - 1 \in 1 .. Len(m) /\ i \in 1 .. Len(u)
      BY <1>1, <1>2, <1>4, <1>5, <1>6, <2>2
    <3> QED
      BY <1>1, <1>4, <1>5, <1>6, <3>1
  <2> QED
    BY <2>1, <2>2
<1>8. Len(a) = Len(b)
  BY <1>1, <1>4, <1>5, <1>6
<1>9. a = b
  BY <1>5, <1>6, <1>7, <1>8, SeqEqual
<1> QED
  BY <1>9 DEF a, b, u, x, v

(* A run that may not compact by itself.                                   *)
PlainRun == run.pc # "replace" /\ ~run.compacted

LEMMA PlainStep ==
  ASSUME IInv, PlainRun, MaxSyncs = 0, Next
  PROVE  PlainRun'
<1>1. run \in RunType /\ syncs \in Nat
  BY DEF IInv, TypeOK
<1>2. CASE ~RunStep
  BY <1>2, OnlyRuns DEF PlainRun
<1>3. ASSUME NEW fresh \in BOOLEAN, StartRun(fresh) PROVE PlainRun'
  <2>1. run'.pc = "running" /\ run'.compacted = FALSE
    BY <1>3 DEF StartRun, IdleRun
  <2> QED
    BY <2>1 DEF PlainRun
<1>4. ~SyncCompact /\ ~ReplaceContext
  BY <1>1 DEF SyncCompact, ReplaceContext, PlainRun
<1>5. CASE AppendTurn \/ CommitTurn
  BY <1>1, <1>5 DEF AppendTurn, CommitTurn, Append1, PlainRun, RunType
<1>6. ASSUME NEW n \in 1 .. MaxTurns, PrepareShadow(n) PROVE PlainRun'
  <2>1. \E j \in Jobs : run' = [run EXCEPT !.job = j]
    BY <1>6 DEF PrepareShadow
  <2> QED
    BY <1>1, <2>1 DEF PlainRun, RunType
<1>7. CASE AcquireGuard \/ EnsureGuard \/ DropTurn \/ ReleaseGuard \/ OfferSummary \/ ExitLoop
           \/ CloseFailed
  BY <1>1, <1>7 DEF AcquireGuard, EnsureGuard, DropTurn, ReleaseGuard, OfferSummary, ExitLoop,
     CloseFailed, PlainRun, RunType
<1>8. CASE PauseRun \/ FinishRun \/ CrashRun
  BY <1>8 DEF PauseRun, FinishRun, CrashRun, IdleRun, PlainRun
<1> QED
  BY <1>2, <1>3, <1>4, <1>5, <1>6, <1>7, <1>8 DEF RunStep, RunGuarded

(* every step of the protocol is a step of the promise, or invisible       *)
Folded == {j \in Jobs : swaps[j] > 0}

LEMMA SwapFoldsView ==
  ASSUME IInv, MInv, NEW w \in Workers, SwapContext(w), CasMatches(w)
  PROVE  /\ Len(jobs[wk[w].job].prefix) \in 1 .. Len(View)
         /\ Promise!Fold(wk[w].job, Len(jobs[wk[w].job].prefix))
<1> DEFINE j == wk[w].job
           n == Len(jobs[j].prefix)
           m == owner.msgs
           s == Summary("durable", j, jobs[j].prefix)
<1>1. /\ wk[w].pc = "cas" /\ j \in Jobs /\ wk[w].rev = owner.rev /\ owner.live /\ owner'.live
      /\ swaps' = [swaps EXCEPT ![j] = @ + 1] /\ log' = log
  BY SwapWrites DEF IInv
<1>2. wk[w].msgs = m /\ PrefixIntact(j, m) /\ jobs[j].prefix # <<>>
  BY <1>1 DEF IInv, SnapshotInv
<1>3. /\ swaps \in [Jobs -> Nat] /\ m \in Seq(Message) /\ jobs[j].prefix \in Seq(Message)
      /\ owner \in OwnerType /\ j \in 0 .. MaxJobs
  <2>1. swaps \in [Jobs -> Nat] /\ jobs \in [Jobs -> JobType] /\ owner \in OwnerType
    BY DEF IInv, TypeOK
  <2>2. j \in 0 .. MaxJobs
    BY <1>1, ConstantsAssumption DEF Jobs
  <2> QED
    BY <1>1, <2>1, <2>2 DEF OwnerType, JobType
<1>4. swaps[j] = 0
  BY <1>1 DEF MInv, SwapInv
<1>5. /\ Len(m) \in Nat /\ \A i \in 1 .. Len(m) : m[i] \in Message
      /\ n \in Nat \ {0}
  BY <1>2, <1>3, LenProperties, ElementOfSeq, EmptySeq
<1>6. n \in 1 .. Len(m) /\ jobs[j].prefix = Prefix(m, n)
  BY <1>2, <1>5 DEF PrefixIntact
<1>7. Prefix(m, n)[1] = m[1] /\ Prefix(m, n)[n] = m[n] /\ m[1] \in Message /\ m[n] \in Message
  <2>1. \A i \in 1 .. n : m[i] \in Message
    BY <1>5, <1>6
  <2>2. \A i \in 1 .. n - 1 + 1 : SubSeq(m, 1, n)[i] = m[1 + i - 1]
    BY <1>5, <2>1, SubSeqProperties
  <2>3. 1 \in 1 .. n /\ n \in 1 .. n
    BY <1>5
  <2>4. SubSeq(m, 1, n)[1] = m[1] /\ SubSeq(m, 1, n)[n] = m[n]
    BY <1>5, <2>2, <2>3
  <2> QED
    BY <2>1, <2>3, <2>4 DEF Prefix
<1>8. s \in Message /\ s.lo = m[1].lo /\ s.hi = m[n].hi
  <2>1. s = [kind |-> "durable", job |-> j, lo |-> m[1].lo, hi |-> m[n].hi]
    BY <1>2, <1>6, <1>7 DEF Summary, LastTurn
  <2> HIDE DEF s
  <2> QED
    BY <1>3, <1>7, <2>1 DEF Message
<1>9. owner'.msgs = <<s>> \o SubSeq(m, n + 1, Len(m))
  <2>1. owner' = [owner EXCEPT !.msgs = Merged(j, wk[w].msgs), !.rev = @ + 1,
                               !.last = j, !.fence = NoFence]
    BY DEF SwapContext
  <2>2. owner'.msgs = Merged(j, wk[w].msgs)
    BY <1>3, <2>1 DEF OwnerType
  <2> QED
    BY <1>2, <2>2 DEF Merged
<1> HIDE DEF s, n
<1>10. View = ViewOf(m) /\ View' = ViewOf(owner'.msgs)
  BY DEF View, ViewOf
<1>11. ViewOf(owner'.msgs) = <<[lo |-> ViewOf(m)[1].lo, hi |-> ViewOf(m)[n].hi]>>
                               \o SubSeq(ViewOf(m), n + 1, Len(ViewOf(m)))
  BY <1>3, <1>6, <1>8, <1>9, ViewFold
<1>12. Len(ViewOf(m)) = Len(m)
  BY <1>3, ViewSeq
<1>13. Folded' = Folded \cup {j} /\ j \notin Folded
  <2>1. swaps'[j] = 1 /\ \A i \in Jobs \ {j} : swaps'[i] = swaps[i]
    BY <1>1, <1>3, <1>4
  <2> QED
    BY <1>1, <1>4, <2>1 DEF Folded
<1> HIDE DEF m, j
<1>14. Promise!Fold(j, n)
  BY <1>1, <1>6, <1>10, <1>11, <1>12, <1>13 DEF Promise!Fold, Promise!Segment, Folded
<1>15. n \in 1 .. Len(View)
  BY <1>6, <1>10, <1>12
<1> QED
  BY <1>14, <1>15 DEF j, n

LEMMA AppendAddsTurn ==
  ASSUME IInv, NEW pc \in {"running", "release"}, Append1(pc), run.pc # "idle", swaps' = swaps
  PROVE  Promise!AddTurn
<1>1. owner \in OwnerType /\ owner.msgs \in Seq(Message) /\ log \in Nat /\ owner.live
  BY DEF IInv, TypeOK, OwnerType, ContextInv
<1>2. /\ log' = log + 1
      /\ owner' = [owner EXCEPT !.msgs = Append(@, Turn(log + 1)), !.rev = @ + 1]
  BY DEF Append1
<1>3. owner'.msgs = Append(owner.msgs, Turn(log + 1)) /\ owner'.live = owner.live
  BY <1>1, <1>2 DEF OwnerType
<1>4. /\ Turn(log + 1) \in Message
      /\ Turn(log + 1).lo = log + 1 /\ Turn(log + 1).hi = log + 1
  BY <1>1, ConstantsAssumption DEF Turn, Message
<1>5. View' = ViewOf(owner'.msgs) /\ View = ViewOf(owner.msgs)
  BY DEF View, ViewOf
<1>6. View' = Append(View, [lo |-> log + 1, hi |-> log + 1])
  BY <1>1, <1>3, <1>4, <1>5, ViewAppend
<1> QED
  BY <1>1, <1>2, <1>3, <1>6 DEF Promise!AddTurn, Promise!Segment

LEMMA StepRefines ==
  ASSUME IInv, MInv, PlainRun, MaxSyncs = 0, Next
  PROVE  [Promise!AbsNext]_(Promise!absvars)
<1>1. ASSUME NEW w \in Workers, SwapContext(w), CasMatches(w)
      PROVE  Promise!AbsNext
  <2> DEFINE j == wk[w].job
             n == Len(jobs[wk[w].job].prefix)
  <2>1. j \in Jobs /\ n \in 1 .. Len(View)
    BY <1>1, SwapFoldsView, SwapWrites
  <2>2. Promise!Fold(j, n)
    BY <1>1, SwapFoldsView
  <2> HIDE DEF j, n
  <2> QED
    BY <2>1, <2>2 DEF Promise!AbsNext, Promise!Fold
<1>2. CASE swaps' = swaps
  <2>1. CASE log' = log /\ owner'.live = owner.live /\ owner'.msgs = owner.msgs
    <3>1. View' = View
      BY <2>1 DEF View
    <3> QED
      BY <1>2, <2>1, <3>1 DEF Promise!absvars
  <2>2. CASE AppendTurn \/ CommitTurn
    <3>1. Promise!AddTurn
      BY <1>2, <2>2, AppendAddsTurn DEF AppendTurn, CommitTurn
    <3> QED
      BY <3>1 DEF Promise!AbsNext
  <2>3. CASE FinishRun
    BY <2>1, <2>3 DEF FinishRun, PlainRun
  <2>4. CASE DeleteOwner
    <3>1. owner.live /\ owner'.live = FALSE /\ owner'.msgs = <<>> /\ log' = log
      BY <2>4 DEF DeleteOwner, FreshOwner
    <3>2. View' = <<>>
      BY <3>1 DEF View
    <3>3. Promise!Delete
      BY <1>2, <3>1, <3>2 DEF Promise!Delete
    <3> QED
      BY <3>3 DEF Promise!AbsNext
  <2> QED
    BY <2>1, <2>2, <2>3, <2>4, <1>1, OwnerFrame DEF IInv, SameContext, ReplaceContext, PlainRun
<1> QED
  BY <1>1, <1>2, LastMoves

(* The protocol implements the promise that ContextReplacement makes to    *)
(* the reader of a context: whatever workers, runs and crashes do, it only *)
(* ever sees a turn appended, a prefix folded once for its job, or the end *)
(* of the context (appendConversationMessages, applyPreparedMergeToOwner). *)
(* A run that compacts by itself replaces the context without a job, which *)
(* the promise does not allow: hence MaxSyncs = 0.                         *)
THEOREM Implements ==
  ASSUME MaxSyncs = 0
  PROVE  Spec => ImplementsContextReplacement
<1>1. Init => Promise!AbsInit
  <2> SUFFICES ASSUME Init PROVE Promise!AbsInit
    OBVIOUS
  <2>1. log = 0 /\ owner.live = TRUE /\ owner.msgs = <<>> /\ swaps = [j \in Jobs |-> 0]
    BY DEF Init, FreshOwner
  <2>2. View = <<>> /\ {j \in Jobs : swaps[j] > 0} = {}
    BY <2>1 DEF View
  <2> QED
    BY <2>1, <2>2 DEF Promise!AbsInit
<1>2. Init => PlainRun
  BY DEF Init, IdleRun, PlainRun
<1>3. IInv /\ PlainRun /\ [Next]_vars => PlainRun'
  BY PlainStep DEF PlainRun, vars
<1>4. IInv /\ MInv /\ PlainRun /\ [Next]_vars => [Promise!AbsNext]_(Promise!absvars)
  <2>1. ASSUME UNCHANGED vars PROVE UNCHANGED Promise!absvars
    BY <2>1 DEF vars, View, Promise!absvars
  <2> QED
    BY <2>1, StepRefines
<1> QED
  BY <1>1, <1>2, <1>3, <1>4, MergeInvariance, PTL
     DEF Spec, ImplementsContextReplacement, Promise!AbsSpec
=============================================================================
