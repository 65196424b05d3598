----------------------- MODULE DurableCompaction_proofs -----------------------
(***************************************************************************)
(* Proofs about DurableCompaction, for any number of workers, jobs, turns  *)
(* and faults.                                                             *)
(***************************************************************************)
EXTENDS DurableCompaction, SequenceTheorems, TLAPS

-----------------------------------------------------------------------------
(* Chains of messages.                                                     *)

(* a new turn continues the chain                                          *)
LEMMA AppendChain ==
  ASSUME NEW n \in Nat, NEW msgs \in Seq(Message), Chain(msgs, n)
  PROVE  /\ Append(msgs, Turn(n + 1)) \in Seq(Message)
         /\ Chain(Append(msgs, Turn(n + 1)), n + 1)
<1> DEFINE t == Turn(n + 1)
           new == Append(msgs, t)
<1>1. t \in Message /\ t.lo = n + 1 /\ t.hi = n + 1
  BY ConstantsAssumption DEF Turn, Message, NoJob
<1>2. /\ new \in Seq(Message)
      /\ new # <<>>
      /\ Len(new) = Len(msgs) + 1
      /\ \A i \in 1 .. Len(msgs) : new[i] = msgs[i]
      /\ new[Len(msgs) + 1] = t
  BY <1>1, AppendProperties
<1>3. Len(msgs) \in Nat /\ (msgs = <<>> <=> Len(msgs) = 0)
  BY LenProperties, EmptySeq
<1> HIDE DEF t, new
<1>4. LastTurn(new) = n + 1
  BY <1>1, <1>2, <1>3 DEF LastTurn
<1>5. new[1].lo = 1
  BY <1>1, <1>2, <1>3 DEF LastTurn, Chain
<1>6. \A i \in 1 .. Len(new) : new[i].lo \in 1 .. new[i].hi
  BY <1>1, <1>2, <1>3 DEF Chain
<1>7. \A i \in 1 .. (Len(new) - 1) : new[i + 1].lo = new[i].hi + 1
  BY <1>1, <1>2, <1>3 DEF LastTurn, Chain
<1>8. QED
  BY <1>2, <1>4, <1>5, <1>6, <1>7 DEF Chain, t, new

(* one message may stand for a prefix of the chain                         *)
LEMMA FoldChain ==
  ASSUME NEW n \in Nat, NEW msgs \in Seq(Message), Chain(msgs, n),
         NEW p \in 1 .. Len(msgs),
         NEW kind \in {"durable", "sync"}, NEW j \in 0 .. MaxJobs
  PROVE  LET new == <<Summary(kind, j, Prefix(msgs, p))>>
                      \o SubSeq(msgs, p + 1, Len(msgs))
         IN  new \in Seq(Message) /\ Chain(new, n)
<1> DEFINE pre  == Prefix(msgs, p)
           s    == Summary(kind, j, pre)
           tail == SubSeq(msgs, p + 1, Len(msgs))
           new  == <<s>> \o tail
<1>1. Len(msgs) \in Nat /\ p \in Nat /\ \A i \in 1 .. Len(msgs) : msgs[i] \in Message
  BY LenProperties, ElementOfSeq
<1>2. /\ pre \in Seq(Message)
      /\ Len(pre) = p
      /\ \A i \in 1 .. p : pre[i] = msgs[i]
  BY <1>1, SubSeqProperties DEF Prefix
<1>3. /\ tail \in Seq(Message)
      /\ Len(tail) = Len(msgs) - p
      /\ \A i \in 1 .. (Len(msgs) - p) : tail[i] = msgs[p + i]
  <2>1. \A i \in (p + 1) .. Len(msgs) : msgs[i] \in Message
    BY <1>1
  <2>2. /\ tail \in Seq(Message)
        /\ Len(tail) = IF p + 1 <= Len(msgs) THEN Len(msgs) - (p + 1) + 1 ELSE 0
        /\ \A i \in 1 .. (Len(msgs) - (p + 1) + 1) : tail[i] = msgs[p + 1 + i - 1]
    BY <1>1, <2>1, SubSeqProperties
  <2> HIDE DEF tail
  <2>3. QED
    BY <1>1, <2>2
<1>4. pre # <<>>
  BY <1>1, <1>2, EmptySeq
<1>5. LastTurn(pre) = msgs[p].hi
  BY <1>1, <1>2, <1>4 DEF LastTurn
<1>6. msgs[1].lo = 1 /\ msgs[p].lo \in 1 .. msgs[p].hi /\ msgs[p].hi \in Nat
  BY <1>1 DEF Chain, Message
<1> HIDE DEF pre, tail
<1>7. s \in Message /\ s.lo = 1 /\ s.hi = msgs[p].hi
  <2>1. pre[1].lo = 1
    BY <1>1, <1>2, <1>6
  <2>2. s = [kind |-> kind, job |-> j, lo |-> 1, hi |-> msgs[p].hi]
    BY <1>5, <2>1 DEF Summary
  <2> HIDE DEF s
  <2>3. QED
    BY <1>6, <2>2 DEF Message
<1> HIDE DEF s
<1>8. <<s>> \in Seq(Message) /\ Len(<<s>>) = 1 /\ <<s>>[1] = s
  BY <1>7
<1>9. /\ new \in Seq(Message)
      /\ Len(new) = 1 + (Len(msgs) - p)
      /\ \A i \in 1 .. (1 + (Len(msgs) - p)) :
           new[i] = IF i <= 1 THEN s ELSE tail[i - 1]
  <2>1. /\ new \in Seq(Message)
        /\ Len(new) = Len(<<s>>) + Len(tail)
        /\ \A i \in 1 .. (Len(<<s>>) + Len(tail)) :
             new[i] = IF i <= Len(<<s>>) THEN <<s>>[i] ELSE tail[i - Len(<<s>>)]
    BY <1>3, <1>8, ConcatProperties
  <2> HIDE DEF new
  <2>2. \A i \in 1 .. (1 + (Len(msgs) - p)) : i <= 1 => i = 1
    BY <1>1
  <2>3. QED
    BY <1>1, <1>3, <1>8, <2>1, <2>2
<1> HIDE DEF new
<1>10. new[1] = s /\ \A i \in 2 .. (1 + (Len(msgs) - p)) : new[i] = msgs[p + i - 1]
  <2>1. new[1] = s
    BY <1>1, <1>9
  <2>2. ASSUME NEW i \in 2 .. (1 + (Len(msgs) - p))
        PROVE  new[i] = msgs[p + i - 1]
    <3>1. i \in 1 .. (1 + (Len(msgs) - p)) /\ ~(i <= 1)
      BY <1>1
    <3>2. i - 1 \in 1 .. (Len(msgs) - p) /\ p + (i - 1) = p + i - 1
      BY <1>1
    <3>3. QED BY <1>3, <1>9, <3>1, <3>2
  <2>3. QED BY <2>1, <2>2
<1>11. new # <<>> /\ LastTurn(new) = n
  <2>1. new # <<>>
    BY <1>1, <1>9, EmptySeq
  <2>2. msgs[Len(msgs)].hi = n
    BY <1>1, EmptySeq DEF Chain, LastTurn
  <2>3. new[1 + (Len(msgs) - p)].hi = msgs[Len(msgs)].hi
    <3>1. CASE p = Len(msgs)
      BY <3>1, <1>1, <1>7, <1>10
    <3>2. CASE p # Len(msgs)
      BY <3>2, <1>1, <1>10
    <3>3. QED BY <3>1, <3>2
  <2>4. QED BY <1>9, <2>1, <2>2, <2>3 DEF LastTurn
<1>12. \A i \in 1 .. Len(new) : new[i].lo \in 1 .. new[i].hi
  <2> SUFFICES ASSUME NEW i \in 1 .. Len(new)
               PROVE  new[i].lo \in 1 .. new[i].hi
    OBVIOUS
  <2>1. CASE i = 1
    BY <2>1, <1>6, <1>7, <1>10
  <2>2. CASE i # 1
    <3>1. i \in 2 .. (1 + (Len(msgs) - p))
      BY <2>2, <1>1, <1>9
    <3>2. new[i] = msgs[p + i - 1]
      BY <3>1, <1>10
    <3>3. p + i - 1 \in 1 .. Len(msgs)
      BY <3>1, <1>1
    <3>4. QED BY <3>2, <3>3 DEF Chain
  <2>3. QED BY <2>1, <2>2
<1>13. \A i \in 1 .. (Len(new) - 1) : new[i + 1].lo = new[i].hi + 1
  <2> SUFFICES ASSUME NEW i \in 1 .. (Len(new) - 1)
               PROVE  new[i + 1].lo = new[i].hi + 1
    OBVIOUS
  <2>1. new[i + 1] = msgs[p + i] /\ p + i - 1 \in 1 .. (Len(msgs) - 1)
    <3>1. i + 1 \in 2 .. (1 + (Len(msgs) - p)) /\ p + (i + 1) - 1 = p + i
      BY <1>1, <1>9
    <3>2. new[i + 1] = msgs[p + (i + 1) - 1]
      BY <3>1, <1>10
    <3>3. p + i - 1 \in 1 .. (Len(msgs) - 1)
      BY <1>1, <1>9
    <3>4. QED BY <3>1, <3>2, <3>3
  <2>2. new[i].hi = msgs[p + i - 1].hi
    <3>1. CASE i = 1
      BY <3>1, <1>1, <1>7, <1>10
    <3>2. CASE i # 1
      <4>1. i \in 2 .. (1 + (Len(msgs) - p))
        BY <3>2, <1>1, <1>9
      <4>2. new[i] = msgs[p + i - 1]
        BY <4>1, <1>10
      <4>3. QED BY <4>2
    <3>3. QED BY <3>1, <3>2
  <2>3. msgs[(p + i - 1) + 1].lo = msgs[p + i - 1].hi + 1
    BY <2>1 DEF Chain
  <2>4. (p + i - 1) + 1 = p + i
    BY <1>1
  <2>5. QED BY <2>1, <2>2, <2>3, <2>4
<1>14. Chain(new, n)
  BY <1>7, <1>10, <1>11, <1>12, <1>13 DEF Chain
<1>15. QED
  BY <1>9, <1>14 DEF new, s, tail, pre

-----------------------------------------------------------------------------
(* What a step may do to the jobs.                                         *)

USE DEF NoJob, NoLease

(* a job changes and keeps what the invariant says of it                   *)
Keeps(r, q) ==
  /\ r.prefix = q.prefix
  /\ r.epoch = q.epoch
  /\ r.active => q.active
  /\ r.lease # NoLease => r.active
  /\ q.status # "none" => r.status # "none"

JobChange ==
  \E j \in Jobs, r \in JobType :
    jobs' = [jobs EXCEPT ![j] = r] /\ Keeps(r, jobs[j])

LEMMA OneJob ==
  ASSUME NEW j \in Jobs, NEW r \in JobType, Keeps(r, jobs[j]),
         jobs' = [jobs EXCEPT ![j] = r]
  PROVE  JobChange
  BY DEF JobChange

LEMMA ClosedKeeps ==
  ASSUME TypeOK, NEW j \in Jobs, NEW st \in Terminal, jobs' = Closed(j, st)
  PROVE  JobChange
<1> DEFINE q == jobs[j]
           r == [q EXCEPT !.status = st, !.active = FALSE, !.lease = NoLease,
                          !.leaseLive = FALSE, !.guard = "none"]
<1>1. q \in JobType
  BY DEF TypeOK
<1>2. jobs' = [jobs EXCEPT ![j] = r]
  BY DEF Closed
<1>3. r \in JobType /\ Keeps(r, q)
  BY <1>1 DEF JobType, Keeps, Status, Terminal
<1>4. QED
  BY <1>2, <1>3 DEF JobChange

LEMMA ReleasedKeeps ==
  ASSUME TypeOK, NEW j \in Jobs,
         \/ jobs' = Released(j)
         \/ jobs' = [Released(j) EXCEPT ![j].delayed = FALSE]
  PROVE  JobChange
<1> DEFINE q == jobs[j]
           r(late) == [q EXCEPT !.status = "retryable", !.lease = NoLease,
                                !.leaseLive = FALSE, !.delayed = late,
                                !.guard = "none"]
<1>1. q \in JobType
  BY DEF TypeOK
<1>2. jobs' = [jobs EXCEPT ![j] = r(TRUE)] \/ jobs' = [jobs EXCEPT ![j] = r(FALSE)]
  <2>1. CASE jobs' = Released(j)
    BY <2>1 DEF Released
  <2>2. CASE jobs' = [Released(j) EXCEPT ![j].delayed = FALSE]
    <3>1. Released(j) = [jobs EXCEPT ![j] = r(TRUE)]
      BY DEF Released
    <3>2. jobs' = [[jobs EXCEPT ![j] = r(TRUE)] EXCEPT ![j].delayed = FALSE]
      BY <2>2, <3>1
    <3>3. [r(TRUE) EXCEPT !.delayed = FALSE] = r(FALSE)
      BY <1>1 DEF JobType
    <3>4. jobs \in [Jobs -> JobType]
      BY DEF TypeOK
    <3> HIDE DEF r
    <3>5. QED BY <3>2, <3>3, <3>4
  <2>3. QED BY <2>1, <2>2
<1>3. ASSUME NEW late \in BOOLEAN PROVE r(late) \in JobType /\ Keeps(r(late), q)
  BY <1>1 DEF JobType, Keeps, Status, ActiveStatus
<1> HIDE DEF r
<1>4. QED
  BY <1>2, <1>3, OneJob

LEMMA ActivatedKeeps ==
  ASSUME TypeOK, JobInv, NEW j \in 0 .. MaxJobs, jobs' = Activated(j)
  PROVE  jobs' = jobs \/ JobChange
<1> DEFINE q == jobs[j]
           r == [q EXCEPT !.delayed = FALSE, !.guard = "none"]
<1>1. SUFFICES ASSUME jobs' # jobs PROVE JobChange
  OBVIOUS
<1>2. j \in Jobs /\ q.active /\ q.status \in ActiveStatus
  BY <1>1, ConstantsAssumption DEF Activated, Jobs
<1>3. q \in JobType
  BY <1>2 DEF TypeOK
<1>4. jobs' = [jobs EXCEPT ![j] = r]
  BY <1>1 DEF Activated
<1>5. r \in JobType /\ Keeps(r, q)
  BY <1>2, <1>3 DEF JobType, Keeps, ActiveStatus, JobInv
<1>6. QED
  BY <1>2, <1>4, <1>5 DEF JobChange

LEMMA OwnedJob ==
  ASSUME TypeOK, JobInv, HolderInv, NEW w \in Workers, OwnsLease(w),
         wk[w].pc # "idle"
  PROVE  /\ wk[w].job \in Jobs
         /\ jobs[wk[w].job] \in JobType
         /\ jobs[wk[w].job].active
         /\ jobs[wk[w].job].lease # NoLease
         /\ jobs[wk[w].job].prefix # <<>>
  BY DEF TypeOK, JobInv, HolderInv, OwnsLease

(* every step leaves the jobs alone, changes one in this way, creates one, *)
(* freezes the epoch of one, or deletes them all                           *)
LEMMA JobsFrame ==
  ASSUME TypeOK, JobInv, HolderInv, Next
  PROVE  \/ jobs' = jobs
         \/ JobChange
         \/ \E n \in 1 .. MaxTurns : PrepareShadow(n)
         \/ \E w \in Workers : FreezeMergeContext(w)
         \/ DeleteJobs
<1> DEFINE Frame == \/ jobs' = jobs
                    \/ JobChange
                    \/ \E n \in 1 .. MaxTurns : PrepareShadow(n)
                    \/ \E w \in Workers : FreezeMergeContext(w)
                    \/ DeleteJobs
<1> USE ConstantsAssumption
<1>t. /\ \A j \in Jobs : jobs[j] \in JobType
      /\ run.job \in 0 .. MaxJobs
      /\ run.failed \in 0 .. MaxJobs
  BY DEF TypeOK, RunType
<1>1. ASSUME NEW fresh \in BOOLEAN, StartRun(fresh) PROVE Frame
  BY <1>1 DEF StartRun
<1>2. ASSUME \/ AppendTurn \/ EnsureGuard \/ CommitTurn \/ DropTurn
             \/ FinishRun \/ SyncCompact \/ ReplaceContext \/ CrashRun
      PROVE  Frame
  BY <1>2 DEF AppendTurn, EnsureGuard, CommitTurn, DropTurn, FinishRun,
     SyncCompact, ReplaceContext, CrashRun
<1>3. ASSUME AcquireGuard PROVE Frame
  <2> DEFINE q == jobs[run.job]
             r == [q EXCEPT !.guard = "live"]
  <2>1. /\ run.job \in Jobs /\ q.active
        /\ jobs' = [jobs EXCEPT ![run.job] = r]
    BY <1>3, <1>t DEF AcquireGuard, CanGuard, Jobs
  <2>2. q \in JobType
    BY <1>t, <2>1
  <2>3. r \in JobType /\ Keeps(r, q)
    BY <2>1, <2>2 DEF JobType, Keeps
  <2> HIDE DEF r
  <2>4. QED BY <2>1, <2>3, OneJob
<1>4. ASSUME ReleaseGuard PROVE Frame
  <2> DEFINE q == jobs[run.job]
             r == [q EXCEPT !.guard = "none"]
  <2>1. run.job \in Jobs /\ jobs' = [jobs EXCEPT ![run.job] = r]
    BY <1>4 DEF ReleaseGuard, HolderInv
  <2>2. q \in JobType /\ (q.lease # NoLease => q.active)
    BY <1>t, <2>1 DEF JobInv
  <2>3. r \in JobType /\ Keeps(r, q)
    BY <2>2 DEF JobType, Keeps
  <2> HIDE DEF r
  <2>4. QED BY <2>1, <2>3, OneJob
<1>5. ASSUME OfferSummary PROVE Frame
  <2> DEFINE q == jobs[run.job]
             r == [q EXCEPT !.status = "summary_ready", !.summary = TRUE,
                            !.delayed = FALSE, !.guard = "none"]
  <2>1. run.job \in Jobs /\ q.active
    BY <1>5, <1>t DEF OfferSummary, CanOffer, Jobs
  <2>2. jobs' = [jobs EXCEPT ![run.job] = r]
    BY <1>5 DEF OfferSummary
  <2>3. q \in JobType
    BY <1>t, <2>1
  <2>4. r \in JobType /\ Keeps(r, q)
    BY <2>1, <2>3 DEF JobType, Keeps, Status, ActiveStatus
  <2> HIDE DEF r
  <2>5. QED BY <2>1, <2>2, <2>4, OneJob
<1>6. ASSUME PauseRun \/ ExitLoop PROVE Frame
  <2>1. jobs' = Activated(run.job)
    BY <1>6 DEF PauseRun, ExitLoop
  <2>2. QED BY <2>1, <1>t, ActivatedKeeps
<1>7. ASSUME CloseFailed PROVE Frame
  <2> DEFINE q == jobs[run.failed]
             r == [q EXCEPT !.status = "superseded"]
  <2>1. SUFFICES ASSUME jobs' # jobs PROVE JobChange
    OBVIOUS
  <2>2. run.failed \in Jobs /\ jobs' = [jobs EXCEPT ![run.failed] = r]
    BY <1>7, <2>1 DEF CloseFailed, HolderInv
  <2>3. q \in JobType /\ (q.lease # NoLease => q.active)
    BY <1>t, <2>2 DEF JobInv
  <2>4. r \in JobType /\ Keeps(r, q)
    BY <2>3 DEF JobType, Keeps, Status, Terminal
  <2> HIDE DEF r
  <2>5. QED BY <2>2, <2>4, OneJob
<1>8. ASSUME NEW w \in Workers, NEW j \in Jobs, Claim(w, j) PROVE Frame
  <2> DEFINE q == jobs[j]
             t == q.attempt + 1
             r == [q EXCEPT !.lease = t, !.leaseLive = TRUE, !.attempt = t,
                            !.guard = "none"]
  <2>1. q.active /\ jobs' = [jobs EXCEPT ![j] = r]
    BY <1>8 DEF Claim, Claimable
  <2>2. q \in JobType
    BY <1>t
  <2>3. t \in Nat
    BY <2>2 DEF JobType
  <2> HIDE DEF t
  <2>4. r \in JobType
    BY <2>2, <2>3 DEF JobType
  <2>5. Keeps(r, q)
    BY <2>1, <2>2 DEF JobType, Keeps
  <2> HIDE DEF r
  <2>6. QED BY <2>1, <2>4, <2>5, OneJob
<1>9. ASSUME NEW w \in Workers,
             \/ ReadLease(w) \/ InstallFence(w) \/ ReadOwner(w)
             \/ SwapContext(w) \/ ReadSettlement(w) \/ SettleRuntime(w)
             \/ ClearFence(w) \/ LosesLease(w) \/ RenewFence(w)
             \/ CrashWorker(w)
      PROVE  Frame
  BY <1>9 DEF ReadLease, InstallFence, ReadOwner, SwapContext, ReadSettlement,
     SettleRuntime, ClearFence, LosesLease, RenewFence, CrashWorker
<1>10. ASSUME NEW w \in Workers, FailMissing(w) PROVE Frame
  <2>1. wk[w].job \in Jobs
    BY <1>10 DEF FailMissing, HolderInv
  <2>2. jobs' = jobs \/ jobs' = Closed(wk[w].job, "failed")
    BY <1>10 DEF FailMissing
  <2>3. "failed" \in Terminal
    BY DEF Terminal
  <2>4. QED BY <2>1, <2>2, <2>3, ClosedKeeps
<1>11. ASSUME NEW w \in Workers, BeginSummary(w) PROVE Frame
  <2> DEFINE j == wk[w].job
             r == [jobs[j] EXCEPT !.status = "summarizing"]
  <2>1. jobs' = [jobs EXCEPT ![j] = r] /\ OwnsLease(w) /\ wk[w].pc # "idle"
    BY <1>11 DEF BeginSummary
  <2>2. /\ j \in Jobs /\ jobs[j] \in JobType /\ jobs[j].active
    BY <2>1, OwnedJob
  <2>3. r \in JobType /\ Keeps(r, jobs[j])
    BY <2>2 DEF JobType, Keeps, Status, ActiveStatus
  <2> HIDE DEF j, r
  <2>4. QED BY <2>1, <2>2, <2>3, OneJob
<1>12. ASSUME NEW w \in Workers, SaveSummary(w) PROVE Frame
  <2> DEFINE j == wk[w].job
             r == [jobs[j] EXCEPT !.status = "summary_ready", !.summary = TRUE]
  <2>1. jobs' = [jobs EXCEPT ![j] = r] /\ OwnsLease(w) /\ wk[w].pc # "idle"
    BY <1>12 DEF SaveSummary
  <2>2. /\ j \in Jobs /\ jobs[j] \in JobType /\ jobs[j].active
    BY <2>1, OwnedJob
  <2>3. r \in JobType /\ Keeps(r, jobs[j])
    BY <2>2 DEF JobType, Keeps, Status, ActiveStatus
  <2> HIDE DEF j, r
  <2>4. QED BY <2>1, <2>2, <2>3, OneJob
<1>13. ASSUME NEW w \in Workers, PrepareMerge(w) PROVE Frame
  <2> DEFINE j == wk[w].job
             r == [jobs[j] EXCEPT !.status = "merge_prepared", !.replacement = TRUE]
  <2>1. jobs' = [jobs EXCEPT ![j] = r] /\ OwnsLease(w) /\ wk[w].pc # "idle"
    BY <1>13 DEF PrepareMerge
  <2>2. /\ j \in Jobs /\ jobs[j] \in JobType /\ jobs[j].active
    BY <2>1, OwnedJob
  <2>3. r \in JobType /\ Keeps(r, jobs[j])
    BY <2>2 DEF JobType, Keeps, Status, ActiveStatus
  <2> HIDE DEF j, r
  <2>4. QED BY <2>1, <2>2, <2>3, OneJob
<1>14. ASSUME NEW w \in Workers, MarkSettled(w) PROVE Frame
  <2> DEFINE j == wk[w].job
             r == [jobs[j] EXCEPT !.settled = TRUE]
  <2>1. /\ jobs' = jobs \/ jobs' = [jobs EXCEPT ![j] = r]
        /\ OwnsLease(w) /\ wk[w].pc # "idle"
    BY <1>14 DEF MarkSettled
  <2>2. /\ j \in Jobs /\ jobs[j] \in JobType /\ jobs[j].active
    BY <2>1, OwnedJob
  <2>3. r \in JobType /\ Keeps(r, jobs[j])
    BY <2>2 DEF JobType, Keeps
  <2> HIDE DEF j, r
  <2>4. QED BY <2>1, <2>2, <2>3, OneJob
<1>15. ASSUME NEW w \in Workers, Finalize(w) \/ FailConflict(w) PROVE Frame
  <2>1. OwnsLease(w) /\ wk[w].pc # "idle"
    BY <1>15 DEF Finalize, FailConflict
  <2>2. wk[w].job \in Jobs
    BY <2>1, OwnedJob
  <2>3. \/ jobs' = jobs
        \/ jobs' = Closed(wk[w].job, "merged")
        \/ jobs' = Closed(wk[w].job, "failed")
    BY <1>15 DEF Finalize, FailConflict
  <2>4. "failed" \in Terminal /\ "merged" \in Terminal
    BY DEF Terminal
  <2>5. QED BY <2>2, <2>3, <2>4, ClosedKeeps
<1>16. ASSUME NEW w \in Workers, NEW fatal \in BOOLEAN, Error(w, fatal) PROVE Frame
  <2>1. SUFFICES ASSUME jobs' # jobs PROVE JobChange
    OBVIOUS
  <2>2. OwnsLease(w) /\ wk[w].pc # "idle"
    BY <1>16, <2>1 DEF Error
  <2>3. wk[w].job \in Jobs
    BY <2>2, OwnedJob
  <2>4. jobs' = Closed(wk[w].job, "failed") \/ jobs' = Released(wk[w].job)
    BY <1>16, <2>2 DEF Error
  <2>5. CASE jobs' = Closed(wk[w].job, "failed")
    BY <2>3, <2>5, ClosedKeeps DEF Terminal
  <2>6. CASE jobs' = Released(wk[w].job)
    BY <2>3, <2>6, ReleasedKeeps
  <2>7. QED BY <2>4, <2>5, <2>6
<1>17. ASSUME NEW w \in Workers, StopAfterClaim(w) PROVE Frame
  <2>1. OwnsLease(w) /\ wk[w].pc # "idle"
    BY <1>17 DEF StopAfterClaim
  <2>2. wk[w].job \in Jobs
    BY <2>1, OwnedJob
  <2>3. jobs' = [Released(wk[w].job) EXCEPT ![wk[w].job].delayed = FALSE]
    BY <1>17 DEF StopAfterClaim
  <2>4. QED BY <2>2, <2>3, ReleasedKeeps
<1>18. ASSUME NEW w \in Workers, NEW j \in Jobs,
              NEW st \in {"cancelled", "superseded"}, Terminate(w, j, st)
       PROVE  Frame
  <2>1. jobs' = Closed(j, st) /\ st \in Terminal
    BY <1>18 DEF Terminate, Terminal
  <2>2. QED BY <2>1, ClosedKeeps
<1>19. ASSUME DeleteOwner \/ LapseFence \/ ReapFence PROVE Frame
  BY <1>19 DEF DeleteOwner, LapseFence, ReapFence
<1>20. ASSUME NEW j \in Jobs, LapseLease(j) PROVE Frame
  <2> DEFINE r == [jobs[j] EXCEPT !.leaseLive = FALSE]
  <2>1. jobs' = [jobs EXCEPT ![j] = r]
    BY <1>20 DEF LapseLease
  <2>2. jobs[j] \in JobType /\ (jobs[j].lease # NoLease => jobs[j].active)
    BY <1>t DEF JobInv
  <2>3. r \in JobType /\ Keeps(r, jobs[j])
    BY <2>2 DEF JobType, Keeps
  <2> HIDE DEF r
  <2>4. QED BY <2>1, <2>3, OneJob
<1>21. ASSUME NEW j \in Jobs, LapseGuard(j) PROVE Frame
  <2> DEFINE r == [jobs[j] EXCEPT !.guard = "expired"]
  <2>1. jobs' = [jobs EXCEPT ![j] = r]
    BY <1>21 DEF LapseGuard
  <2>2. jobs[j] \in JobType /\ (jobs[j].lease # NoLease => jobs[j].active)
    BY <1>t DEF JobInv
  <2>3. r \in JobType /\ Keeps(r, jobs[j])
    BY <2>2 DEF JobType, Keeps
  <2> HIDE DEF r
  <2>4. QED BY <2>1, <2>3, OneJob
<1>22. ASSUME NEW j \in Jobs, Elapse(j) PROVE Frame
  <2> DEFINE r == [jobs[j] EXCEPT !.delayed = FALSE]
  <2>1. jobs' = [jobs EXCEPT ![j] = r]
    BY <1>22 DEF Elapse
  <2>2. jobs[j] \in JobType /\ (jobs[j].lease # NoLease => jobs[j].active)
    BY <1>t DEF JobInv
  <2>3. r \in JobType /\ Keeps(r, jobs[j])
    BY <2>2 DEF JobType, Keeps
  <2> HIDE DEF r
  <2>4. QED BY <2>1, <2>3, OneJob
<1>23. ASSUME NEW w \in Workers, WorkerStep(w) PROVE Frame
  BY <1>23, <1>8, <1>9, <1>10, <1>11, <1>12, <1>13, <1>14, <1>15, <1>16, <1>17
     DEF WorkerStep, Process
<1>24. QED
  BY <1>1, <1>2, <1>3, <1>4, <1>5, <1>6, <1>7, <1>18, <1>19, <1>20, <1>21,
     <1>22, <1>23 DEF Next, RunStep, RunGuarded, Command, Time

-----------------------------------------------------------------------------
(* What a step may do to the workers.                                      *)

(* a worker drops its claim, or goes on with it                            *)
Moves(v, u) ==
  \/ v.pc = "idle"
  \/ /\ u.pc # "idle"
     /\ v.pc \notin {"idle", "cas"}
     /\ v.job = u.job
     /\ v.token = u.token

WorkerChange ==
  \E w \in Workers, v \in WorkerType :
    wk' = [wk EXCEPT ![w] = v] /\ Moves(v, wk[w])

PCs == {"idle", "claimed", "fencing", "missing", "work", "summarize",
        "snapshot", "cas", "settle", "runtime", "mark", "finalize",
        "conflict", "unfence"}

LEMMA OneWorker ==
  ASSUME NEW w \in Workers, NEW v \in WorkerType, Moves(v, wk[w]),
         wk' = [wk EXCEPT ![w] = v]
  PROVE  WorkerChange
  BY DEF WorkerChange

LEMMA GotoMoves ==
  ASSUME TypeOK, NEW w \in Workers, NEW pc \in PCs \ {"idle", "cas"},
         wk[w].pc # "idle", Goto(w, pc)
  PROVE  WorkerChange
<1> DEFINE u == wk[w]
           v == [u EXCEPT !.pc = pc]
<1>1. u \in WorkerType
  BY DEF TypeOK
<1>2. wk' = [wk EXCEPT ![w] = v]
  BY DEF Goto
<1>3. v \in WorkerType /\ Moves(v, u)
  BY <1>1 DEF WorkerType, Moves, PCs
<1> HIDE DEF v
<1>4. QED
  BY <1>2, <1>3, OneWorker

LEMMA IdleMoves ==
  ASSUME TypeOK, NEW w \in Workers, GoIdle(w)
  PROVE  WorkerChange
<1>1. wk' = [wk EXCEPT ![w] = IdleWorker]
  BY DEF GoIdle
<1>2. IdleWorker \in WorkerType /\ Moves(IdleWorker, wk[w])
  BY ConstantsAssumption, EmptySeq DEF IdleWorker, WorkerType, Moves
<1>3. QED
  BY <1>1, <1>2, OneWorker

(* every step leaves the workers alone or changes one, and only a claim, a *)
(* command and the read of the owner do it otherwise                       *)
LEMMA WorkersFrame ==
  ASSUME TypeOK, Next
  PROVE  \/ wk' = wk
         \/ WorkerChange
         \/ \E w \in Workers : ReadOwner(w)
         \/ \E w \in Workers, j \in Jobs : Claim(w, j)
         \/ \E w \in Workers, j \in Jobs, st \in {"cancelled", "superseded"} :
              Terminate(w, j, st)
<1> DEFINE Frame ==
             \/ wk' = wk
             \/ WorkerChange
             \/ \E w \in Workers : ReadOwner(w)
             \/ \E w \in Workers, j \in Jobs : Claim(w, j)
             \/ \E w \in Workers, j \in Jobs, st \in {"cancelled", "superseded"} :
                  Terminate(w, j, st)
<1>1. ASSUME RunStep PROVE wk' = wk
  BY <1>1 DEF RunStep, RunGuarded, StartRun, AppendTurn, PrepareShadow,
     AcquireGuard, EnsureGuard, CommitTurn, DropTurn, ReleaseGuard,
     OfferSummary, PauseRun, ExitLoop, FinishRun, SyncCompact, ReplaceContext, CloseFailed,
     CrashRun
<1>2. ASSUME DeleteOwner \/ DeleteJobs \/ Time PROVE wk' = wk
  BY <1>2 DEF DeleteOwner, DeleteJobs, Time, LapseLease, LapseGuard, Elapse,
     LapseFence, ReapFence
<1>3. ASSUME NEW w \in Workers,
             FreezeMergeContext(w) \/ RenewFence(w)
      PROVE  wk' = wk
  BY <1>3 DEF FreezeMergeContext, RenewFence
<1>4. ASSUME NEW w \in Workers,
             \/ FailMissing(w) \/ ClearFence(w) \/ LosesLease(w) \/ CrashWorker(w)
      PROVE  WorkerChange
  <2>1. GoIdle(w)
    BY <1>4 DEF FailMissing, ClearFence, LosesLease, CrashWorker
  <2>2. QED BY <2>1, IdleMoves
<1>5. ASSUME NEW w \in Workers,
             \/ ReadLease(w) \/ InstallFence(w) \/ BeginSummary(w)
             \/ SaveSummary(w) \/ PrepareMerge(w) \/ ReadSettlement(w)
             \/ SettleRuntime(w) \/ MarkSettled(w) \/ Finalize(w)
             \/ FailConflict(w) \/ StopAfterClaim(w)
             \/ \E fatal \in BOOLEAN : Error(w, fatal)
      PROVE  WorkerChange
  <2>1. wk[w].pc # "idle"
    BY <1>5 DEF ReadLease, InstallFence, BeginSummary, SaveSummary,
       PrepareMerge, ReadSettlement, SettleRuntime, MarkSettled, Finalize,
       FailConflict, StopAfterClaim, Error
  <2>2. GoIdle(w) \/ \E pc \in PCs \ {"idle", "cas"} : Goto(w, pc)
    <3>1. CASE ReadLease(w) \/ InstallFence(w) \/ BeginSummary(w) \/ SaveSummary(w)
               \/ PrepareMerge(w) \/ SettleRuntime(w) \/ FailConflict(w)
               \/ StopAfterClaim(w)
      BY <3>1 DEF ReadLease, InstallFence, BeginSummary, SaveSummary,
         PrepareMerge, SettleRuntime, FailConflict, StopAfterClaim, PCs
    <3>2. CASE ReadSettlement(w) \/ MarkSettled(w) \/ Finalize(w)
      BY <3>2 DEF ReadSettlement, MarkSettled, Finalize, PCs
    <3>3. CASE \E fatal \in BOOLEAN : Error(w, fatal)
      BY <3>3 DEF Error, PCs
    <3>4. QED BY <1>5, <3>1, <3>2, <3>3
  <2>3. QED BY <2>1, <2>2, GotoMoves, IdleMoves
<1>6. ASSUME NEW w \in Workers, SwapContext(w) PROVE WorkerChange
  <2> DEFINE u == wk[w]
             a == [IdleWorker EXCEPT !.pc = "settle", !.job = u.job, !.token = u.token]
             b == [u EXCEPT !.pc = "snapshot", !.msgs = <<>>, !.rev = 0]
  <2>1. u.pc = "cas" /\ (wk' = [wk EXCEPT ![w] = a] \/ wk' = [wk EXCEPT ![w] = b])
    BY <1>6 DEF SwapContext
  <2>2. u \in WorkerType
    BY DEF TypeOK
  <2>3. IdleWorker \in WorkerType
    BY ConstantsAssumption, EmptySeq DEF IdleWorker, WorkerType
  <2>5. a \in WorkerType
    BY <2>2, <2>3 DEF WorkerType
  <2>6. Moves(a, u)
    BY <2>1 DEF IdleWorker, Moves
  <2>7. b \in WorkerType /\ Moves(b, u)
    BY <2>1, <2>2, EmptySeq DEF WorkerType, Moves
  <2> HIDE DEF a, b
  <2>8. QED BY <2>1, <2>5, <2>6, <2>7, OneWorker
<1>7. ASSUME NEW w \in Workers, WorkerStep(w) PROVE Frame
  BY <1>3, <1>4, <1>5, <1>6, <1>7 DEF WorkerStep, Process
<1>8. QED
  BY <1>1, <1>2, <1>7 DEF Next, Command

-----------------------------------------------------------------------------
(* What a step may do to the context and to the run.                       *)

SameContext ==
  /\ log' = log
  /\ owner' \in OwnerType
  /\ owner'.live = owner.live
  /\ owner'.msgs = owner.msgs
  /\ owner'.rev = owner.rev

FenceType == [job : 0 .. MaxJobs, token : Nat, live : BOOLEAN]

LEMMA FenceOnly ==
  ASSUME TypeOK, NEW f \in FenceType, owner' = [owner EXCEPT !.fence = f],
         log' = log
  PROVE  SameContext
  BY DEF TypeOK, OwnerType, FenceType, SameContext

LEMMA NoFenceType == NoFence \in FenceType
  BY ConstantsAssumption DEF NoFence, FenceType

LEMMA OwnerFrame ==
  ASSUME TypeOK, HolderInv, Next
  PROVE  \/ SameContext
         \/ AppendTurn \/ CommitTurn \/ FinishRun \/ ReplaceContext
         \/ \E w \in Workers : SwapContext(w) /\ CasMatches(w)
         \/ DeleteOwner
<1> DEFINE Frame == \/ SameContext
                    \/ AppendTurn \/ CommitTurn \/ FinishRun \/ ReplaceContext
                    \/ \E w \in Workers : SwapContext(w) /\ CasMatches(w)
                    \/ DeleteOwner
<1>0. owner \in OwnerType /\ owner.fence \in FenceType
  BY DEF TypeOK, OwnerType, FenceType
<1>1. owner' = owner /\ log' = log => SameContext
  BY <1>0 DEF SameContext
<1>2. ASSUME RunStep PROVE Frame
  <2>1. ASSUME \/ \E fresh \in BOOLEAN : StartRun(fresh)
               \/ \E n \in 1 .. MaxTurns : PrepareShadow(n)
               \/ AcquireGuard \/ EnsureGuard \/ DropTurn \/ ReleaseGuard
               \/ OfferSummary \/ PauseRun \/ ExitLoop \/ SyncCompact
               \/ CloseFailed \/ CrashRun
        PROVE  owner' = owner /\ log' = log
    BY <2>1 DEF StartRun, PrepareShadow, AcquireGuard, EnsureGuard, DropTurn,
       ReleaseGuard, OfferSummary, PauseRun, ExitLoop, SyncCompact,
       CloseFailed, CrashRun
  <2>2. QED BY <1>1, <1>2, <2>1 DEF RunStep, RunGuarded
<1>3. ASSUME NEW w \in Workers, WorkerStep(w) PROVE Frame
  <2>1. ASSUME \/ \E j \in Jobs : Claim(w, j)
               \/ ReadLease(w) \/ FailMissing(w) \/ BeginSummary(w)
               \/ SaveSummary(w) \/ FreezeMergeContext(w) \/ PrepareMerge(w)
               \/ ReadOwner(w) \/ ReadSettlement(w) \/ SettleRuntime(w)
               \/ MarkSettled(w) \/ Finalize(w) \/ FailConflict(w)
               \/ LosesLease(w) \/ StopAfterClaim(w) \/ CrashWorker(w)
               \/ \E fatal \in BOOLEAN : Error(w, fatal)
        PROVE  owner' = owner /\ log' = log
    BY <2>1 DEF Claim, ReadLease, FailMissing, BeginSummary, SaveSummary,
       FreezeMergeContext, PrepareMerge, ReadOwner, ReadSettlement,
       SettleRuntime, MarkSettled, Finalize, FailConflict, LosesLease,
       StopAfterClaim, CrashWorker, Error
  <2>2. ASSUME InstallFence(w) PROVE Frame
    <3> DEFINE f == [job |-> wk[w].job, token |-> wk[w].token, live |-> TRUE]
    <3>1. log' = log /\ (owner' = owner \/ owner' = [owner EXCEPT !.fence = f])
      BY <2>2 DEF InstallFence
    <3>2. wk[w] \in WorkerType
      BY DEF TypeOK
    <3>3. f \in FenceType
      BY <3>2 DEF FenceType, WorkerType
    <3> HIDE DEF f
    <3>4. QED BY <1>1, <3>1, <3>3, FenceOnly
  <2>3. ASSUME ClearFence(w) PROVE Frame
    <3>1. log' = log /\ (owner' = owner \/ owner' = [owner EXCEPT !.fence = NoFence])
      BY <2>3 DEF ClearFence, Unfenced
    <3>2. QED BY <1>1, <3>1, NoFenceType, FenceOnly
  <2>4. ASSUME RenewFence(w) PROVE Frame
    <3> DEFINE f == [owner.fence EXCEPT !.live = TRUE]
    <3>1. log' = log /\ owner' = [owner EXCEPT !.fence = f]
      BY <2>4 DEF RenewFence
    <3>2. f \in FenceType
      BY <1>0 DEF FenceType
    <3> HIDE DEF f
    <3>3. QED BY <3>1, <3>2, FenceOnly
  <2>5. ASSUME SwapContext(w), ~CasMatches(w) PROVE owner' = owner /\ log' = log
    BY <2>5 DEF SwapContext
  <2>6. QED BY <1>1, <1>3, <2>1, <2>2, <2>3, <2>4, <2>5 DEF WorkerStep, Process
<1>4. ASSUME Command PROVE Frame
  <2>1. CASE DeleteOwner
    BY <2>1
  <2>2. CASE ~DeleteOwner
    BY <1>1, <1>4, <2>2 DEF Command, Terminate, DeleteJobs
  <2>3. QED BY <2>1, <2>2
<1>5. ASSUME Time PROVE Frame
  <2>1. ASSUME LapseFence PROVE Frame
    <3> DEFINE f == [owner.fence EXCEPT !.live = FALSE]
    <3>1. log' = log /\ owner' = [owner EXCEPT !.fence = f]
      BY <2>1 DEF LapseFence
    <3>2. f \in FenceType
      BY <1>0 DEF FenceType
    <3> HIDE DEF f
    <3>3. QED BY <3>1, <3>2, FenceOnly
  <2>2. ASSUME ReapFence PROVE Frame
    BY <2>2, NoFenceType, FenceOnly DEF ReapFence
  <2>3. ASSUME NEW j \in Jobs, LapseLease(j) \/ LapseGuard(j) \/ Elapse(j)
        PROVE  owner' = owner /\ log' = log
    BY <2>3 DEF LapseLease, LapseGuard, Elapse
  <2>4. QED BY <1>1, <1>5, <2>1, <2>2, <2>3 DEF Time
<1>6. QED
  BY <1>2, <1>3, <1>4, <1>5 DEF Next

(* the run goes on with what it holds                                      *)
RunKeeps(r) ==
  /\ run.pc # "idle"
  /\ r.pc # "idle"
  /\ r.pc = "repaired" => r.failed \in Jobs
  /\ r.pc \in {"turn", "commit", "release"} => r.job \in Jobs
  /\ r.job = run.job
  /\ r.mem = run.mem
  /\ r.epoch = run.epoch

LEMMA RunFrame ==
  ASSUME TypeOK, HolderInv, Next
  PROVE  \/ run' = run
         \/ run' = IdleRun
         \/ \E r \in RunType : run' = r /\ RunKeeps(r)
         \/ \E fresh \in BOOLEAN : StartRun(fresh)
         \/ \E n \in 1 .. MaxTurns : PrepareShadow(n)
         \/ AppendTurn \/ CommitTurn \/ SyncCompact
<1> DEFINE Frame == \/ run' = run
                    \/ run' = IdleRun
                    \/ \E r \in RunType : run' = r /\ RunKeeps(r)
                    \/ \E fresh \in BOOLEAN : StartRun(fresh)
                    \/ \E n \in 1 .. MaxTurns : PrepareShadow(n)
                    \/ AppendTurn \/ CommitTurn \/ SyncCompact
<1>0. run \in RunType /\ run.job \in 0 .. MaxJobs
  BY DEF TypeOK, RunType
<1>1. ASSUME NEW pc \in {"running", "turn", "commit", "release", "exit"},
             run.pc # "idle", run' = [run EXCEPT !.pc = pc],
             pc \in {"turn", "commit", "release"} => run.job \in Jobs
      PROVE  Frame
  <2> DEFINE r == [run EXCEPT !.pc = pc]
  <2>1. r \in RunType /\ RunKeeps(r)
    BY <1>0, <1>1 DEF RunType, RunKeeps
  <2> HIDE DEF r
  <2>2. QED BY <1>1, <2>1 DEF r
<1>2. ASSUME AcquireGuard \/ EnsureGuard \/ DropTurn \/ ReleaseGuard \/ ExitLoop
      PROVE  Frame
  <2>1. CASE AcquireGuard
    BY <2>1, <1>0, <1>1, ConstantsAssumption DEF AcquireGuard, Jobs
  <2>2. CASE EnsureGuard
    BY <2>2, <1>1 DEF EnsureGuard, HolderInv
  <2>3. CASE DropTurn
    BY <2>3, <1>1 DEF DropTurn, HolderInv
  <2>4. CASE ReleaseGuard
    BY <2>4, <1>1 DEF ReleaseGuard
  <2>5. CASE ExitLoop
    BY <2>5, <1>1 DEF ExitLoop
  <2>6. QED BY <1>2, <2>1, <2>2, <2>3, <2>4, <2>5
<1>3. ASSUME CloseFailed PROVE Frame
  <2> DEFINE r == [run EXCEPT !.pc = "running", !.failed = NoJob]
  <2>1. run.pc = "repaired" /\ run' = r
    BY <1>3 DEF CloseFailed
  <2>2. NoJob \in 0 .. MaxJobs
    BY ConstantsAssumption
  <2>3. r \in RunType
    BY <1>0, <2>2 DEF RunType
  <2>4. RunKeeps(r)
    BY <1>0, <2>1 DEF RunType, RunKeeps
  <2> HIDE DEF r
  <2>5. QED BY <2>1, <2>3, <2>4
<1>8. ASSUME ReplaceContext PROVE Frame
  <2> DEFINE r == [run EXCEPT !.pc = IF run.failed = NoJob THEN "running"
                                                          ELSE "repaired"]
  <2>1. run.pc = "replace" /\ run' = r
    BY <1>8 DEF ReplaceContext
  <2>2. r \in RunType
    BY <1>0 DEF RunType
  <2>3. RunKeeps(r)
    BY <1>0, <2>1, ConstantsAssumption DEF RunType, RunKeeps, Jobs
  <2> HIDE DEF r
  <2>4. QED BY <2>1, <2>2, <2>3
<1>4. ASSUME PauseRun \/ FinishRun \/ CrashRun PROVE run' = IdleRun
  BY <1>4 DEF PauseRun, FinishRun, CrashRun
<1>5. ASSUME OfferSummary \/ Command \/ Time PROVE run' = run
  BY <1>5 DEF OfferSummary, Command, Terminate, DeleteOwner, DeleteJobs, Time,
     LapseLease, LapseGuard, Elapse, LapseFence, ReapFence
<1>6. ASSUME NEW w \in Workers, WorkerStep(w) PROVE run' = run
  BY <1>6 DEF WorkerStep, Process, Claim, ReadLease, InstallFence, FailMissing,
     BeginSummary, SaveSummary, FreezeMergeContext, PrepareMerge, ReadOwner,
     SwapContext, ReadSettlement, SettleRuntime, MarkSettled, Finalize,
     FailConflict, ClearFence, LosesLease, RenewFence, StopAfterClaim,
     CrashWorker, Error
<1>7. QED
  BY <1>2, <1>3, <1>4, <1>5, <1>6, <1>8 DEF Next, RunStep, RunGuarded

-----------------------------------------------------------------------------
(* The messages a step writes.                                             *)

(* one message may stand for the whole chain                               *)
LEMMA SyncChain ==
  ASSUME NEW n \in Nat, NEW msgs \in Seq(Message), msgs # <<>>, Chain(msgs, n)
  PROVE  LET new == <<Summary("sync", NoJob, msgs)>>
         IN  new \in Seq(Message) /\ Chain(new, n)
<1> DEFINE s   == Summary("sync", NoJob, msgs)
           new == <<s>>
<1>1. Len(msgs) \in Nat \ {0} /\ \A i \in 1 .. Len(msgs) : msgs[i] \in Message
  BY LenProperties, ElementOfSeq, EmptySeq
<1>2. msgs[1].lo = 1 /\ msgs[Len(msgs)].hi = n /\ msgs[Len(msgs)].lo \in 1 .. n
  BY <1>1 DEF Chain, LastTurn
<1>3. s = [kind |-> "sync", job |-> NoJob, lo |-> 1, hi |-> n]
  BY <1>2 DEF Summary, LastTurn
<1> HIDE DEF s
<1>4. s \in Message /\ s.lo = 1 /\ s.hi = n /\ n \in Nat \ {0}
  BY <1>2, <1>3, ConstantsAssumption DEF Message
<1>5. new \in Seq(Message) /\ Len(new) = 1 /\ new[1] = s /\ new # <<>>
  BY <1>4
<1> HIDE DEF new
<1>6. LastTurn(new) = n
  BY <1>4, <1>5 DEF LastTurn
<1>7. \A i \in 1 .. Len(new) : i = 1
  BY <1>5
<1>8. \A i \in 1 .. (Len(new) - 1) : FALSE
  BY <1>5
<1>9. Chain(new, n)
  BY <1>4, <1>5, <1>6, <1>7, <1>8 DEF Chain
<1>10. QED BY <1>5, <1>9 DEF new, s

(* the swap writes a fold of the context that the owner still has          *)
LEMMA SwapFolds ==
  ASSUME TypeOK, HolderInv, SnapshotInv, ContextInv,
         NEW w \in Workers, SwapContext(w), CasMatches(w)
  PROVE  /\ wk[w].job \in Jobs
         /\ wk[w].msgs = owner.msgs
         /\ Merged(wk[w].job, wk[w].msgs) \in Seq(Message)
         /\ Chain(Merged(wk[w].job, wk[w].msgs), log)
<1> DEFINE j == wk[w].job
           m == wk[w].msgs
           p == Len(jobs[j].prefix)
<1>1. owner.live /\ wk[w].pc = "cas" /\ wk[w].rev = owner.rev
  BY DEF SwapContext, CasMatches
<1>2. m = owner.msgs /\ jobs[j].prefix # <<>> /\ PrefixIntact(j, m)
  BY <1>1 DEF SnapshotInv
<1>3. j \in Jobs
  BY <1>1 DEF HolderInv
<1>4. /\ m \in Seq(Message) /\ log \in Nat /\ jobs[j].prefix \in Seq(Message)
      /\ j \in 0 .. MaxJobs
  BY <1>2, <1>3, ConstantsAssumption DEF TypeOK, OwnerType, JobType, Jobs
<1>5. p \in 1 .. Len(m) /\ Prefix(m, p) = jobs[j].prefix
  <2>1. p <= Len(m) /\ Prefix(m, p) = jobs[j].prefix
    BY <1>2 DEF PrefixIntact
  <2>2. p \in Nat /\ p # 0 /\ Len(m) \in Nat
    BY <1>2, <1>4, LenProperties, EmptySeq
  <2>3. QED BY <2>1, <2>2
<1>6. Chain(m, log)
  BY <1>1, <1>2 DEF ContextInv
<1> HIDE DEF j, m, p
<1>7. LET new == <<Summary("durable", j, Prefix(m, p))>> \o SubSeq(m, p + 1, Len(m))
      IN  new \in Seq(Message) /\ Chain(new, log)
  BY <1>4, <1>5, <1>6, FoldChain
<1>8. Merged(j, m) = <<Summary("durable", j, Prefix(m, p))>> \o SubSeq(m, p + 1, Len(m))
  BY <1>5 DEF Merged, p
<1>9. QED
  BY <1>2, <1>3, <1>7, <1>8 DEF j, m

-----------------------------------------------------------------------------
(* The invariant holds initially.                                          *)

LEMMA InitInv == Init => IInv
<1> SUFFICES ASSUME Init PROVE IInv
  OBVIOUS
<1> USE ConstantsAssumption
<1>1. <<>> \in Seq(Message) /\ Len(<<>>) = 0
  OBVIOUS
<1>2. TypeOK
  BY <1>1 DEF Init, TypeOK, OwnerType, JobType, RunType, WorkerType, FreshOwner,
     NoFence, NoRecord, IdleRun, IdleWorker, Jobs, Status, ActiveStatus, Terminal
<1>3. JobInv
  BY DEF Init, JobInv, NoRecord
<1>4. HolderInv
  BY DEF Init, HolderInv, IdleRun, IdleWorker
<1>5. SnapshotInv
  BY DEF Init, SnapshotInv, IdleWorker
<1>6. ContextInv
  <2>1. owner.msgs = <<>> /\ log = 0 /\ run.pc = "idle"
    BY DEF Init, FreshOwner, IdleRun
  <2>2. Chain(<<>>, 0)
    BY <1>1 DEF Chain, LastTurn
  <2>3. QED BY <2>1, <2>2 DEF ContextInv
<1>7. EpochInv
  BY DEF Init, EpochInv, IdleRun
<1>8. QED
  BY <1>2, <1>3, <1>4, <1>5, <1>6, <1>7 DEF IInv

-----------------------------------------------------------------------------
(* Each part of the invariant is preserved.                                *)

(* a write of the context bumps the revision                               *)
LEMMA RewriteTypes ==
  ASSUME TypeOK, NEW m \in Seq(Message),
         owner' = [owner EXCEPT !.msgs = m, !.rev = owner.rev + 1]
  PROVE  owner' \in OwnerType
<1> DEFINE n == owner.rev + 1
<1>1. owner \in OwnerType /\ n \in Nat
  BY DEF TypeOK, OwnerType
<1> HIDE DEF n
<1>2. owner' = [owner EXCEPT !.msgs = m, !.rev = n]
  BY DEF n
<1>3. QED
  BY <1>1, <1>2 DEF OwnerType

LEMMA AppendTypes ==
  ASSUME TypeOK, NEW pc \in {"running", "release"}, Append1(pc)
  PROVE  log' \in Nat /\ owner' \in OwnerType /\ run' \in RunType
<1>1. Turn(log + 1) \in Message /\ log + 1 \in Nat
  BY ConstantsAssumption DEF TypeOK, Turn, Message
<1>2. /\ Append(owner.msgs, Turn(log + 1)) \in Seq(Message)
      /\ Append(run.mem, Turn(log + 1)) \in Seq(Message)
  BY <1>1, AppendProperties DEF TypeOK, OwnerType, RunType
<1>3. owner' \in OwnerType
  <2> DEFINE m == Append(owner.msgs, Turn(log + 1))
  <2>1. owner' = [owner EXCEPT !.msgs = m, !.rev = owner.rev + 1]
    BY DEF Append1
  <2>2. m \in Seq(Message)
    BY <1>2
  <2> HIDE DEF m
  <2>3. QED BY <2>1, <2>2, RewriteTypes
<1>4. run' \in RunType
  <2> DEFINE m == Append(run.mem, Turn(log + 1))
  <2>1. run' = [run EXCEPT !.mem = m, !.pc = pc]
    BY DEF Append1
  <2>2. m \in Seq(Message)
    BY <1>2
  <2> HIDE DEF m
  <2>3. QED BY <2>1, <2>2 DEF TypeOK, RunType
<1>5. QED
  BY <1>1, <1>3, <1>4 DEF Append1

LEMMA SyncTypes ==
  ASSUME TypeOK, ContextInv, SyncCompact
  PROVE  run' \in RunType
<1> DEFINE m == <<Summary("sync", NoJob, run.mem)>>
           e == run.epoch + 1
<1>1. m \in Seq(Message)
  BY SyncChain DEF TypeOK, RunType, SyncCompact, ContextInv
<1>2. run' = [run EXCEPT !.pc = "replace", !.mem = m, !.compacted = TRUE,
                         !.epoch = e]
  BY DEF SyncCompact
<1>3. run \in RunType /\ e \in Nat
  BY DEF TypeOK, RunType
<1> HIDE DEF m, e
<1>4. QED
  BY <1>1, <1>2, <1>3 DEF RunType

LEMMA ContextTypes ==
  ASSUME IInv, Next
  PROVE  log' \in Nat /\ owner' \in OwnerType
<1> USE DEF IInv
<1>1. log \in Nat /\ owner \in OwnerType /\ run \in RunType
  BY DEF TypeOK
<1>2. CASE SameContext
  BY <1>1, <1>2 DEF SameContext
<1>3. CASE AppendTurn \/ CommitTurn
  BY <1>3, AppendTypes DEF AppendTurn, CommitTurn
<1>4. CASE FinishRun
  <2>1. CASE run.compacted
    BY <1>1, <1>4, <2>1, RewriteTypes DEF FinishRun, RunType
  <2>2. CASE ~run.compacted
    BY <1>1, <1>4, <2>2 DEF FinishRun
  <2>3. log' = log
    BY <1>4 DEF FinishRun
  <2>4. QED BY <1>1, <2>1, <2>2, <2>3
<1>5. CASE ReplaceContext
  BY <1>1, <1>5, RewriteTypes DEF ReplaceContext, RunType
<1>6. ASSUME NEW w \in Workers, SwapContext(w), CasMatches(w)
      PROVE  log' \in Nat /\ owner' \in OwnerType
  <2> DEFINE m == Merged(wk[w].job, wk[w].msgs)
             n == owner.rev + 1
             j == wk[w].job
  <2>1. log' = log /\ owner' = [owner EXCEPT !.msgs = m, !.rev = n, !.last = j,
                                            !.fence = NoFence]
    BY <1>6 DEF SwapContext
  <2>2. m \in Seq(Message) /\ j \in 0 .. MaxJobs
    BY <1>6, SwapFolds, ConstantsAssumption DEF Jobs
  <2>3. n \in Nat
    BY <1>1 DEF OwnerType
  <2> HIDE DEF m, n, j
  <2>4. NoFence \in [job : 0 .. MaxJobs, token : Nat, live : BOOLEAN]
    BY NoFenceType DEF FenceType
  <2>5. QED BY <1>1, <2>1, <2>2, <2>3, <2>4 DEF OwnerType
<1>7. CASE DeleteOwner
  <2>1. log' = log /\ owner' = [FreshOwner EXCEPT !.live = FALSE]
    BY <1>7 DEF DeleteOwner
  <2>2. FreshOwner \in OwnerType
    BY NoFenceType, EmptySeq, ConstantsAssumption DEF FreshOwner, OwnerType, FenceType
  <2>3. QED BY <1>1, <2>1, <2>2 DEF OwnerType
<1>8. QED
  BY <1>2, <1>3, <1>4, <1>5, <1>6, <1>7, OwnerFrame

LEMMA JobsTypes ==
  ASSUME IInv, Next
  PROVE  jobs' \in [Jobs -> JobType]
<1> USE DEF IInv
<1>1. jobs \in [Jobs -> JobType]
  BY DEF TypeOK
<1>2. NoRecord \in JobType
  BY EmptySeq DEF NoRecord, JobType, Status
<1>3. CASE JobChange
  BY <1>1, <1>3 DEF JobChange
<1>4. ASSUME NEW n \in 1 .. MaxTurns, PrepareShadow(n)
      PROVE  jobs' \in [Jobs -> JobType]
  <2> DEFINE r == [NoRecord EXCEPT !.status = "queued", !.active = TRUE,
                     !.prefix = Prefix(run.mem, n), !.rev = owner.rev,
                     !.delayed = TRUE]
  <2>1. PICK j \in Jobs : jobs' = [jobs EXCEPT ![j] = r]
    BY <1>4 DEF PrepareShadow
  <2>2. Prefix(run.mem, n) \in Seq(Message) /\ owner.rev \in Nat
    <3>1. run.mem \in Seq(Message) /\ n \in 1 .. Len(run.mem)
      BY <1>4 DEF TypeOK, RunType, PrepareShadow
    <3>2. \A i \in 1 .. n : run.mem[i] \in Message
      BY <3>1, ElementOfSeq, LenProperties
    <3>3. SubSeq(run.mem, 1, n) \in Seq(Message)
      BY <3>1, <3>2, SubSeqProperties
    <3>4. QED BY <3>3 DEF Prefix, TypeOK, OwnerType
  <2>3. r \in JobType
    BY <1>2, <2>2 DEF JobType, Status, ActiveStatus
  <2> HIDE DEF r
  <2>4. QED BY <1>1, <2>1, <2>3
<1>5. ASSUME NEW w \in Workers, FreezeMergeContext(w)
      PROVE  jobs' \in [Jobs -> JobType]
  <2> DEFINE j == wk[w].job
             n == rt.epoch + 1
             r == [jobs[j] EXCEPT !.epoch = n]
  <2>1. jobs' = [jobs EXCEPT ![j] = r] /\ j \in Jobs
    BY <1>5 DEF FreezeMergeContext, OwnsLease
  <2>2. n \in Nat /\ jobs[j] \in JobType
    BY <2>1 DEF TypeOK
  <2> HIDE DEF n
  <2>3. r \in JobType
    BY <2>2 DEF JobType
  <2> HIDE DEF r, j
  <2>4. QED BY <1>1, <2>1, <2>3
<1>6. CASE DeleteJobs
  <2> DEFINE r == [NoRecord EXCEPT !.status = "deleted"]
  <2>1. r \in JobType
    BY <1>2 DEF JobType, Status
  <2> HIDE DEF r
  <2>2. jobs' = [j \in Jobs |-> IF jobs[j].status = "none" THEN NoRecord ELSE r]
    BY <1>6 DEF DeleteJobs, r
  <2>3. QED BY <1>2, <2>1, <2>2
<1>7. QED
  BY <1>1, <1>3, <1>4, <1>5, <1>6, JobsFrame

LEMMA RunTypes ==
  ASSUME IInv, Next
  PROVE  run' \in RunType
<1> USE DEF IInv
<1>1. run \in RunType /\ IdleRun \in RunType
  BY EmptySeq, ConstantsAssumption DEF TypeOK, IdleRun, RunType
<1>2. ASSUME NEW fresh \in BOOLEAN, StartRun(fresh) PROVE run' \in RunType
  <2>1. PICK f \in 0 .. MaxJobs :
          run' = [IdleRun EXCEPT !.pc = "running", !.mem = owner.msgs,
                                 !.epoch = rt'.epoch, !.failed = f]
    <3> DEFINE f == IF FailedLatest = {} THEN NoJob
                    ELSE CHOOSE j \in FailedLatest : TRUE
    <3>1. f \in 0 .. MaxJobs
      BY ConstantsAssumption DEF FailedLatest, Jobs
    <3>2. run' = [IdleRun EXCEPT !.pc = "running", !.mem = owner.msgs,
                                 !.epoch = rt'.epoch, !.failed = f]
      BY <1>2 DEF StartRun
    <3> HIDE DEF f
    <3>3. QED BY <3>1, <3>2
  <2>2. rt'.epoch \in Nat
    BY <1>2 DEF StartRun, TypeOK
  <2>3. owner.msgs \in Seq(Message)
    BY DEF TypeOK, OwnerType
  <2> HIDE DEF IInv
  <2>4. QED
    BY <1>1, <2>1, <2>2, <2>3 DEF RunType
<1>3. ASSUME NEW n \in 1 .. MaxTurns, PrepareShadow(n) PROVE run' \in RunType
  <2>1. PICK j \in Jobs : run' = [run EXCEPT !.job = j]
    BY <1>3 DEF PrepareShadow
  <2>2. j \in 0 .. MaxJobs
    BY ConstantsAssumption DEF Jobs
  <2>3. QED BY <1>1, <2>1, <2>2 DEF RunType
<1>4. CASE AppendTurn \/ CommitTurn
  BY <1>4, AppendTypes DEF AppendTurn, CommitTurn
<1>5. CASE SyncCompact
  BY <1>5, SyncTypes
<1>6. QED
  BY <1>1, <1>2, <1>3, <1>4, <1>5, RunFrame

LEMMA WorkerTypes ==
  ASSUME IInv, Next
  PROVE  wk' \in [Workers -> WorkerType]
<1> USE DEF IInv
<1>1. wk \in [Workers -> WorkerType] /\ IdleWorker \in WorkerType
  BY EmptySeq, ConstantsAssumption DEF TypeOK, IdleWorker, WorkerType
<1>2. CASE WorkerChange
  BY <1>1, <1>2 DEF WorkerChange
<1>3. ASSUME NEW w \in Workers, ReadOwner(w)
      PROVE  wk' \in [Workers -> WorkerType]
  <2> DEFINE u == wk[w]
             n == u.tries + 1
             v == [u EXCEPT !.pc = "cas", !.msgs = owner.msgs,
                            !.rev = owner.rev, !.tries = n]
  <2>1. u \in WorkerType
    BY <1>1
  <2>2. CASE \E pc \in {"missing", "settle", "conflict"} : Goto(w, pc)
    <3>1. wk[w].pc # "idle"
      BY <1>3 DEF ReadOwner
    <3>2. WorkerChange
      BY <2>2, <3>1, GotoMoves DEF PCs
    <3>3. QED BY <1>2, <3>2
  <2>3. CASE AttemptsLeft(w) /\ wk' = [wk EXCEPT ![w] = v]
    <3>1. n \in 0 .. MaxCas
      <4>1. u.tries \in 0 .. MaxCas /\ MaxCas \in Nat
        BY <2>1, ConstantsAssumption DEF WorkerType
      <4>2. u.tries < MaxCas
        BY <2>3 DEF AttemptsLeft
      <4> HIDE DEF u
      <4>3. QED BY <4>1, <4>2
    <3>2. owner.msgs \in Seq(Message) /\ owner.rev \in Nat
      BY DEF TypeOK, OwnerType
    <3> HIDE DEF n
    <3>3. v \in WorkerType
      BY <2>1, <3>1, <3>2 DEF WorkerType
    <3> HIDE DEF v
    <3>4. QED BY <1>1, <2>3, <3>3
  <2>4. QED
    BY <1>3, <2>2, <2>3 DEF ReadOwner
<1>4. ASSUME NEW w \in Workers, NEW j \in Jobs, Claim(w, j)
      PROVE  wk' \in [Workers -> WorkerType]
  <2> DEFINE t == jobs[j].attempt + 1
             v == [IdleWorker EXCEPT !.pc = "claimed", !.job = j, !.token = t]
  <2>1. wk' = [wk EXCEPT ![w] = v]
    BY <1>4 DEF Claim
  <2>2. t \in Nat /\ j \in 0 .. MaxJobs
    BY ConstantsAssumption DEF TypeOK, JobType, Jobs
  <2> HIDE DEF t
  <2>3. v \in WorkerType
    BY <1>1, <2>2 DEF WorkerType
  <2> HIDE DEF v
  <2>4. QED BY <1>1, <2>1, <2>3
<1>5. ASSUME NEW w \in Workers, NEW j \in Jobs,
             NEW st \in {"cancelled", "superseded"}, Terminate(w, j, st)
      PROVE  wk' \in [Workers -> WorkerType]
  <2> DEFINE t == jobs[j].lease
             v == [IdleWorker EXCEPT !.pc = "unfence", !.job = j, !.token = t]
  <2>1. wk' = wk \/ wk' = [wk EXCEPT ![w] = v]
    BY <1>5 DEF Terminate
  <2>2. t \in Nat /\ j \in 0 .. MaxJobs
    BY ConstantsAssumption DEF TypeOK, JobType, Jobs
  <2> HIDE DEF t
  <2>3. v \in WorkerType
    BY <1>1, <2>2 DEF WorkerType
  <2> HIDE DEF v
  <2>4. QED BY <1>1, <2>1, <2>3
<1>6. QED
  BY <1>1, <1>2, <1>3, <1>4, <1>5, WorkersFrame

(* the settlement sets the runtime to the larger of the two epochs         *)
LEMMA SettledType ==
  ASSUME TypeOK, NEW j \in Jobs
  PROVE  /\ SettledRuntime(j) \in [marker : 0 .. MaxJobs, epoch : Nat]
         /\ SettledRuntime(j).epoch \in {rt.epoch, jobs[j].epoch}
         /\ SettledRuntime(j).epoch >= rt.epoch
<1>1. /\ rt \in [marker : 0 .. MaxJobs, epoch : Nat]
      /\ jobs[j].epoch \in Nat /\ j \in 0 .. MaxJobs
  BY ConstantsAssumption DEF TypeOK, JobType, Jobs
<1>2. CASE rt.marker = j
  BY <1>1, <1>2 DEF SettledRuntime
<1>3. CASE rt.marker # j /\ rt.epoch <= jobs[j].epoch
  BY <1>1, <1>3 DEF SettledRuntime
<1>4. CASE rt.marker # j /\ ~(rt.epoch <= jobs[j].epoch)
  BY <1>1, <1>4 DEF SettledRuntime
<1>5. QED BY <1>2, <1>3, <1>4

(* who writes the runtime, and how                                         *)
LEMMA RuntimeFrame ==
  ASSUME TypeOK, HolderInv, Next
  PROVE  \/ rt' = rt
         \/ \E fresh \in BOOLEAN : StartRun(fresh)
         \/ SyncCompact
         \/ \E j \in Jobs : rt' = SettledRuntime(j)
<1>1. ASSUME RunStep
      PROVE  \/ rt' = rt
             \/ \E fresh \in BOOLEAN : StartRun(fresh)
             \/ SyncCompact
  BY <1>1 DEF RunStep, RunGuarded, AppendTurn, PrepareShadow, AcquireGuard,
     EnsureGuard, CommitTurn, DropTurn, ReleaseGuard, OfferSummary, PauseRun,
     ExitLoop, FinishRun, ReplaceContext, CloseFailed, CrashRun
<1>2. ASSUME NEW w \in Workers, SettleRuntime(w)
      PROVE  \E j \in Jobs : rt' = SettledRuntime(j)
  BY <1>2 DEF SettleRuntime, HolderInv
<1>3. ASSUME NEW w \in Workers, WorkerStep(w), ~SettleRuntime(w)
      PROVE  rt' = rt
  BY <1>3 DEF WorkerStep, Process, Claim, ReadLease, InstallFence, FailMissing,
     BeginSummary, SaveSummary, FreezeMergeContext, PrepareMerge, ReadOwner,
     SwapContext, ReadSettlement, MarkSettled, Finalize, FailConflict,
     ClearFence, LosesLease, RenewFence, StopAfterClaim, CrashWorker, Error
<1>4. ASSUME Command \/ Time PROVE rt' = rt
  BY <1>4 DEF Command, Terminate, DeleteOwner, DeleteJobs, Time,
     LapseLease, LapseGuard, Elapse, LapseFence, ReapFence
<1>5. QED
  BY <1>1, <1>2, <1>3, <1>4 DEF Next

LEMMA RuntimeTypes ==
  ASSUME IInv, Next
  PROVE  rt' \in [marker : 0 .. MaxJobs, epoch : Nat]
<1> USE DEF IInv
<1>1. rt \in [marker : 0 .. MaxJobs, epoch : Nat] /\ run.epoch \in Nat
  BY DEF TypeOK, RunType
<1>2. ASSUME NEW fresh \in BOOLEAN, StartRun(fresh)
      PROVE  rt' \in [marker : 0 .. MaxJobs, epoch : Nat]
  BY <1>1, <1>2 DEF StartRun
<1>3. ASSUME SyncCompact
      PROVE  rt' \in [marker : 0 .. MaxJobs, epoch : Nat]
  BY <1>1, <1>3 DEF SyncCompact
<1>4. QED
  BY <1>1, <1>2, <1>3, RuntimeFrame, SettledType

(* Who moves the counters: a step counts at most one fault and one         *)
(* synchronous compaction, and only SwapContext counts a swap.             *)
Counted ==
  /\ faults' = faults \/ faults' = faults + 1
  /\ syncs' = syncs \/ syncs' = syncs + 1

LEMMA RunCounts ==
  ASSUME RunStep
  PROVE  Counted /\ swaps' = swaps
<1>1. CASE RunGuarded
  BY <1>1 DEF RunGuarded, EnsureGuard, CommitTurn, DropTurn, ReleaseGuard, Counted
<1>2. CASE \E fresh \in BOOLEAN : StartRun(fresh)
  BY <1>2 DEF StartRun, Counted
<1>3. CASE \E n \in 1 .. MaxTurns : PrepareShadow(n)
  BY <1>3 DEF PrepareShadow, Counted
<1>4. CASE AppendTurn \/ AcquireGuard \/ OfferSummary \/ PauseRun \/ ExitLoop
  BY <1>4 DEF AppendTurn, AcquireGuard, OfferSummary, PauseRun, ExitLoop, Counted
<1>5. CASE FinishRun \/ SyncCompact \/ ReplaceContext \/ CloseFailed \/ CrashRun
  BY <1>5 DEF FinishRun, SyncCompact, ReplaceContext, CloseFailed, CrashRun,
              Fault, Counted
<1>6. QED
  BY <1>1, <1>2, <1>3, <1>4, <1>5 DEF RunStep

LEMMA WorkerCounts ==
  ASSUME NEW w \in Workers, WorkerStep(w)
  PROVE  /\ Counted
         /\ swaps' = swaps \/ SwapContext(w)
<1>1. CASE ReadLease(w) \/ InstallFence(w) \/ FailMissing(w)
  BY <1>1 DEF ReadLease, InstallFence, FailMissing, Counted
<1>2. CASE BeginSummary(w) \/ SaveSummary(w) \/ FreezeMergeContext(w)
           \/ PrepareMerge(w) \/ ReadOwner(w)
  BY <1>2 DEF BeginSummary, SaveSummary, FreezeMergeContext, PrepareMerge,
              ReadOwner, Counted
<1>3. CASE SwapContext(w)
  BY <1>3 DEF SwapContext, Counted
<1>4. CASE ReadSettlement(w) \/ SettleRuntime(w) \/ MarkSettled(w)
  BY <1>4 DEF ReadSettlement, SettleRuntime, MarkSettled, Counted
<1>5. CASE Finalize(w) \/ FailConflict(w) \/ ClearFence(w) \/ LosesLease(w)
  BY <1>5 DEF Finalize, FailConflict, ClearFence, LosesLease, Counted
<1>6. CASE \E j \in Jobs : Claim(w, j)
  BY <1>6 DEF Claim, Counted
<1>7. CASE \E fatal \in BOOLEAN : Error(w, fatal)
  BY <1>7 DEF Error, Fault, Counted
<1>8. CASE RenewFence(w) \/ StopAfterClaim(w) \/ CrashWorker(w)
  BY <1>8 DEF RenewFence, StopAfterClaim, CrashWorker, Fault, Counted
<1>9. QED
  BY <1>1, <1>2, <1>3, <1>4, <1>5, <1>6, <1>7, <1>8 DEF WorkerStep, Process

LEMMA OtherCounts ==
  ASSUME Command \/ Time
  PROVE  Counted /\ swaps' = swaps
<1>1. CASE Command
  BY <1>1 DEF Command, Terminate, DeleteOwner, DeleteJobs, Counted
<1>2. CASE Time
  BY <1>2 DEF Time, LapseLease, LapseGuard, Elapse, LapseFence, ReapFence,
              Lapse, Fault, Counted
<1>3. QED
  BY <1>1, <1>2

LEMMA CounterTypes ==
  ASSUME TypeOK, HolderInv, Next
  PROVE  faults' \in Nat /\ syncs' \in Nat /\ swaps' \in [Jobs -> Nat]
<1>1. faults \in Nat /\ syncs \in Nat /\ swaps \in [Jobs -> Nat]
  BY DEF TypeOK
<1>2. Counted
  BY RunCounts, WorkerCounts, OtherCounts DEF Next
<1>3. faults' \in Nat /\ syncs' \in Nat
  BY <1>1, <1>2 DEF Counted
<1>4. CASE \E w \in Workers : SwapContext(w)
  <2>1. PICK w \in Workers : SwapContext(w)
    BY <1>4
  <2>2. swaps' = swaps \/ swaps' = [swaps EXCEPT ![wk[w].job] = @ + 1]
    BY <2>1 DEF SwapContext
  <2>3. QED BY <1>1, <1>3, <2>2
<1>5. CASE swaps' = swaps
  BY <1>1, <1>3, <1>5
<1>6. QED
  BY <1>4, <1>5, RunCounts, WorkerCounts, OtherCounts DEF Next

LEMMA TypeStep == IInv /\ Next => TypeOK'
<1> SUFFICES ASSUME IInv, Next PROVE TypeOK'
  OBVIOUS
<1>1. TypeOK /\ HolderInv
  BY DEF IInv
<1>2. QED
  BY <1>1, ContextTypes, JobsTypes, RunTypes, WorkerTypes, RuntimeTypes,
     CounterTypes DEF TypeOK, OwnerType, JobType, RunType, WorkerType

(* the runtime never goes back to an earlier epoch                         *)
LEMMA EpochGrows ==
  ASSUME IInv, Next
  PROVE  rt'.epoch >= rt.epoch
<1> USE DEF IInv
<1>1. rt.epoch \in Nat /\ run.epoch \in Nat
  BY DEF TypeOK, RunType
<1>2. ASSUME NEW fresh \in BOOLEAN, StartRun(fresh) PROVE rt'.epoch >= rt.epoch
  BY <1>1, <1>2 DEF StartRun, TypeOK
<1>3. ASSUME SyncCompact PROVE rt'.epoch >= rt.epoch
  <2>1. rt'.epoch = run.epoch + 1
    BY <1>3 DEF SyncCompact, TypeOK
  <2>2. rt.epoch <= run.epoch + 1
    BY <1>3 DEF SyncCompact, EpochInv
  <2>3. QED BY <1>1, <2>1, <2>2
<1>4. QED
  BY <1>1, <1>2, <1>3, RuntimeFrame, SettledType

(* what the two writes that create and freeze a job leave behind           *)
LEMMA ShadowJob ==
  ASSUME TypeOK, NEW n \in 1 .. MaxTurns, PrepareShadow(n)
  PROVE  \E j \in Jobs, r \in JobType :
           /\ jobs[j].status = "none"
           /\ jobs' = [jobs EXCEPT ![j] = r]
           /\ run' = [run EXCEPT !.job = j]
           /\ r.status = "queued" /\ r.lease = NoLease /\ r.epoch = 0
           /\ r.prefix # <<>>
<1> DEFINE pre == Prefix(run.mem, n)
           r == [NoRecord EXCEPT !.status = "queued", !.active = TRUE,
                   !.prefix = pre, !.rev = owner.rev, !.delayed = TRUE]
<1>1. PICK j \in Jobs : /\ jobs[j].status = "none"
                        /\ jobs' = [jobs EXCEPT ![j] = r]
                        /\ run' = [run EXCEPT !.job = j]
  BY DEF PrepareShadow
<1>2. run.mem \in Seq(Message) /\ n \in 1 .. Len(run.mem) /\ owner.rev \in Nat
  BY DEF TypeOK, RunType, OwnerType, PrepareShadow
<1>3. \A i \in 1 .. n : run.mem[i] \in Message
  BY <1>2, ElementOfSeq, LenProperties
<1>4. pre \in Seq(Message) /\ Len(pre) = n
  BY <1>2, <1>3, SubSeqProperties DEF Prefix
<1>5. pre # <<>>
  BY <1>2, <1>4, EmptySeq
<1> HIDE DEF pre
<1>6. NoRecord \in JobType
  BY EmptySeq DEF NoRecord, JobType, Status
<1>7. r \in JobType
  BY <1>2, <1>4, <1>6 DEF JobType, Status, ActiveStatus
<1>8. /\ r.status = "queued" /\ r.lease = NoLease /\ r.epoch = 0
      /\ r.prefix # <<>>
  BY <1>5 DEF NoRecord
<1> HIDE DEF r
<1>9. QED BY <1>1, <1>7, <1>8

LEMMA FrozenJob ==
  ASSUME TypeOK, JobInv, HolderInv, NEW w \in Workers, FreezeMergeContext(w)
  PROVE  \E j \in Jobs, r \in JobType :
           /\ jobs[j].active
           /\ jobs' = [jobs EXCEPT ![j] = r]
           /\ r.status = jobs[j].status /\ r.active = jobs[j].active
           /\ r.lease = jobs[j].lease /\ r.prefix = jobs[j].prefix
           /\ r.epoch = rt.epoch + 1
<1> DEFINE j == wk[w].job
           n == rt.epoch + 1
           r == [jobs[j] EXCEPT !.epoch = n]
<1>1. jobs' = [jobs EXCEPT ![j] = r] /\ OwnsLease(w) /\ wk[w].pc # "idle"
  BY DEF FreezeMergeContext
<1>2. j \in Jobs /\ jobs[j] \in JobType /\ jobs[j].active
  BY <1>1, OwnedJob
<1>3. n \in Nat
  BY DEF TypeOK
<1> HIDE DEF n
<1>4. /\ r \in JobType
      /\ r.status = jobs[j].status /\ r.active = jobs[j].active
      /\ r.lease = jobs[j].lease /\ r.prefix = jobs[j].prefix
      /\ r.epoch = n
  BY <1>2, <1>3 DEF JobType
<1> HIDE DEF j, r
<1>5. QED BY <1>1, <1>2, <1>4 DEF n

LEMMA JobStep == IInv /\ Next => JobInv'
<1> SUFFICES ASSUME IInv, Next, NEW i \in Jobs
             PROVE  /\ jobs'[i].lease # NoLease => jobs'[i].active
                    /\ jobs'[i].active => jobs'[i].prefix # <<>>
                    /\ jobs'[i].epoch <= rt'.epoch + 1
  BY DEF JobInv
<1> USE DEF IInv
<1>1. /\ jobs \in [Jobs -> JobType] /\ jobs[i].epoch \in Nat
      /\ rt.epoch \in Nat /\ rt'.epoch \in Nat
  BY RuntimeTypes DEF TypeOK, JobType
<1>2. rt'.epoch >= rt.epoch
  BY EpochGrows
<1>3. /\ jobs[i].lease # NoLease => jobs[i].active
      /\ jobs[i].active => jobs[i].prefix # <<>>
      /\ jobs[i].epoch <= rt'.epoch + 1
  BY <1>1, <1>2 DEF JobInv
<1>4. CASE jobs' = jobs
  BY <1>3, <1>4
<1>5. CASE JobChange
  <2>1. PICK j \in Jobs, r \in JobType :
          jobs' = [jobs EXCEPT ![j] = r] /\ Keeps(r, jobs[j])
    BY <1>5 DEF JobChange
  <2>2. jobs'[i] = IF i = j THEN r ELSE jobs[i]
    BY <1>1, <2>1
  <2>3. QED BY <1>3, <2>1, <2>2 DEF Keeps
<1>6. ASSUME NEW n \in 1 .. MaxTurns, PrepareShadow(n)
      PROVE  /\ jobs'[i].lease # NoLease => jobs'[i].active
             /\ jobs'[i].active => jobs'[i].prefix # <<>>
             /\ jobs'[i].epoch <= rt'.epoch + 1
  <2>1. PICK j \in Jobs, r \in JobType :
          /\ jobs' = [jobs EXCEPT ![j] = r]
          /\ r.lease = NoLease /\ r.epoch = 0 /\ r.prefix # <<>>
    BY <1>6, ShadowJob
  <2>2. jobs'[i] = IF i = j THEN r ELSE jobs[i]
    BY <1>1, <2>1
  <2>3. QED BY <1>1, <1>3, <2>1, <2>2
<1>7. ASSUME NEW w \in Workers, FreezeMergeContext(w)
      PROVE  /\ jobs'[i].lease # NoLease => jobs'[i].active
             /\ jobs'[i].active => jobs'[i].prefix # <<>>
             /\ jobs'[i].epoch <= rt'.epoch + 1
  <2>1. PICK j \in Jobs, r \in JobType :
          /\ jobs' = [jobs EXCEPT ![j] = r]
          /\ r.active = jobs[j].active /\ r.lease = jobs[j].lease
          /\ r.prefix = jobs[j].prefix /\ r.epoch = rt.epoch + 1
    BY <1>7, FrozenJob
  <2>2. jobs'[i] = IF i = j THEN r ELSE jobs[i]
    BY <1>1, <2>1
  <2>3. QED BY <1>1, <1>2, <1>3, <2>1, <2>2
<1>8. CASE DeleteJobs
  <2>1. /\ jobs'[i].lease = NoLease /\ ~jobs'[i].active /\ jobs'[i].epoch = 0
    BY <1>8 DEF DeleteJobs, NoRecord
  <2>2. QED BY <1>1, <2>1
<1>9. QED
  BY <1>4, <1>5, <1>6, <1>7, <1>8, JobsFrame

(* a job that has been created stays created                               *)
LEMMA CreatedStays ==
  ASSUME IInv, Next, NEW i \in Jobs, jobs[i].status # "none"
  PROVE  jobs'[i].status # "none"
<1> USE DEF IInv
<1>1. jobs \in [Jobs -> JobType]
  BY DEF TypeOK
<1>2. CASE JobChange
  BY <1>1, <1>2 DEF JobChange, Keeps
<1>3. ASSUME NEW n \in 1 .. MaxTurns, PrepareShadow(n)
      PROVE  jobs'[i].status # "none"
  <2>1. PICK j \in Jobs, r \in JobType :
          jobs' = [jobs EXCEPT ![j] = r] /\ r.status = "queued"
    BY <1>3, ShadowJob
  <2>2. QED BY <1>1, <2>1
<1>4. ASSUME NEW w \in Workers, FreezeMergeContext(w)
      PROVE  jobs'[i].status # "none"
  <2>1. PICK j \in Jobs, r \in JobType :
          jobs' = [jobs EXCEPT ![j] = r] /\ r.status = jobs[j].status
    BY <1>4, FrozenJob
  <2>2. QED BY <1>1, <2>1
<1>5. CASE DeleteJobs
  BY <1>5 DEF DeleteJobs, NoRecord
<1>6. QED
  BY <1>2, <1>3, <1>4, <1>5, JobsFrame

LEMMA HolderStep == IInv /\ Next => HolderInv'
<1> SUFFICES ASSUME IInv, Next PROVE HolderInv'
  OBVIOUS
<1> USE DEF IInv
<1>1. ASSUME NEW w \in Workers, wk'[w].pc # "idle"
      PROVE  /\ wk'[w].job \in Jobs
             /\ jobs'[wk'[w].job].status # "none"
             /\ wk'[w].token # NoLease
  <2>1. wk \in [Workers -> WorkerType]
    BY DEF TypeOK
  <2>2. CASE /\ wk[w].pc # "idle"
             /\ wk'[w].job = wk[w].job /\ wk'[w].token = wk[w].token
    BY <2>2, CreatedStays DEF HolderInv
  <2>3. CASE WorkerChange \/ wk' = wk
    <3>1. wk'[w] = wk[w] \/ Moves(wk'[w], wk[w])
      BY <2>1, <2>3 DEF WorkerChange
    <3>2. QED BY <1>1, <2>2, <3>1 DEF Moves
  <2>4. ASSUME NEW v \in Workers, ReadOwner(v)
        PROVE  /\ wk[w].pc # "idle"
               /\ wk'[w].job = wk[w].job /\ wk'[w].token = wk[w].token
    <3>1. CASE w # v
      BY <1>1, <2>1, <2>4, <3>1 DEF ReadOwner, Goto
    <3>2. CASE w = v
      <4>1. wk[w] \in WorkerType /\ wk[w].pc = "snapshot"
        BY <2>1, <2>4, <3>2 DEF ReadOwner
      <4>2. CASE \E pc \in {"missing", "settle", "conflict"} : Goto(w, pc)
        BY <2>1, <4>1, <4>2 DEF Goto
      <4>3. CASE wk' = [wk EXCEPT ![w].pc = "cas", ![w].msgs = owner.msgs,
                                  ![w].rev = owner.rev, ![w].tries = @ + 1]
        BY <2>1, <4>1, <4>3
      <4>4. QED BY <2>4, <3>2, <4>2, <4>3 DEF ReadOwner
    <3>3. QED BY <3>1, <3>2
  <2>5. ASSUME NEW v \in Workers, NEW j \in Jobs, Claim(v, j)
        PROVE  \/ wk'[w] = wk[w]
               \/ /\ wk'[w].job = j /\ wk'[w].token # NoLease
                  /\ jobs[j].status # "none"
    <3>1. wk' = [wk EXCEPT ![v] = [IdleWorker EXCEPT !.pc = "claimed", !.job = j,
                                     !.token = jobs[j].attempt + 1]]
      BY <2>5 DEF Claim
    <3>2. jobs[j].attempt + 1 # NoLease
      BY DEF TypeOK, JobType
    <3>3. jobs[j].status # "none"
      BY <2>5 DEF Claim, Claimable, ActiveStatus
    <3>4. QED BY <2>1, <3>1, <3>2, <3>3 DEF IdleWorker
  <2>6. ASSUME NEW v \in Workers, NEW j \in Jobs,
               NEW st \in {"cancelled", "superseded"}, Terminate(v, j, st)
        PROVE  \/ wk'[w] = wk[w]
               \/ /\ wk'[w].job = j /\ wk'[w].token # NoLease
                  /\ jobs[j].status # "none"
    <3>1. \/ wk' = wk
          \/ /\ jobs[j].lease # NoLease
             /\ wk' = [wk EXCEPT ![v] = [IdleWorker EXCEPT !.pc = "unfence",
                                           !.job = j, !.token = jobs[j].lease]]
      BY <2>6 DEF Terminate, Unleased
    <3>2. jobs[j].status # "none"
      BY <2>6 DEF Terminate, CanTerminate, CancelSafe, ActiveStatus
    <3>3. QED BY <2>1, <3>1, <3>2 DEF IdleWorker
  <2>7. ASSUME NEW j \in Jobs, wk'[w].job = j, wk'[w].token # NoLease,
               jobs[j].status # "none"
        PROVE  /\ wk'[w].job \in Jobs
               /\ jobs'[wk'[w].job].status # "none"
               /\ wk'[w].token # NoLease
    BY <2>7, CreatedStays
  <2>8. ASSUME wk'[w] = wk[w]
        PROVE  /\ wk'[w].job \in Jobs
               /\ jobs'[wk'[w].job].status # "none"
               /\ wk'[w].token # NoLease
    BY <1>1, <2>2, <2>8
  <2>9. QED
    BY <2>2, <2>3, <2>4, <2>5, <2>6, <2>7, <2>8, WorkersFrame
<1>2. /\ run'.pc \in {"turn", "commit", "release"} => run'.job \in Jobs
      /\ run'.pc = "repaired" => run'.failed \in Jobs
  <2>1. run \in RunType /\ run.failed \in 0 .. MaxJobs
    BY DEF TypeOK, RunType
  <2>2. CASE run' = run
    BY <2>2 DEF HolderInv
  <2>3. CASE run' = IdleRun
    BY <2>3 DEF IdleRun
  <2>4. CASE \E r \in RunType : run' = r /\ RunKeeps(r)
    BY <2>4 DEF RunKeeps
  <2>5. ASSUME NEW fresh \in BOOLEAN, StartRun(fresh) PROVE run'.pc = "running"
    BY <2>5 DEF StartRun, IdleRun
  <2>6. ASSUME NEW n \in 1 .. MaxTurns, PrepareShadow(n) PROVE run'.pc = "running"
    BY <2>1, <2>6 DEF PrepareShadow, RunType
  <2>7. CASE AppendTurn
    BY <2>1, <2>7 DEF AppendTurn, Append1, RunType
  <2>8. CASE CommitTurn
    <3>1. run.job \in Jobs
      BY <2>8 DEF CommitTurn, HolderInv
    <3>2. run'.pc = "release" /\ run'.job = run.job
      BY <2>1, <2>8 DEF CommitTurn, Append1, RunType
    <3>3. QED BY <3>1, <3>2
  <2>9. CASE SyncCompact
    BY <2>1, <2>9 DEF SyncCompact, RunType
  <2>10. QED
    BY <2>2, <2>3, <2>4, <2>5, <2>6, <2>7, <2>8, <2>9, RunFrame
<1>3. QED
  BY <1>1, <1>2 DEF HolderInv

(* the prefix of a job is never written again                              *)
LEMMA PrefixStays ==
  ASSUME IInv, Next, owner.live, NEW i \in Jobs, jobs[i].status # "none"
  PROVE  jobs'[i].prefix = jobs[i].prefix
<1> USE DEF IInv
<1>1. jobs \in [Jobs -> JobType]
  BY DEF TypeOK
<1>2. CASE JobChange
  BY <1>1, <1>2 DEF JobChange, Keeps
<1>3. ASSUME NEW n \in 1 .. MaxTurns, PrepareShadow(n)
      PROVE  jobs'[i].prefix = jobs[i].prefix
  <2>1. PICK j \in Jobs, r \in JobType :
          jobs' = [jobs EXCEPT ![j] = r] /\ jobs[j].status = "none"
    BY <1>3, ShadowJob
  <2>2. QED BY <1>1, <2>1
<1>4. ASSUME NEW w \in Workers, FreezeMergeContext(w)
      PROVE  jobs'[i].prefix = jobs[i].prefix
  <2>1. PICK j \in Jobs, r \in JobType :
          jobs' = [jobs EXCEPT ![j] = r] /\ r.prefix = jobs[j].prefix
    BY <1>4, FrozenJob
  <2>2. QED BY <1>1, <2>1
<1>5. ~DeleteJobs
  BY DEF DeleteJobs
<1>6. QED
  BY <1>2, <1>3, <1>4, <1>5, JobsFrame

(* a revision identifies a context                                         *)
LEMMA RevisionGrows ==
  ASSUME IInv, Next
  PROVE  /\ owner'.live => owner.live
         /\ owner'.live => \/ owner'.rev = owner.rev /\ owner'.msgs = owner.msgs
                           \/ owner'.rev = owner.rev + 1
<1> USE DEF IInv
<1>1. owner \in OwnerType
  BY DEF TypeOK
<1>2. CASE SameContext
  BY <1>2 DEF SameContext
<1>3. CASE AppendTurn \/ CommitTurn
  BY <1>1, <1>3 DEF AppendTurn, CommitTurn, Append1, OwnerType
<1>4. CASE FinishRun
  BY <1>1, <1>4 DEF FinishRun, OwnerType
<1>5. CASE ReplaceContext
  BY <1>1, <1>5 DEF ReplaceContext, OwnerType
<1>6. ASSUME NEW w \in Workers, SwapContext(w), CasMatches(w)
      PROVE  owner'.live = owner.live /\ owner'.rev = owner.rev + 1
  <2>1. owner' = [owner EXCEPT !.msgs = Merged(wk[w].job, wk[w].msgs),
                    !.rev = owner.rev + 1, !.last = wk[w].job, !.fence = NoFence]
    BY <1>6 DEF SwapContext
  <2>2. QED BY <1>1, <2>1 DEF OwnerType
<1>7. CASE DeleteOwner
  BY <1>7 DEF DeleteOwner, FreshOwner
<1>8. QED
  BY <1>2, <1>3, <1>4, <1>5, <1>6, <1>7, OwnerFrame

LEMMA SnapshotStep == IInv /\ Next => SnapshotInv'
<1> SUFFICES ASSUME IInv, Next, NEW w \in Workers, wk'[w].pc = "cas", owner'.live
             PROVE  /\ wk'[w].rev <= owner'.rev
                    /\ wk'[w].rev = owner'.rev => wk'[w].msgs = owner'.msgs
                    /\ jobs'[wk'[w].job].prefix # <<>>
                    /\ PrefixIntact(wk[w].job, wk[w].msgs)'
  BY DEF SnapshotInv, PrefixIntact
<1> USE DEF IInv
<1>1. owner.live /\ (\/ owner'.rev = owner.rev /\ owner'.msgs = owner.msgs
                     \/ owner'.rev = owner.rev + 1)
  BY RevisionGrows
<1>2. /\ wk \in [Workers -> WorkerType] /\ wk[w] \in WorkerType
      /\ wk[w].rev \in Nat /\ owner.rev \in Nat
  BY DEF TypeOK, WorkerType, OwnerType
<1>3. CASE wk'[w] = wk[w]
  <2>1. /\ wk[w].rev <= owner.rev
        /\ wk[w].rev = owner.rev => wk[w].msgs = owner.msgs
        /\ jobs[wk[w].job].prefix # <<>>
        /\ PrefixIntact(wk[w].job, wk[w].msgs)
    BY <1>1, <1>3 DEF SnapshotInv
  <2>2. jobs'[wk[w].job].prefix = jobs[wk[w].job].prefix
    BY <1>1, <1>3, PrefixStays DEF HolderInv
  <2>3. QED
    BY <1>1, <1>2, <1>3, <2>1, <2>2 DEF PrefixIntact
<1>4. CASE WorkerChange
  <2>1. wk'[w] = wk[w] \/ Moves(wk'[w], wk[w])
    BY <1>2, <1>4 DEF WorkerChange
  <2>2. QED BY <1>3, <2>1 DEF Moves
<1>5. ASSUME NEW v \in Workers, ReadOwner(v), wk'[w] # wk[w]
      PROVE  /\ wk'[w].rev <= owner'.rev
             /\ wk'[w].rev = owner'.rev => wk'[w].msgs = owner'.msgs
             /\ jobs'[wk'[w].job].prefix # <<>>
             /\ PrefixIntact(wk[w].job, wk[w].msgs)'
  <2> DEFINE j == wk[w].job
  <2>1. v = w
    BY <1>2, <1>5 DEF ReadOwner, Goto
  <2>2. /\ wk[w].pc = "snapshot" /\ OwnsLease(w)
        /\ owner' = owner /\ jobs' = jobs
    BY <1>5, <2>1 DEF ReadOwner
  <2>3. /\ PrefixIntact(j, owner.msgs)
        /\ wk' = [wk EXCEPT ![w].pc = "cas", ![w].msgs = owner.msgs,
                            ![w].rev = owner.rev, ![w].tries = @ + 1]
    <3>1. ASSUME NEW pc \in {"missing", "settle", "conflict"}, Goto(w, pc)
          PROVE  FALSE
      BY <1>2, <3>1 DEF Goto, WorkerType
    <3>2. QED BY <1>5, <2>1, <3>1 DEF ReadOwner
  <2>4. wk'[w].job = j /\ wk'[w].rev = owner.rev /\ wk'[w].msgs = owner.msgs
    BY <1>2, <2>3 DEF WorkerType
  <2>5. jobs[j].prefix # <<>>
    BY <2>2, OwnedJob
  <2>6. QED
    BY <1>2, <2>2, <2>3, <2>4, <2>5 DEF PrefixIntact
<1>6. ASSUME NEW v \in Workers, NEW j \in Jobs, Claim(v, j)
      PROVE  wk'[w] = wk[w] \/ wk'[w].pc = "claimed"
  BY <1>2, <1>6 DEF Claim, IdleWorker
<1>7. ASSUME NEW v \in Workers, NEW j \in Jobs,
             NEW st \in {"cancelled", "superseded"}, Terminate(v, j, st)
      PROVE  wk'[w] = wk[w] \/ wk'[w].pc = "unfence"
  BY <1>2, <1>7 DEF Terminate, IdleWorker
<1>8. QED
  BY <1>3, <1>4, <1>5, <1>6, <1>7, WorkersFrame

LEMMA ContextStep == IInv /\ Next => ContextInv'
<1> SUFFICES ASSUME IInv, Next
             PROVE  /\ owner'.live => Chain(owner'.msgs, log')
                    /\ run'.pc # "idle" => owner'.live /\ Chain(run'.mem, log')
  BY DEF ContextInv, Chain, LastTurn
<1> USE DEF IInv
<1>1. /\ owner \in OwnerType /\ run \in RunType /\ log \in Nat
      /\ owner.msgs \in Seq(Message) /\ run.mem \in Seq(Message)
  BY DEF TypeOK, OwnerType, RunType
<1>2. /\ owner.live => Chain(owner.msgs, log)
      /\ run.pc # "idle" => owner.live /\ Chain(run.mem, log)
  BY DEF ContextInv
<1>3. CASE AppendTurn \/ CommitTurn
  <2> DEFINE t == Turn(log + 1)
             a == Append(owner.msgs, t)
             b == Append(run.mem, t)
  <2>1. /\ run.pc # "idle" /\ log' = log + 1
        /\ owner' = [owner EXCEPT !.msgs = a, !.rev = owner.rev + 1]
        /\ \E pc \in {"running", "release"} :
             run' = [run EXCEPT !.mem = b, !.pc = pc]
    BY <1>3 DEF AppendTurn, CommitTurn, Append1
  <2>2. Chain(a, log + 1) /\ Chain(b, log + 1)
    BY <1>1, <1>2, <2>1, AppendChain
  <2> HIDE DEF t, a, b
  <2>3. owner'.live = owner.live /\ owner'.msgs = a /\ run'.mem = b
    BY <1>1, <2>1 DEF OwnerType, RunType
  <2>4. QED BY <1>2, <2>1, <2>2, <2>3
<1>4. CASE FinishRun
  <2>1. run' = IdleRun /\ run.pc # "idle" /\ log' = log
    BY <1>4 DEF FinishRun
  <2>2. owner'.msgs \in {owner.msgs, run.mem} /\ owner'.live = owner.live
    BY <1>1, <1>4 DEF FinishRun, OwnerType
  <2>3. QED BY <1>2, <2>1, <2>2 DEF IdleRun
<1>5. CASE ReplaceContext
  <2>1. /\ run.pc # "idle" /\ log' = log
        /\ owner' = [owner EXCEPT !.msgs = run.mem, !.rev = owner.rev + 1]
        /\ \E pc \in {"running", "repaired"} : run' = [run EXCEPT !.pc = pc]
    BY <1>5 DEF ReplaceContext
  <2>2. owner'.live = owner.live /\ owner'.msgs = run.mem /\ run'.mem = run.mem
    BY <1>1, <2>1 DEF OwnerType, RunType
  <2>3. QED BY <1>2, <2>1, <2>2
<1>10. CASE SyncCompact
  <2> DEFINE m == <<Summary("sync", NoJob, run.mem)>>
  <2>1. /\ run.pc # "idle" /\ log' = log /\ run.mem # <<>> /\ owner' = owner
        /\ run' = [run EXCEPT !.pc = "replace", !.mem = m, !.compacted = TRUE,
                              !.epoch = run.epoch + 1]
    BY <1>10 DEF SyncCompact
  <2>2. Chain(m, log)
    BY <1>1, <1>2, <2>1, SyncChain
  <2> HIDE DEF m
  <2>3. run'.mem = m
    BY <1>1, <2>1 DEF RunType
  <2>4. QED BY <1>2, <2>1, <2>2, <2>3
<1>6. ASSUME NEW w \in Workers, SwapContext(w), CasMatches(w)
      PROVE  /\ owner'.live => Chain(owner'.msgs, log')
             /\ run'.pc # "idle" => owner'.live /\ Chain(run'.mem, log')
  <2> DEFINE m == Merged(wk[w].job, wk[w].msgs)
  <2>1. /\ log' = log /\ run' = run
        /\ owner' = [owner EXCEPT !.msgs = m, !.rev = owner.rev + 1,
                       !.last = wk[w].job, !.fence = NoFence]
    BY <1>6 DEF SwapContext
  <2>2. Chain(m, log)
    BY <1>6, SwapFolds
  <2> HIDE DEF m
  <2>3. owner'.live = owner.live /\ owner'.msgs = m
    BY <1>1, <2>1 DEF OwnerType
  <2>4. QED BY <1>2, <2>1, <2>2, <2>3
<1>7. CASE DeleteOwner
  BY <1>7 DEF DeleteOwner, FreshOwner
<1>8. ASSUME SameContext, ~AppendTurn, ~CommitTurn, ~SyncCompact
      PROVE  /\ owner'.live => Chain(owner'.msgs, log')
             /\ run'.pc # "idle" => owner'.live /\ Chain(run'.mem, log')
  <2>1. log' = log /\ owner'.live = owner.live /\ owner'.msgs = owner.msgs
    BY <1>8 DEF SameContext
  <2>2. \/ run'.pc = "idle"
        \/ run.pc # "idle" /\ run'.mem = run.mem
        \/ owner.live /\ run'.mem = owner.msgs
    <3>1. ASSUME NEW fresh \in BOOLEAN, StartRun(fresh)
          PROVE  owner.live /\ run'.mem = owner.msgs
      BY <3>1 DEF StartRun, IdleRun
    <3>2. ASSUME NEW n \in 1 .. MaxTurns, PrepareShadow(n)
          PROVE  run.pc # "idle" /\ run'.mem = run.mem
      BY <1>1, <3>2 DEF PrepareShadow, RunType
    <3>3. ASSUME run' = run \/ run' = IdleRun
          PROVE  run'.pc = "idle" \/ (run.pc # "idle" /\ run'.mem = run.mem)
      BY <3>3 DEF IdleRun
    <3>4. ASSUME NEW r \in RunType, run' = r, RunKeeps(r)
          PROVE  run.pc # "idle" /\ run'.mem = run.mem
      BY <3>4 DEF RunKeeps
    <3>5. QED BY <1>8, <3>1, <3>2, <3>3, <3>4, RunFrame
  <2>3. QED BY <1>2, <2>1, <2>2
<1>9. QED
  BY <1>3, <1>4, <1>5, <1>6, <1>7, <1>8, <1>10, OwnerFrame

LEMMA EpochStep == IInv /\ Next => EpochInv'
<1> DEFINE Alone == /\ \A i \in Jobs : ~jobs'[i].active
                    /\ rt'.epoch <= run'.epoch + 1
                    /\ \A i \in Jobs : jobs'[i].epoch <= run'.epoch + 1
<1> SUFFICES ASSUME IInv, Next, run'.pc # "idle", run'.job = NoJob
             PROVE  Alone
  BY DEF EpochInv, NoActiveJob
<1> USE DEF IInv
<1>1. /\ run \in RunType /\ jobs \in [Jobs -> JobType] /\ run.epoch \in Nat
      /\ rt \in [marker : 0 .. MaxJobs, epoch : Nat] /\ rt.epoch \in Nat
      /\ \A i \in Jobs : jobs[i].epoch \in Nat
  BY DEF TypeOK, RunType, JobType
<1>2. ASSUME NEW fresh \in BOOLEAN, StartRun(fresh) PROVE Alone
  <2>1. /\ \A i \in Jobs : ~jobs[i].active
        /\ jobs' = jobs
        /\ rt'.epoch \in {rt.epoch, rt.epoch + 1}
        /\ run'.epoch = rt'.epoch
    BY <1>1, <1>2 DEF StartRun, IdleRun, NoActiveJob
  <2>2. \A i \in Jobs : jobs[i].epoch <= rt.epoch + 1
    BY DEF JobInv
  <2>3. QED BY <1>1, <2>1, <2>2
<1>3. CASE SyncCompact
  <2>1. run.pc = "running" /\ run.job = NoJob /\ jobs' = jobs
    BY <1>3 DEF SyncCompact
  <2>2. run'.epoch = run.epoch + 1 /\ rt'.epoch = run.epoch + 1
    BY <1>1, <1>3 DEF SyncCompact, RunType
  <2>3. /\ \A i \in Jobs : ~jobs[i].active
        /\ \A i \in Jobs : jobs[i].epoch <= run.epoch + 1
    BY <2>1 DEF EpochInv, NoActiveJob
  <2>4. QED BY <1>1, <2>1, <2>2, <2>3
<1>4. ASSUME NEW n \in 1 .. MaxTurns, PrepareShadow(n) PROVE FALSE
  <2>1. PICK j \in Jobs : run' = [run EXCEPT !.job = j]
    BY <1>4 DEF PrepareShadow
  <2>2. QED BY <1>1, <2>1 DEF RunType, Jobs
<1>5. ASSUME run.pc # "idle", run.job = NoJob, run'.epoch = run.epoch,
             \A fresh \in BOOLEAN : ~StartRun(fresh), ~SyncCompact
      PROVE  Alone
  <2>1. /\ \A i \in Jobs : ~jobs[i].active
        /\ rt.epoch <= run.epoch + 1
        /\ \A i \in Jobs : jobs[i].epoch <= run.epoch + 1
    BY <1>5 DEF EpochInv, NoActiveJob
  <2>2. rt'.epoch <= run'.epoch + 1
    BY <1>5, <2>1, RuntimeFrame, SettledType
  <2>3. ASSUME NEW i \in Jobs
        PROVE  ~jobs'[i].active /\ jobs'[i].epoch <= run'.epoch + 1
    <3>1. CASE jobs' = jobs
      BY <1>5, <2>1, <3>1
    <3>2. CASE JobChange
      BY <1>1, <1>5, <2>1, <3>2 DEF JobChange, Keeps
    <3>3. ASSUME NEW w \in Workers, FreezeMergeContext(w) PROVE FALSE
      BY <2>1, <3>3, FrozenJob
    <3>4. CASE DeleteJobs
      <4>1. ~jobs'[i].active /\ jobs'[i].epoch = 0
        BY <3>4 DEF DeleteJobs, NoRecord
      <4>2. QED BY <1>1, <1>5, <4>1
    <3>5. QED BY <1>4, <3>1, <3>2, <3>3, <3>4, JobsFrame
  <2>4. QED BY <2>2, <2>3
<1>6. ASSUME AppendTurn \/ CommitTurn
      PROVE  run.pc # "idle" /\ run'.job = run.job /\ run'.epoch = run.epoch
  BY <1>1, <1>6 DEF AppendTurn, CommitTurn, Append1, RunType
<1>7. ASSUME NEW r \in RunType, run' = r, RunKeeps(r)
      PROVE  run.pc # "idle" /\ run'.job = run.job /\ run'.epoch = run.epoch
  BY <1>7 DEF RunKeeps
<1>8. run' # IdleRun
  BY DEF IdleRun
<1>9. QED
  BY <1>2, <1>3, <1>4, <1>5, <1>6, <1>7, <1>8, RunFrame

-----------------------------------------------------------------------------
(* Theorems.                                                               *)

LEMMA NextInv == IInv /\ [Next]_vars => IInv'
<1> SUFFICES ASSUME IInv, [Next]_vars PROVE IInv'
  OBVIOUS
<1>1. CASE Next
  BY <1>1, TypeStep, JobStep, HolderStep, SnapshotStep, ContextStep, EpochStep
     DEF IInv
<1>2. CASE UNCHANGED vars
  <2> USE <1>2 DEF IInv, vars
  <2>1. TypeOK'
    BY DEF TypeOK
  <2>2. JobInv' /\ HolderInv'
    BY DEF JobInv, HolderInv
  <2>3. SnapshotInv'
    BY DEF SnapshotInv, PrefixIntact
  <2>4. ContextInv' /\ EpochInv'
    BY DEF ContextInv, Chain, LastTurn, EpochInv, NoActiveJob
  <2>5. QED BY <2>1, <2>2, <2>3, <2>4
<1>3. QED BY <1>1, <1>2

(* In every reachable state the inductive invariant holds: the documents   *)
(* are well formed, a claimed job is active, a worker that is about to     *)
(* swap holds the context that its revision names, and a run without a     *)
(* shadow is alone with its epoch.                                         *)
THEOREM Invariance == Spec => []IInv
<1>1. Init => IInv
  BY InitInv
<1>2. IInv /\ [Next]_vars => IInv'
  BY NextInv
<1>3. QED
  BY <1>1, <1>2, PTL DEF Spec

(* Every document and every process keeps its shape, however the workers,  *)
(* the runs, the commands and their crashes interleave.                    *)
THEOREM TypeCorrect == Spec => []TypeOK
<1>1. IInv => TypeOK
  BY DEF IInv
<1>2. QED
  BY <1>1, Invariance, PTL

(* The active context always stands for the whole transcript: no merge,    *)
(* synchronous compaction, takeover or stale writer loses, repeats or      *)
(* reorders a turn (applyPreparedMergeToOwner, appendConversationMessages, *)
(* replaceCompactedMessages).                                              *)
THEOREM NoTurnIsLost == Spec => []NoTurnLost
<1>1. IInv => NoTurnLost
  BY DEF IInv, ContextInv, NoTurnLost
<1>2. QED
  BY <1>1, Invariance, PTL

(* The project-context epoch of the runtime never goes back, although a    *)
(* run that compacts writes the epoch after its own copy, and a settlement *)
(* may come late (settleAppliedCompactionRuntime).                         *)
THEOREM EpochNeverGoesBack == Spec => EpochMonotone
<1>1. IInv /\ [Next]_vars => [rt'.epoch >= rt.epoch]_vars
  BY EpochGrows
<1>2. QED
  BY <1>1, Invariance, PTL DEF Spec, EpochMonotone
=============================================================================
