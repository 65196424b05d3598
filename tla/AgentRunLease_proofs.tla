------------------------- MODULE AgentRunLease_proofs -------------------------
(***************************************************************************)
(* Theorems about AgentRunLease, for any number of processes, runs and     *)
(* leases: the type invariant, OneActiveRun and OnlyHolderWrites.          *)
(***************************************************************************)
EXTENDS AgentRunLease, TLAPS

(* A process that is busy is busy with a run.                              *)
Busy == \A p \in Processes : proc[p].pc # "idle" => proc[p].run \in Runs

(* No two runs hold active_key, and until a status was written without a   *)
(* lease every run that is not over holds it.                              *)
OneKey == \A r, s \in Runs : runs[r].key /\ runs[s].key => r = s

ActiveHoldsKey == stale = 0 => \A r \in Runs : Active(r) => runs[r].key

IInv == TypeOK /\ Busy /\ OneKey /\ ActiveHoldsKey

-----------------------------------------------------------------------------
(* The AgentRun documents: every update of one yields a document.          *)

Shape(record) == record.status = "running" <=> record.lease # NoOwner

Documents(docs) ==
  /\ docs \in [Runs -> RunType]
  /\ \A r \in Runs : Shape(docs[r])

LEMMA StatusFacts ==
  /\ Terminal \cup Resumable \subseteq Status \ {"running"}
  /\ Inactive \subseteq Status \ {"running"}
  /\ "queued" \in Status /\ "running" \in Status /\ "none" \in Status
  /\ Terminal \subseteq Status /\ "cancelled" \in Terminal
  /\ "recoverable" \in Resumable /\ "failed" \in Terminal
  /\ "queued" \notin Terminal /\ "running" \notin Terminal
  /\ Resumable \subseteq Inactive
  /\ Resumable \cap Terminal = {} /\ Inactive \cap Terminal = {}
  /\ "none" \notin Terminal \cup Resumable
BY DEF Terminal, Resumable, Inactive, Status

LEMMA PutRun ==
  ASSUME NEW docs, Documents(docs), NEW r \in Runs,
         NEW record \in RunType, Shape(record)
  PROVE  Documents([docs EXCEPT ![r] = record])
BY DEF Documents

LEMMA SettledIsDocument ==
  ASSUME Documents(runs), NEW r \in Runs, NEW st \in Status \ {"running"}
  PROVE  Documents(Settled(r, st))
<1> DEFINE record == [runs[r] EXCEPT !.status = st, !.lease = NoOwner, !.live = FALSE,
                        !.key = IF st \in Terminal THEN FALSE ELSE @]
<1>1. runs[r] \in RunType
  BY DEF Documents
<1>2. record \in RunType /\ Shape(record)
  BY <1>1 DEF RunType, Shape, NoOwner
<1>3. Settled(r, st) = [runs EXCEPT ![r] = record]
  BY DEF Settled, Documents
<1> HIDE DEF record
<1>4. Documents([runs EXCEPT ![r] = record])
  BY <1>2, PutRun
<1> QED
  BY <1>3, <1>4, Zenon

LEMMA QueuedIsDocument ==
  ASSUME Documents(runs), NEW r \in Runs
  PROVE  Documents(Queued(r))
<1> DEFINE record == [runs[r] EXCEPT !.status = "queued", !.lease = NoOwner,
                        !.live = FALSE, !.tries = 0, !.late = FALSE]
<1>1. runs[r] \in RunType
  BY DEF Documents
<1>2. record \in RunType /\ Shape(record)
  BY <1>1, StatusFacts DEF RunType, Shape, NoOwner
<1>3. Queued(r) = [runs EXCEPT ![r] = record]
  BY DEF Queued, Documents
<1> HIDE DEF record
<1>4. Documents([runs EXCEPT ![r] = record])
  BY <1>2, PutRun
<1> QED
  BY <1>3, <1>4, Zenon

LEMMA DeferredIsDocument ==
  ASSUME Documents(runs), NEW r \in Runs
  PROVE  Documents(Deferred(r))
<1> DEFINE record == [runs[r] EXCEPT !.status = "queued", !.lease = NoOwner,
                        !.live = FALSE, !.late = TRUE]
<1>1. runs[r] \in RunType
  BY DEF Documents
<1>2. record \in RunType /\ Shape(record)
  BY <1>1, StatusFacts DEF RunType, Shape, NoOwner
<1>3. Deferred(r) = [runs EXCEPT ![r] = record]
  BY DEF Deferred, Documents
<1> HIDE DEF record
<1>4. Documents([runs EXCEPT ![r] = record])
  BY <1>2, PutRun
<1> QED
  BY <1>3, <1>4, Zenon

LEMMA LeasedIsDocument ==
  ASSUME Documents(runs), NEW r \in Runs, NEW o \in Nat \ {NoOwner}
  PROVE  Documents(Leased(r, o))
<1> DEFINE record == [runs[r] EXCEPT !.status = "running", !.lease = o, !.live = TRUE]
<1>1. runs[r] \in RunType
  BY DEF Documents
<1>2. record \in RunType /\ Shape(record)
  BY <1>1, StatusFacts DEF RunType, Shape
<1>3. Leased(r, o) = [runs EXCEPT ![r] = record]
  BY DEF Leased, Documents
<1> HIDE DEF record
<1>4. Documents([runs EXCEPT ![r] = record])
  BY <1>2, PutRun
<1> QED
  BY <1>3, <1>4, Zenon

(* Fields that status and lease do not depend on.                          *)
LEMMA MarkedIsDocument ==
  ASSUME NEW docs, Documents(docs), NEW r \in Runs, NEW b \in BOOLEAN, NEW n \in Nat
  PROVE  /\ Documents([docs EXCEPT ![r].live = b])
         /\ Documents([docs EXCEPT ![r].late = b])
         /\ Documents([docs EXCEPT ![r].cancel = b])
         /\ Documents([docs EXCEPT ![r].tries = n])
         /\ Documents([docs EXCEPT ![r].tries = n, ![r].late = b])
<1>1. docs[r] \in RunType /\ Shape(docs[r])
  BY DEF Documents
<1>2. /\ [docs[r] EXCEPT !.live = b] \in RunType /\ Shape([docs[r] EXCEPT !.live = b])
      /\ [docs[r] EXCEPT !.late = b] \in RunType /\ Shape([docs[r] EXCEPT !.late = b])
      /\ [docs[r] EXCEPT !.cancel = b] \in RunType /\ Shape([docs[r] EXCEPT !.cancel = b])
      /\ [docs[r] EXCEPT !.tries = n] \in RunType /\ Shape([docs[r] EXCEPT !.tries = n])
      /\ [docs[r] EXCEPT !.tries = n, !.late = b] \in RunType
      /\ Shape([docs[r] EXCEPT !.tries = n, !.late = b])
  BY <1>1 DEF RunType, Shape
<1>3. /\ [docs EXCEPT ![r].live = b] = [docs EXCEPT ![r] = [docs[r] EXCEPT !.live = b]]
      /\ [docs EXCEPT ![r].late = b] = [docs EXCEPT ![r] = [docs[r] EXCEPT !.late = b]]
      /\ [docs EXCEPT ![r].cancel = b] = [docs EXCEPT ![r] = [docs[r] EXCEPT !.cancel = b]]
      /\ [docs EXCEPT ![r].tries = n] = [docs EXCEPT ![r] = [docs[r] EXCEPT !.tries = n]]
      /\ [docs EXCEPT ![r].tries = n, ![r].late = b]
           = [docs EXCEPT ![r] = [docs[r] EXCEPT !.tries = n, !.late = b]]
  BY DEF Documents
<1> QED
  BY <1>2, <1>3, PutRun

LEMMA RedispatchedIsDocument ==
  ASSUME Documents(runs), NEW r \in Runs
  PROVE  Documents(Redispatched(r))
<1>1. runs[r].tries \in Nat
  BY DEF Documents, RunType
<1> DEFINE n == runs[r].tries + 1
<1>2. n \in Nat
  BY <1>1
<1>3. Documents(Settled(r, "recoverable")) /\ Documents(Deferred(r))
  BY SettledIsDocument, DeferredIsDocument, StatusFacts
<1>4. Redispatched(r) = IF n >= MaxDispatch
                        THEN [Settled(r, "recoverable") EXCEPT ![r].tries = n, ![r].late = FALSE]
                        ELSE [Deferred(r) EXCEPT ![r].tries = n]
  BY DEF Redispatched
<1> DEFINE S == Settled(r, "recoverable")
           D == Deferred(r)
<1> HIDE DEF n, S, D
<1>5. Documents([S EXCEPT ![r].tries = n, ![r].late = FALSE])
  BY <1>2, <1>3, MarkedIsDocument DEF S
<1>6. Documents([D EXCEPT ![r].tries = n])
  BY <1>2, <1>3, MarkedIsDocument DEF D
<1> QED
  BY <1>4, <1>5, <1>6 DEF S, D

-----------------------------------------------------------------------------
(* What a step can do to the AgentRun documents.                           *)

Created(r) == [runs EXCEPT ![r].status = "queued", ![r].key = TRUE]

Marked(r) ==
  \E b \in BOOLEAN : \/ runs' = [runs EXCEPT ![r].live = b]
                     \/ runs' = [runs EXCEPT ![r].late = b]
                     \/ runs' = [runs EXCEPT ![r].cancel = b]

LeasedTo(r, o) ==
  \/ runs' = Leased(r, o)
  \/ runs' = [Leased(r, o) EXCEPT ![r].late = FALSE]

Update(r) ==
  \/ Marked(r)
  \/ /\ Active(r)
     /\ \/ \E st \in Terminal \cup Resumable : runs' = Settled(r, st)
        \/ runs' \in {Queued(r), Deferred(r), Redispatched(r)}
        \/ \E o \in Nat \ {NoOwner} : LeasedTo(r, o)

Creation(r) == NoActiveRun /\ runs[r].status = "none" /\ runs' = Created(r)

LateWrite(r) ==
  stale' = stale + 1 /\ \E st \in Terminal \cup Resumable : runs' = Settled(r, st)

DocumentStep ==
  \/ UNCHANGED <<runs, stale>>
  \/ \E r \in Runs : LateWrite(r)
  \/ stale' = stale /\ \E r \in Runs : Update(r) \/ Creation(r)

LEMMA RequestsStep ==
  ASSUME NEW p \in Processes, NEW r \in Runs,
         \/ CreateRun(p, r) \/ ResumeRun(p, r) \/ CancelInactive(p, r)
         \/ MarkExpired(p, r) \/ FinalizeCancelled(p, r)
  PROVE  DocumentStep
<1>1. CASE CreateRun(p, r)
  BY <1>1 DEF CreateRun, DocumentStep, Creation, Created
<1>2. CASE ResumeRun(p, r)
  <2>1. Active(r)
    BY <1>2, StatusFacts DEF ResumeRun, Active
  <2> QED
    BY <1>2, <2>1 DEF ResumeRun, DocumentStep, Update
<1>3. CASE CancelInactive(p, r)
  <2>1. Active(r)
    BY <1>3 DEF CancelInactive, Active, Inactive, Terminal
  <2> QED
    BY <1>3, <2>1, StatusFacts DEF CancelInactive, DocumentStep, Update
<1>4. CASE MarkExpired(p, r)
  <2>1. Active(r)
    BY <1>4 DEF MarkExpired, Expired, Active, Terminal
  <2> QED
    BY <1>4, <2>1, StatusFacts DEF MarkExpired, DocumentStep, Update
<1>5. CASE FinalizeCancelled(p, r)
  <2>1. Active(r)
    BY <1>5 DEF FinalizeCancelled, Orphaned, Active, Terminal, Inactive
  <2> QED
    BY <1>5, <2>1, StatusFacts DEF FinalizeCancelled, DocumentStep, Update
<1> QED
  BY <1>1, <1>2, <1>3, <1>4, <1>5

(* Writes that no process follows up.                                      *)
LEMMA SingleStep ==
  ASSUME NEW r \in Runs,
         \/ RequeueRecoverable(r) \/ RequestCancellation(r) \/ MarkAbandoned(r)
         \/ LapseLease(r) \/ Elapse(r)
  PROVE  DocumentStep
<1>1. CASE RequeueRecoverable(r)
  <2>1. Active(r)
    BY <1>1 DEF RequeueRecoverable, CanRequeue, Active, Terminal
  <2> QED
    BY <1>1, <2>1 DEF RequeueRecoverable, DocumentStep, Update
<1>2. CASE MarkAbandoned(r)
  <2>1. Active(r)
    BY <1>2 DEF MarkAbandoned, Active, Terminal
  <2> QED
    BY <1>2, <2>1, StatusFacts DEF MarkAbandoned, DocumentStep, Update
<1>3. CASE RequestCancellation(r) \/ LapseLease(r) \/ Elapse(r)
  <2>1. Marked(r) /\ stale' = stale
    BY <1>3 DEF RequestCancellation, LapseLease, Elapse, Marked
  <2> QED
    BY <2>1 DEF DocumentStep, Update
<1> QED
  BY <1>1, <1>2, <1>3

LEMMA LeasesStep ==
  ASSUME TypeOK, Busy, NEW p \in Processes, NEW r \in Runs,
         LeaseNext(p, r) \/ ClaimRun(p)
  PROVE  DocumentStep
<1>1. leases + 1 \in Nat \ {NoOwner}
  BY DEF TypeOK, NoOwner
<1>2. CASE LeaseNext(p, r)
  <2>1. Active(r)
    BY <1>2 DEF LeaseNext, Leasable, Active, Terminal
  <2>2. LeasedTo(r, leases + 1) /\ stale' = stale
    BY <1>2 DEF LeaseNext, LeasedTo
  <2> QED
    BY <1>1, <2>1, <2>2 DEF DocumentStep, Update
<1>3. CASE ClaimRun(p)
  <2> DEFINE run == proc[p].run
             o == IF proc[p].owner = NoOwner THEN leases + 1 ELSE proc[p].owner
  <2>1. run \in Runs
    BY <1>3 DEF ClaimRun, Busy
  <2>2. o \in Nat \ {NoOwner}
    BY <1>1 DEF TypeOK, ProcType
  <2>3. CASE Claimable(run, o)
    <3>1. Active(run)
      BY <2>3 DEF Claimable, Active, Terminal
    <3>2. runs' = Leased(run, o) /\ stale' = stale
      BY <1>3, <2>3 DEF ClaimRun
    <3> HIDE DEF run, o
    <3> QED
      BY <2>1, <2>2, <3>1, <3>2 DEF DocumentStep, Update, LeasedTo
  <2>4. CASE ~Claimable(run, o)
    BY <1>3, <2>4 DEF ClaimRun, DocumentStep
  <2> QED
    BY <2>3, <2>4
<1> QED
  BY <1>2, <1>3

(* Writes of a process under the lease of its owner id.                    *)
LEMMA OwnedStep ==
  ASSUME TypeOK, Busy, NEW p \in Processes, NEW st \in Terminal \cup Resumable,
         \/ Relinquish(p) \/ Defer(p) \/ DispatchFails(p) \/ RequeueUnheard(p)
         \/ Renew(p) \/ Finish(p, st) \/ RecordOwnFailure(p, st) \/ Reject(p, st)
  PROVE  DocumentStep
<1> DEFINE run == proc[p].run
<1>1. run \in Runs
  BY DEF Busy, Relinquish, Defer, DispatchFails, RequeueUnheard, Renew, Beating,
         Finish, RecordOwnFailure, Reject
<1>2. stale' = stale
  BY DEF Relinquish, Defer, DispatchFails, RequeueUnheard, Renew,
         Finish, RecordOwnFailure, Reject
<1>3. CASE ~Owns(p)
  <2>1. runs' = runs
    BY <1>3 DEF Relinquish, Defer, DispatchFails, RequeueUnheard, Requeue, Renew,
                Finish, RecordOwnFailure, Reject, OwnsUncancelled
  <2> QED
    BY <1>2, <2>1 DEF DocumentStep
<1>4. CASE Owns(p)
  <2>1. Active(run)
    BY <1>4 DEF Owns, Active, Terminal
  <2>2. \/ runs' = runs
        \/ runs' = [runs EXCEPT ![run].live = TRUE]
        \/ runs' = Settled(run, "recoverable")
        \/ runs' = Settled(run, st)
        \/ runs' = Deferred(run)
        \/ runs' = Redispatched(run)
    BY <1>4 DEF Relinquish, Defer, DispatchFails, RequeueUnheard, Requeue, Renew,
                Finish, RecordOwnFailure, Reject
  <2> HIDE DEF run
  <2> QED
    BY <1>1, <1>2, <2>1, <2>2, StatusFacts DEF DocumentStep, Update, Marked
<1> QED
  BY <1>3, <1>4

LEMMA LateStep ==
  ASSUME Busy, NEW p \in Processes, NEW st \in Terminal \cup Resumable,
         RecordLateFailure(p, st)
  PROVE  DocumentStep
<1>1. proc[p].run \in Runs
  BY DEF RecordLateFailure, Unsure, Busy
<1> QED
  BY <1>1 DEF RecordLateFailure, DocumentStep, LateWrite

LEMMA OtherStep ==
  ASSUME NEW p \in Processes, NEW q \in Processes,
         \/ PointRuntime(p) \/ HandOver(p) \/ EstablishFence(p) \/ FenceFails(p)
         \/ Accept(p)
         \/ LoseResponse(p, q) \/ WriteRuntime(p) \/ ObserveLoss(p) \/ Leave(p)
         \/ ExecutionError(p) \/ LeaveFailed(p) \/ Yield(p) \/ Park(p) \/ Clear(p)
         \/ Crash(p)
  PROVE  UNCHANGED <<runs, stale>>
BY DEF PointRuntime, HandOver, EstablishFence, FenceFails, Accept, LoseResponse, WriteRuntime,
       ObserveLoss, Leave, ExecutionError, LeaveFailed, Yield, Park, Clear, Crash

LEMMA EveryStep ==
  ASSUME TypeOK, Busy, [Next]_vars
  PROVE  DocumentStep
<1>1. CASE UNCHANGED vars
  BY <1>1 DEF vars, DocumentStep
<1>2. ASSUME NEW p \in Processes, Request(p) \/ Sweep(p) \/ \E r \in Runs : LeaseNext(p, r)
      PROVE  DocumentStep
  BY <1>2, RequestsStep, LeasesStep DEF Request, Sweep
<1>3. ASSUME NEW p \in Processes, Continue(p)
      PROVE  DocumentStep
  <2>1. CASE ClaimRun(p)
    <3>1. proc[p].run \in Runs
      BY <2>1 DEF ClaimRun, Busy
    <3> QED
      BY <2>1, <3>1, LeasesStep
  <2>2. CASE \E st \in Terminal \cup Resumable :
               Finish(p, st) \/ RecordOwnFailure(p, st) \/ RecordLateFailure(p, st)
    BY <2>2, OwnedStep, LateStep
  <2>3. CASE Relinquish(p) \/ RequeueUnheard(p)
    <3>1. "failed" \in Terminal \cup Resumable
      BY DEF Terminal
    <3> QED
      BY <2>3, <3>1, OwnedStep
  <2>4. CASE \/ PointRuntime(p) \/ HandOver(p) \/ EstablishFence(p) \/ Accept(p)
             \/ Leave(p) \/ LeaveFailed(p) \/ Yield(p) \/ Park(p) \/ Clear(p)
    BY <2>4, OtherStep DEF DocumentStep
  <2> QED
    BY <1>3, <2>1, <2>2, <2>3, <2>4 DEF Continue
<1>4. ASSUME NEW p \in Processes,
             Disturb(p) \/ WriteRuntime(p) \/ Renew(p) \/ ObserveLoss(p)
      PROVE  DocumentStep
  <2>1. {"failed", "cancelled"} \subseteq Terminal \cup Resumable
    BY DEF Terminal
  <2>2. CASE Defer(p) \/ DispatchFails(p) \/ Renew(p)
    BY <2>1, <2>2, OwnedStep
  <2>3. CASE \E st \in {"failed", "cancelled"} : Reject(p, st)
    BY <2>1, <2>3, OwnedStep
  <2>4. CASE \/ FenceFails(p) \/ ExecutionError(p) \/ Crash(p) \/ WriteRuntime(p)
             \/ ObserveLoss(p) \/ \E q \in Processes : LoseResponse(p, q)
    BY <2>4, OtherStep DEF DocumentStep
  <2> QED
    BY <1>4, <2>2, <2>3, <2>4 DEF Disturb
<1>5. ASSUME NEW r \in Runs,
             \/ RequeueRecoverable(r) \/ RequestCancellation(r) \/ MarkAbandoned(r)
             \/ LapseLease(r) \/ Elapse(r)
      PROVE  DocumentStep
  BY <1>5, SingleStep
<1>6. ASSUME Next
      PROVE  DocumentStep
  <2>1. CASE \E p \in Processes :
               \/ Request(p) \/ Sweep(p) \/ Continue(p) \/ Disturb(p)
               \/ \E r \in Runs : LeaseNext(p, r)
               \/ WriteRuntime(p) \/ Renew(p) \/ ObserveLoss(p)
    BY <2>1, <1>2, <1>3, <1>4
  <2>2. CASE \E r \in Runs :
               \/ RequeueRecoverable(r) \/ RequestCancellation(r) \/ MarkAbandoned(r)
               \/ LapseLease(r) \/ Elapse(r)
    BY <2>2, <1>5
  <2> QED
    BY <1>6, <2>1, <2>2 DEF Next
<1> QED
  BY <1>1, <1>6

-----------------------------------------------------------------------------
(* What such a step keeps.                                                 *)

LEMMA DocumentsKept ==
  ASSUME Documents(runs), DocumentStep
  PROVE  Documents(runs)'
<1>1. CASE runs' = runs
  BY <1>1 DEF Documents
<1>2. ASSUME NEW r \in Runs, NEW st \in Terminal \cup Resumable, runs' = Settled(r, st)
      PROVE  Documents(runs')
  BY <1>2, SettledIsDocument, StatusFacts
<1>3. ASSUME NEW r \in Runs, Marked(r)
      PROVE  Documents(runs')
  <2>1. PICK b \in BOOLEAN : \/ runs' = [runs EXCEPT ![r].live = b]
                             \/ runs' = [runs EXCEPT ![r].late = b]
                             \/ runs' = [runs EXCEPT ![r].cancel = b]
    BY <1>3 DEF Marked
  <2>2. 0 \in Nat
    OBVIOUS
  <2>3. /\ Documents([runs EXCEPT ![r].live = b])
        /\ Documents([runs EXCEPT ![r].late = b])
        /\ Documents([runs EXCEPT ![r].cancel = b])
    BY <2>2, MarkedIsDocument
  <2> QED
    BY <2>1, <2>3, Zenon
<1>4. ASSUME NEW r \in Runs, runs' \in {Queued(r), Deferred(r), Redispatched(r)}
      PROVE  Documents(runs')
  BY <1>4, QueuedIsDocument, DeferredIsDocument, RedispatchedIsDocument
<1>5. ASSUME NEW r \in Runs, NEW o \in Nat \ {NoOwner}, LeasedTo(r, o)
      PROVE  Documents(runs')
  <2> DEFINE L == Leased(r, o)
  <2>1. Documents(L)
    BY LeasedIsDocument
  <2> HIDE DEF L
  <2>2. Documents([L EXCEPT ![r].late = FALSE])
    BY <2>1, MarkedIsDocument
  <2> QED
    BY <1>5, <2>1, <2>2 DEF LeasedTo, L
<1>6. ASSUME NEW r \in Runs, Creation(r)
      PROVE  Documents(runs')
  <2> DEFINE record == [runs[r] EXCEPT !.status = "queued", !.key = TRUE]
  <2>1. runs[r] \in RunType /\ Shape(runs[r])
    BY DEF Documents
  <2>2. record \in RunType /\ Shape(record)
    BY <2>1, <1>6, StatusFacts DEF RunType, Shape, Creation
  <2>3. runs' = [runs EXCEPT ![r] = record]
    BY <1>6 DEF Creation, Created, Documents
  <2> HIDE DEF record
  <2>4. Documents([runs EXCEPT ![r] = record])
    BY <2>2, PutRun
  <2> QED
    BY <2>3, <2>4, Zenon
<1>7. ASSUME NEW r \in Runs, Update(r)
      PROVE  Documents(runs')
  BY <1>7, <1>2, <1>3, <1>4, <1>5 DEF Update
<1>8. Documents(runs')
  BY <1>1, <1>2, <1>6, <1>7 DEF DocumentStep, LateWrite
<1> QED
  BY <1>8 DEF Documents, Shape

(* No run gains the key, and none that goes on loses it.                   *)
KeysKept ==
  \A r \in Runs : /\ runs'[r].key => runs[r].key
                  /\ Active(r)' => Active(r) /\ runs'[r].key = runs[r].key

LEMMA UpdateKeepsKeys ==
  ASSUME Documents(runs), NEW r \in Runs, Update(r)
  PROVE  KeysKept
<1> USE DEF KeysKept, Documents, RunType, Active
<1>1. CASE Marked(r)
  BY <1>1 DEF Marked
<1>2. ASSUME Active(r), NEW st \in Terminal \cup Resumable, runs' = Settled(r, st)
      PROVE  KeysKept
  BY <1>2 DEF Settled
<1>3. CASE Active(r) /\ runs' = Queued(r)
  BY <1>3 DEF Queued
<1>4. CASE Active(r) /\ runs' = Deferred(r)
  BY <1>4 DEF Deferred
<1>5. CASE Active(r) /\ runs' = Redispatched(r)
  BY <1>5 DEF Redispatched, Settled, Deferred, Terminal
<1>6. ASSUME Active(r), NEW o \in Nat \ {NoOwner}, LeasedTo(r, o)
      PROVE  KeysKept
  BY <1>6 DEF LeasedTo, Leased
<1> QED
  BY <1>1, <1>2, <1>3, <1>4, <1>5, <1>6 DEF Update

-----------------------------------------------------------------------------
(* The processes: what Goto, Begin and GoIdle leave.                       *)

Processing(procs) ==
  /\ procs \in [Processes -> ProcType]
  /\ \A p \in Processes : procs[p].pc # "idle" => procs[p].run \in Runs

LEMMA PutProc ==
  ASSUME NEW procs, Processing(procs), NEW p \in Processes,
         NEW record \in ProcType, record.pc # "idle" => record.run \in Runs
  PROVE  Processing([procs EXCEPT ![p] = record])
BY DEF Processing

LEMMA IdleIsProc == Idle \in ProcType /\ Idle.pc = "idle"
BY ConstantsAssumption DEF Idle, ProcType, PC, NoRun, NoOwner

LEMMA GoIdleKeeps ==
  ASSUME Processing(proc), NEW p \in Processes, GoIdle(p)
  PROVE  Processing(proc')
BY IdleIsProc, PutProc DEF GoIdle

LEMMA BeginKeeps ==
  ASSUME Processing(proc), NEW p \in Processes, NEW pc \in PC, NEW r \in Runs,
         NEW o \in Nat, Begin(p, pc, r, o)
  PROVE  Processing(proc')
<1> DEFINE record == [Idle EXCEPT !.pc = pc, !.run = r, !.owner = o]
<1>1. Idle \in ProcType /\ r \in 0 .. MaxRuns
  BY IdleIsProc, ConstantsAssumption DEF Runs
<1>2. record \in ProcType /\ record.run \in Runs
  BY <1>1 DEF ProcType
<1>3. proc' = [proc EXCEPT ![p] = record]
  BY DEF Begin
<1> HIDE DEF record
<1> QED
  BY <1>2, <1>3, PutProc

(* A process that is busy goes on with the same run.                       *)
LEMMA OnwardKeeps ==
  ASSUME Processing(proc), NEW p \in Processes, NEW pc \in PC, NEW o \in Nat,
         NEW b \in BOOLEAN, proc[p].pc # "idle"
  PROVE  /\ Processing([proc EXCEPT ![p].pc = pc])
         /\ Processing([proc EXCEPT ![p].pc = pc, ![p].owner = o])
         /\ Processing([proc EXCEPT ![p].pc = pc, ![p].valid = b])
         /\ Processing([proc EXCEPT ![p].valid = b])
         /\ Processing([proc EXCEPT ![p].pc = pc, ![p].stopped = b])
         /\ Processing([proc EXCEPT ![p].pc = pc, ![p].stopped = b, ![p].owner = o])
<1> DEFINE m1 == [proc[p] EXCEPT !.pc = pc]
           m2 == [proc[p] EXCEPT !.pc = pc, !.owner = o]
           m3 == [proc[p] EXCEPT !.pc = pc, !.valid = b]
           m4 == [proc[p] EXCEPT !.valid = b]
           m5 == [proc[p] EXCEPT !.pc = pc, !.stopped = b]
           m6 == [proc[p] EXCEPT !.pc = pc, !.stopped = b, !.owner = o]
<1>1. proc[p] \in ProcType /\ proc[p].run \in Runs
  BY DEF Processing
<1>2. \A m \in {m1, m2, m3, m4, m5, m6} : m \in ProcType /\ m.run \in Runs
  BY <1>1 DEF ProcType
<1>3. /\ [proc EXCEPT ![p].pc = pc] = [proc EXCEPT ![p] = m1]
      /\ [proc EXCEPT ![p].pc = pc, ![p].owner = o] = [proc EXCEPT ![p] = m2]
      /\ [proc EXCEPT ![p].pc = pc, ![p].valid = b] = [proc EXCEPT ![p] = m3]
      /\ [proc EXCEPT ![p].valid = b] = [proc EXCEPT ![p] = m4]
      /\ [proc EXCEPT ![p].pc = pc, ![p].stopped = b] = [proc EXCEPT ![p] = m5]
      /\ [proc EXCEPT ![p].pc = pc, ![p].stopped = b, ![p].owner = o]
           = [proc EXCEPT ![p] = m6]
  BY DEF Processing
<1> HIDE DEF m1, m2, m3, m4, m5, m6
<1>4. \A m \in {m1, m2, m3, m4, m5, m6} : Processing([proc EXCEPT ![p] = m])
  BY <1>2, PutProc
<1> QED
  BY <1>3, <1>4, Zenon

LEMMA GotoKeeps ==
  ASSUME Processing(proc), NEW p \in Processes, NEW pc \in PC,
         proc[p].pc # "idle", Goto(p, pc)
  PROVE  Processing(proc')
<1>1. 0 \in Nat /\ TRUE \in BOOLEAN
  OBVIOUS
<1>2. Processing([proc EXCEPT ![p].pc = pc])
  BY <1>1, OnwardKeeps
<1> QED
  BY <1>2 DEF Goto

LEMMA ProgramCounters ==
  /\ {"point", "claim", "fence", "refence", "relinquish", "surrender", "dispatch",
      "unheard", "execute", "ended", "failing", "refused", "yield", "park",
      "clear"} \subseteq PC
  /\ \A st : SecondWrite(st) \in PC
BY DEF PC, SecondWrite

LEMMA CatchKeeps ==
  ASSUME Processing(proc), Documents(runs), NEW p \in Processes,
         proc[p].pc # "idle", Catch(p)
  PROVE  Processing(proc')
<1>1. 0 \in Nat /\ runs[proc[p].run].cancel \in BOOLEAN
  BY DEF Processing, Documents, RunType
<1>2. Processing([proc EXCEPT ![p].pc = "refused", ![p].stopped = runs[proc[p].run].cancel])
  BY <1>1, OnwardKeeps, ProgramCounters
<1> QED
  BY <1>2 DEF Catch

LEMMA RequestProcesses ==
  ASSUME Processing(proc), Documents(runs), leases \in Nat, NEW p \in Processes,
         NEW r \in Runs,
         \/ CreateRun(p, r) \/ ResumeRun(p, r) \/ CancelInactive(p, r)
         \/ MarkExpired(p, r) \/ FinalizeCancelled(p, r) \/ LeaseNext(p, r)
  PROVE  Processing(proc')
<1>1. ASSUME NEW pc \in {"point", "claim", "clear", "yield", "fence"},
             NEW o \in {NoOwner, runs[r].lease, leases + 1}, Begin(p, pc, r, o)
      PROVE  Processing(proc')
  <2>1. o \in Nat
    BY DEF NoOwner, Documents, RunType
  <2> QED
    BY <1>1, <2>1, BeginKeeps, ProgramCounters
<1> QED
  BY <1>1 DEF CreateRun, ResumeRun, CancelInactive, MarkExpired,
       FinalizeCancelled, LeaseNext

LEMMA ClaimProcesses ==
  ASSUME Processing(proc), Documents(runs), leases \in Nat, NEW p \in Processes,
         ClaimRun(p) \/ EstablishFence(p) \/ Relinquish(p)
  PROVE  Processing(proc')
<1>1. proc[p].pc # "idle" /\ proc[p] \in ProcType
  BY DEF ClaimRun, EstablishFence, Relinquish, Processing
<1>2. CASE ClaimRun(p)
  <2> DEFINE o == IF proc[p].owner = NoOwner THEN leases + 1 ELSE proc[p].owner
  <2>1. o \in Nat
    BY <1>1 DEF ProcType
  <2>2. \/ proc' = [proc EXCEPT ![p].pc = "refence", ![p].owner = o]
        \/ Catch(p)
    BY <1>2 DEF ClaimRun
  <2> HIDE DEF o
  <2>3. TRUE \in BOOLEAN
    OBVIOUS
  <2>4. Processing([proc EXCEPT ![p].pc = "refence", ![p].owner = o])
    BY <1>1, <2>1, <2>3, OnwardKeeps, ProgramCounters
  <2> QED
    BY <1>1, <2>2, <2>4, CatchKeeps
<1>3. CASE EstablishFence(p)
  <2>1. 0 \in Nat /\ TRUE \in BOOLEAN
    OBVIOUS
  <2>2. /\ Processing([proc EXCEPT ![p].pc = "dispatch"])
        /\ Processing([proc EXCEPT ![p].pc = "execute", ![p].valid = TRUE])
    BY <1>1, <2>1, OnwardKeeps, ProgramCounters
  <2> QED
    BY <1>3, <2>2 DEF EstablishFence
<1>4. CASE Relinquish(p)
  BY <1>1, <1>4, CatchKeeps, GoIdleKeeps DEF Relinquish
<1> QED
  BY <1>2, <1>3, <1>4

LEMMA GotoProcesses ==
  ASSUME Processing(proc), NEW p \in Processes, NEW st \in Terminal \cup Resumable,
         \/ FenceFails(p) \/ Accept(p) \/ Defer(p) \/ DispatchFails(p)
         \/ RequeueUnheard(p) \/ HandOver(p) \/ Leave(p) \/ Finish(p, st) \/ Reject(p, st)
         \/ RecordLateFailure(p, st) \/ LeaveFailed(p) \/ Crash(p)
  PROVE  Processing(proc')
<1>1. proc[p].pc # "idle"
  BY DEF FenceFails, Accept, Defer, DispatchFails, RequeueUnheard, HandOver, Leave, Finish,
         Reject, RecordLateFailure, LeaveFailed, Unsure, Crash
<1>2. GoIdle(p) \/ \E pc \in PC : Goto(p, pc)
  <2>1. CASE \/ FenceFails(p) \/ Accept(p) \/ HandOver(p) \/ Leave(p)
             \/ LeaveFailed(p) \/ Crash(p)
    BY <2>1, ProgramCounters
       DEF FenceFails, Accept, HandOver, Leave, LeaveFailed, Crash
  <2>2. CASE Defer(p) \/ DispatchFails(p) \/ RequeueUnheard(p)
    BY <2>2, ProgramCounters DEF Defer, DispatchFails, RequeueUnheard, Requeue
  <2>3. CASE Finish(p, st) \/ Reject(p, st) \/ RecordLateFailure(p, st)
    BY <2>3, ProgramCounters DEF Finish, Reject, RecordLateFailure
  <2> QED
    BY <2>1, <2>2, <2>3
<1> QED
  BY <1>1, <1>2, GoIdleKeeps, GotoKeeps

LEMMA ExecuteProcesses ==
  ASSUME Processing(proc), Documents(runs), NEW p \in Processes,
         NEW st \in Terminal \cup Resumable,
         \/ WriteRuntime(p) \/ Renew(p) \/ ObserveLoss(p) \/ ExecutionError(p)
         \/ RecordOwnFailure(p, st)
  PROVE  Processing(proc')
<1>1. proc[p].pc # "idle" /\ proc[p] \in ProcType /\ proc[p].run \in Runs
  BY DEF WriteRuntime, Renew, ObserveLoss, Beating, ExecutionError,
         RecordOwnFailure, Processing
<1>2. 0 \in Nat /\ FALSE \in BOOLEAN
  OBVIOUS
<1>3. CASE WriteRuntime(p) \/ Renew(p)
  BY <1>3, GoIdleKeeps DEF WriteRuntime, Renew
<1>4. CASE ObserveLoss(p)
  <2>1. Processing([proc EXCEPT ![p].valid = FALSE])
    BY <1>1, <1>2, OnwardKeeps, ProgramCounters
  <2> QED
    BY <1>4, <2>1 DEF ObserveLoss
<1>5. CASE ExecutionError(p)
  <2> DEFINE o == IF proc[p].pc \in {"point", "claim"} THEN NoOwner ELSE proc[p].owner
             b == runs[proc[p].run].cancel
  <2>1. o \in Nat /\ b \in BOOLEAN
    BY <1>1 DEF NoOwner, ProcType, Documents, RunType
  <2>2. proc' = [proc EXCEPT ![p].pc = "failing", ![p].stopped = b, ![p].owner = o]
    BY <1>5 DEF ExecutionError, Processing
  <2> HIDE DEF o, b
  <2>3. Processing([proc EXCEPT ![p].pc = "failing", ![p].stopped = b, ![p].owner = o])
    BY <1>1, <2>1, OnwardKeeps, ProgramCounters
  <2> QED
    BY <2>2, <2>3
<1>6. CASE RecordOwnFailure(p, st)
  <2> DEFINE pc == SecondWrite(st)
  <2>1. pc \in PC
    BY ProgramCounters
  <2>2. \/ proc' = [proc EXCEPT ![p].pc = pc, ![p].valid = FALSE]
        \/ GoIdle(p)
    BY <1>6 DEF RecordOwnFailure
  <2> HIDE DEF pc
  <2>3. Processing([proc EXCEPT ![p].pc = pc, ![p].valid = FALSE])
    BY <1>1, <1>2, <2>1, OnwardKeeps
  <2> QED
    BY <2>2, <2>3, GoIdleKeeps
<1> QED
  BY <1>3, <1>4, <1>5, <1>6

LEMMA SecondWriteProcesses ==
  ASSUME Processing(proc), NEW p \in Processes,
         PointRuntime(p) \/ Yield(p) \/ Park(p) \/ Clear(p)
  PROVE  Processing(proc')
<1>1. proc[p].pc # "idle"
  BY DEF PointRuntime, Yield, Park, Clear
<1>2. GoIdle(p) \/ \E pc \in PC : Goto(p, pc)
  BY ProgramCounters DEF PointRuntime, Yield, Park, Clear, AfterStatus
<1> QED
  BY <1>1, <1>2, GoIdleKeeps, GotoKeeps

(* The runner waits in a slot of its own for the answer that is lost.      *)
LEMMA LostProcesses ==
  ASSUME Processing(proc), NEW p \in Processes, NEW q \in Processes, LoseResponse(p, q)
  PROVE  Processing(proc')
<1> DEFINE heard == [proc[p] EXCEPT !.pc = "claim"]
           unheard == [proc[p] EXCEPT !.pc = "unheard"]
<1>1. proc[p].pc = "dispatch" /\ p # q
  BY DEF LoseResponse
<1>2. proc[p] \in ProcType /\ proc[p].run \in Runs
  BY <1>1 DEF Processing
<1>3. /\ heard \in ProcType /\ heard.run \in Runs
      /\ unheard \in ProcType /\ unheard.run \in Runs
  BY <1>2, ProgramCounters DEF ProcType
<1>4. proc' = [[proc EXCEPT ![p] = heard] EXCEPT ![q] = unheard]
  BY <1>1 DEF LoseResponse, Processing
<1> HIDE DEF heard, unheard
<1>5. Processing([proc EXCEPT ![p] = heard])
  BY <1>3, PutProc
<1> DEFINE procs == [proc EXCEPT ![p] = heard]
<1> HIDE DEF procs
<1>6. Processing([procs EXCEPT ![q] = unheard])
  BY <1>3, <1>5, PutProc DEF procs
<1> QED
  BY <1>4, <1>6 DEF procs

LEMMA ProcessesKept ==
  ASSUME Processing(proc), Documents(runs), leases \in Nat, [Next]_vars
  PROVE  Processing(proc')
<1>1. CASE UNCHANGED vars
  BY <1>1 DEF vars
<1>2. ASSUME NEW p \in Processes, Request(p) \/ Sweep(p) \/ \E r \in Runs : LeaseNext(p, r)
      PROVE  Processing(proc')
  BY <1>2, RequestProcesses DEF Request, Sweep
<1>3. "failed" \in Terminal \cup Resumable /\ "cancelled" \in Terminal \cup Resumable
  BY DEF Terminal
<1>4. ASSUME NEW p \in Processes, Continue(p)
      PROVE  Processing(proc')
  <2>1. CASE ClaimRun(p) \/ EstablishFence(p) \/ Relinquish(p)
    BY <2>1, ClaimProcesses
  <2>2. CASE \/ Accept(p) \/ RequeueUnheard(p) \/ HandOver(p) \/ Leave(p)
             \/ LeaveFailed(p)
    BY <1>3, <2>2, GotoProcesses
  <2>3. CASE \E st \in Terminal \cup Resumable :
               Finish(p, st) \/ RecordOwnFailure(p, st) \/ RecordLateFailure(p, st)
    BY <2>3, GotoProcesses, ExecuteProcesses
  <2>4. CASE PointRuntime(p) \/ Yield(p) \/ Park(p) \/ Clear(p)
    BY <2>4, SecondWriteProcesses
  <2> QED
    BY <1>4, <2>1, <2>2, <2>3, <2>4 DEF Continue
<1>5. ASSUME NEW p \in Processes, Disturb(p)
      PROVE  Processing(proc')
  <2>1. CASE FenceFails(p) \/ Defer(p) \/ DispatchFails(p) \/ Crash(p)
    BY <1>3, <2>1, GotoProcesses
  <2>2. CASE ExecutionError(p)
    BY <1>3, <2>2, ExecuteProcesses
  <2>3. CASE \E st \in {"failed", "cancelled"} : Reject(p, st)
    BY <1>3, <2>3, GotoProcesses
  <2>4. CASE \E q \in Processes : LoseResponse(p, q)
    BY <2>4, LostProcesses
  <2> QED
    BY <1>5, <2>1, <2>2, <2>3, <2>4 DEF Disturb
<1>6. ASSUME NEW p \in Processes, WriteRuntime(p) \/ Renew(p) \/ ObserveLoss(p)
      PROVE  Processing(proc')
  BY <1>3, <1>6, ExecuteProcesses
<1>7. ASSUME NEW r \in Runs,
             \/ RequeueRecoverable(r) \/ RequestCancellation(r) \/ MarkAbandoned(r)
             \/ LapseLease(r) \/ Elapse(r)
      PROVE  Processing(proc')
  BY <1>7 DEF RequeueRecoverable, RequestCancellation, MarkAbandoned, LapseLease, Elapse
<1>8. ASSUME Next
      PROVE  Processing(proc')
  <2>1. CASE \E p \in Processes :
               \/ Request(p) \/ Sweep(p) \/ Continue(p) \/ Disturb(p)
               \/ \E r \in Runs : LeaseNext(p, r)
               \/ WriteRuntime(p) \/ Renew(p) \/ ObserveLoss(p)
    BY <2>1, <1>2, <1>4, <1>5, <1>6
  <2>2. CASE \E r \in Runs :
               \/ RequeueRecoverable(r) \/ RequestCancellation(r) \/ MarkAbandoned(r)
               \/ LapseLease(r) \/ Elapse(r)
    BY <2>2, <1>7
  <2> QED
    BY <1>8, <2>1, <2>2 DEF Next
<1> QED
  BY <1>1, <1>8

-----------------------------------------------------------------------------
(* The runtime document, the mode and what is counted.                     *)

RuntimeType == [run : 0 .. MaxRuns, owner : Nat, snapshot : Nat]

Rest ==
  /\ background \in BOOLEAN
  /\ runtime \in RuntimeType
  /\ leases \in Nat /\ faults \in Nat /\ stalls \in Nat /\ stale \in Nat

(* A step leaves the runtime alone or writes what a process keeps into it. *)
RuntimeStep ==
  \/ runtime' = runtime
  \/ \E o \in Nat : \/ runtime' = [runtime EXCEPT !.owner = o]
                    \/ runtime' = [runtime EXCEPT !.snapshot = o]
                    \/ \E r \in 0 .. MaxRuns :
                          runtime' = [runtime EXCEPT !.run = r, !.owner = o]

CountStep ==
  /\ background' = background
  /\ leases' \in {leases, leases + 1} \cup {proc[p].owner : p \in Processes}
  /\ faults' \in {faults, faults + 1}
  /\ stalls' \in {stalls, stalls + 1}
  /\ stale' \in {stale, stale + 1}

LEMMA RequestRest ==
  ASSUME NEW p \in Processes, Request(p) \/ Sweep(p) \/ \E r \in Runs : LeaseNext(p, r)
  PROVE  RuntimeStep /\ CountStep
BY DEF Request, Sweep, CreateRun, ResumeRun, CancelInactive, MarkExpired,
       FinalizeCancelled, LeaseNext, RuntimeStep, CountStep

LEMMA ContinueCount ==
  ASSUME NEW p \in Processes, Continue(p)
  PROVE  CountStep
<1>1. CASE ClaimRun(p)
  BY <1>1 DEF ClaimRun, CountStep
<1>2. CASE PointRuntime(p) \/ EstablishFence(p) \/ Relinquish(p) \/ Accept(p)
  BY <1>2 DEF PointRuntime, EstablishFence, Relinquish, Accept, CountStep
<1>3. CASE RequeueUnheard(p)
  BY <1>3 DEF RequeueUnheard, Stall, CountStep
<1>4. CASE HandOver(p) \/ Leave(p) \/ LeaveFailed(p) \/ Yield(p) \/ Park(p) \/ Clear(p)
  BY <1>4 DEF HandOver, Leave, LeaveFailed, Yield, Park, Clear, CountStep
<1>5. ASSUME NEW st, Finish(p, st) \/ RecordOwnFailure(p, st) \/ RecordLateFailure(p, st)
      PROVE  CountStep
  BY <1>5 DEF Finish, RecordOwnFailure, RecordLateFailure, CountStep
<1> QED
  BY <1>1, <1>2, <1>3, <1>4, <1>5 DEF Continue

LEMMA ContinueRuntime ==
  ASSUME Processing(proc), NEW p \in Processes, Continue(p)
  PROVE  RuntimeStep
<1> DEFINE run == proc[p].run
           owner == proc[p].owner
<1>1. run \in 0 .. MaxRuns /\ owner \in Nat
  BY DEF Processing, ProcType
<1>2. NoRun \in 0 .. MaxRuns /\ NoOwner \in Nat
  BY ConstantsAssumption DEF NoRun, NoOwner
<1>3. CASE PointRuntime(p) \/ EstablishFence(p) \/ Yield(p) \/ Park(p) \/ Clear(p)
  <2>1. \/ runtime' = runtime
        \/ runtime' = [runtime EXCEPT !.owner = NoOwner]
        \/ runtime' = [runtime EXCEPT !.run = run, !.owner = NoOwner]
        \/ runtime' = [runtime EXCEPT !.run = run, !.owner = owner]
        \/ runtime' = [runtime EXCEPT !.run = NoRun, !.owner = NoOwner]
    BY <1>3 DEF PointRuntime, EstablishFence, Fenced, Yield, Park, Clear
  <2> HIDE DEF run, owner
  <2> QED
    BY <1>1, <1>2, <2>1 DEF RuntimeStep
<1>4. CASE ClaimRun(p) \/ Relinquish(p) \/ Accept(p) \/ RequeueUnheard(p)
  BY <1>4 DEF ClaimRun, Relinquish, Accept, RequeueUnheard, RuntimeStep
<1>5. CASE HandOver(p) \/ Leave(p) \/ LeaveFailed(p)
  BY <1>5 DEF HandOver, Leave, LeaveFailed, RuntimeStep
<1>6. ASSUME NEW st, Finish(p, st) \/ RecordOwnFailure(p, st) \/ RecordLateFailure(p, st)
      PROVE  RuntimeStep
  BY <1>6 DEF Finish, RecordOwnFailure, RecordLateFailure, RuntimeStep
<1> QED
  BY <1>3, <1>4, <1>5, <1>6 DEF Continue

LEMMA DisturbRest ==
  ASSUME NEW p \in Processes, Disturb(p) \/ Renew(p) \/ ObserveLoss(p)
  PROVE  RuntimeStep /\ CountStep
<1>1. CASE FenceFails(p) \/ Defer(p) \/ DispatchFails(p) \/ ExecutionError(p) \/ Crash(p)
  BY <1>1 DEF FenceFails, Defer, DispatchFails, ExecutionError, Crash, Fault,
              RuntimeStep, CountStep
<1>2. ASSUME NEW st, Reject(p, st)
      PROVE  RuntimeStep /\ CountStep
  BY <1>2 DEF Reject, Fault, RuntimeStep, CountStep
<1>3. ASSUME NEW q \in Processes, LoseResponse(p, q)
      PROVE  RuntimeStep /\ CountStep
  BY <1>3 DEF LoseResponse, Fault, RuntimeStep, CountStep
<1>4. CASE Renew(p) \/ ObserveLoss(p)
  BY <1>4 DEF Renew, ObserveLoss, Fault, RuntimeStep, CountStep
<1> QED
  BY <1>1, <1>2, <1>3, <1>4 DEF Disturb

LEMMA WriteRest ==
  ASSUME Processing(proc), NEW p \in Processes, WriteRuntime(p)
  PROVE  RuntimeStep /\ CountStep
<1>1. proc[p].owner \in Nat
  BY DEF Processing, ProcType
<1> QED
  BY <1>1 DEF WriteRuntime, RuntimeStep, CountStep

LEMMA SingleRest ==
  ASSUME NEW r \in Runs,
         \/ RequeueRecoverable(r) \/ RequestCancellation(r) \/ MarkAbandoned(r)
         \/ LapseLease(r) \/ Elapse(r)
  PROVE  RuntimeStep /\ CountStep
BY DEF RequeueRecoverable, RequestCancellation, MarkAbandoned, LapseLease, Elapse,
       Fault, Stall, RuntimeStep, CountStep

LEMMA RestKept ==
  ASSUME Processing(proc), Rest, [Next]_vars
  PROVE  Rest'
<1>1. RuntimeStep /\ CountStep
  <2>1. CASE UNCHANGED vars
    BY <2>1 DEF vars, RuntimeStep, CountStep
  <2>2. CASE \E p \in Processes :
               \/ Request(p) \/ Sweep(p) \/ Continue(p) \/ Disturb(p)
               \/ \E r \in Runs : LeaseNext(p, r)
               \/ WriteRuntime(p) \/ Renew(p) \/ ObserveLoss(p)
    BY <2>2, RequestRest, ContinueCount, ContinueRuntime, DisturbRest, WriteRest
  <2>3. CASE \E r \in Runs :
               \/ RequeueRecoverable(r) \/ RequestCancellation(r) \/ MarkAbandoned(r)
               \/ LapseLease(r) \/ Elapse(r)
    BY <2>3, SingleRest
  <2> QED
    BY <2>1, <2>2, <2>3 DEF Next
<1>2. runtime' \in RuntimeType
  BY <1>1 DEF Rest, RuntimeStep, RuntimeType
<1>3. leases' \in Nat
  BY <1>1 DEF Rest, CountStep, Processing, ProcType
<1>4. faults' \in Nat /\ stalls' \in Nat /\ stale' \in Nat /\ background' \in BOOLEAN
  BY <1>1 DEF Rest, CountStep
<1> QED
  BY <1>2, <1>3, <1>4 DEF Rest

-----------------------------------------------------------------------------
(* The inductive invariant.                                                *)

LEMMA Parts == TypeOK /\ Busy <=> Rest /\ Documents(runs) /\ Processing(proc)
BY DEF TypeOK, Busy, Rest, RuntimeType, Documents, Shape, Unleased, Processing

LEMMA Initially ==
  ASSUME Init
  PROVE  IInv
<1>1. NoRecord \in RunType /\ Shape(NoRecord) /\ ~NoRecord.key /\ NoRecord.status = "none"
  BY StatusFacts DEF NoRecord, RunType, Shape, NoOwner
<1>2. Documents(runs)
  BY <1>1 DEF Init, Documents
<1>3. Processing(proc)
  BY IdleIsProc DEF Init, Processing
<1>4. Rest
  BY ConstantsAssumption DEF Init, Rest, RuntimeType, NoRun, NoOwner
<1>5. OneKey /\ ActiveHoldsKey
  BY <1>1 DEF Init, OneKey, ActiveHoldsKey, Active
<1> QED
  BY <1>2, <1>3, <1>4, <1>5, Parts DEF IInv

LEMMA CreationIsAlone ==
  ASSUME Documents(runs), NEW r \in Runs, Creation(r)
  PROVE  /\ \A s \in Runs : runs'[s].key => s = r
         /\ \A s \in Runs : Active(s)' => Active(s) \/ s = r
         /\ runs'[r].key
BY DEF Creation, Created, NoActiveRun, Documents, RunType, Active

LEMMA LateWriteKeepsKeys ==
  ASSUME Documents(runs), NEW r \in Runs, NEW st, runs' = Settled(r, st)
  PROVE  \A s \in Runs : runs'[s].key => runs[s].key
BY DEF Settled, Documents, RunType

LEMMA KeyKept ==
  ASSUME IInv, DocumentStep
  PROVE  OneKey' /\ ActiveHoldsKey'
<1>1. Documents(runs) /\ stale \in Nat /\ OneKey /\ ActiveHoldsKey
  BY Parts DEF IInv, Rest
<1>2. CASE UNCHANGED <<runs, stale>>
  BY <1>1, <1>2 DEF OneKey, ActiveHoldsKey, Active
<1>3. ASSUME NEW r \in Runs, LateWrite(r)
      PROVE  OneKey' /\ ActiveHoldsKey'
  <2>1. stale' # 0
    BY <1>1, <1>3 DEF LateWrite
  <2>2. \A s \in Runs : runs'[s].key => runs[s].key
    BY <1>1, <1>3, LateWriteKeepsKeys DEF LateWrite
  <2> QED
    BY <1>1, <2>1, <2>2 DEF OneKey, ActiveHoldsKey
<1>4. ASSUME stale' = stale, NEW r \in Runs, Update(r)
      PROVE  OneKey' /\ ActiveHoldsKey'
  <2>1. KeysKept
    BY <1>1, <1>4, UpdateKeepsKeys
  <2> QED
    BY <1>1, <1>4, <2>1 DEF KeysKept, OneKey, ActiveHoldsKey
<1>5. ASSUME stale' = stale, NEW r \in Runs, Creation(r)
      PROVE  OneKey' /\ ActiveHoldsKey'
  <2>1. /\ \A s \in Runs : runs'[s].key => s = r
        /\ \A s \in Runs : Active(s)' => Active(s) \/ s = r
        /\ runs'[r].key
    BY <1>1, <1>5, CreationIsAlone
  <2>2. stale = 0 => \A s \in Runs : ~Active(s)
    BY <1>1, <1>5 DEF ActiveHoldsKey, Creation, NoActiveRun
  <2> QED
    BY <1>5, <2>1, <2>2 DEF OneKey, ActiveHoldsKey
<1> QED
  BY <1>2, <1>3, <1>4, <1>5 DEF DocumentStep

LEMMA Inductive ==
  ASSUME IInv, [Next]_vars
  PROVE  IInv'
<1>1. TypeOK /\ Busy /\ Rest /\ Documents(runs) /\ Processing(proc) /\ leases \in Nat
  BY Parts DEF IInv, Rest
<1>2. DocumentStep
  BY <1>1, EveryStep
<1>3. Documents(runs)'
  BY <1>1, <1>2, DocumentsKept
<1>4. Processing(proc')
  BY <1>1, ProcessesKept
<1>5. Rest'
  BY <1>1, RestKept
<1>6. TypeOK' /\ Busy'
  BY <1>3, <1>4, <1>5
     DEF TypeOK, Busy, Rest, RuntimeType, Documents, Shape, Unleased, Processing
<1>7. OneKey' /\ ActiveHoldsKey'
  BY <1>2, KeyKept
<1> QED
  BY <1>6, <1>7 DEF IInv

(* The documents, the processes and active_key keep the shape that the     *)
(* filters of repository.ts rely on, in every reachable state.             *)
THEOREM Invariance == Spec => []IInv
<1>1. Init => IInv
  BY Initially
<1>2. IInv /\ [Next]_vars => IInv'
  BY Inductive
<1> QED
  BY <1>1, <1>2, PTL DEF Spec

(* A run has a lease owner exactly while it is running, whatever mix of    *)
(* requests, claims, sweeps and faults wrote its document.                 *)
THEOREM TypeCorrect == Spec => []TypeOK
<1>1. IInv => TypeOK
  BY DEF IInv
<1> QED
  BY <1>1, Invariance, PTL

(* The unique index of createAgentRun admits one run that is not over to a *)
(* conversation, for any number of runs, processes, leases and faults, as  *)
(* long as no status was written under onlyIfUnleased.                     *)
THEOREM OneActiveRunAtATime == Spec => []OneActiveRun
<1>1. IInv => OneActiveRun
  BY DEF IInv, OneKey, ActiveHoldsKey, OneActiveRun
<1> QED
  BY <1>1, Invariance, PTL

-----------------------------------------------------------------------------
(* The fence of the runtime.                                               *)
(*                                                                         *)
(* A process takes a lease in its claim and writes the fence after it.     *)
(* Where no claim outlives its lease between the two (MaxStalls = 0), the  *)
(* fence names the execution that holds the lease, or nobody.              *)

AtFence(p) == proc[p].pc \in {"fence", "refence"}

(* who may still act under its owner id, which no two processes share: an  *)
(* unheard runner and a sweep that yields only remember one                *)
Carries(p) == proc[p].owner # NoOwner /\ proc[p].pc \notin {"idle", "unheard", "yield"}

OwnersApart ==
  \A p, q \in Processes :
    Carries(p) /\ Carries(q) /\ proc[p].owner = proc[q].owner => p = q

OwnersMade ==
  /\ \A p \in Processes : proc[p].owner <= leases
  /\ \A r \in Runs : runs[r].lease <= leases

ClaimsStand ==
  \A p \in Processes : AtFence(p) => Owns(p) /\ runs[proc[p].run].live

ExecutesOwned == \A p \in Processes : proc[p].pc = "execute" => proc[p].owner # NoOwner

FenceOfHolder ==
  stale = 0 => \A q \in Processes : Executing(q) => runtime.owner \in {NoOwner, proc[q].owner}

FInv == IInv /\ OwnersApart /\ OwnersMade /\ ClaimsStand /\ ExecutesOwned /\ FenceOfHolder

(* What a step that takes no lease does to a process, ...                  *)
Follows(q) ==
  \/ proc'[q] = proc[q]
  \/ proc'[q].owner = NoOwner /\ proc'[q].pc \notin {"fence", "refence", "execute"}
  \/ proc'[q].pc \in {"unheard", "yield"} /\ proc'[q].owner <= leases
  \/ /\ proc'[q].owner = proc[q].owner /\ proc'[q].run = proc[q].run
     /\ proc[q].pc \notin {"idle", "unheard", "yield"}
     /\ proc'[q].pc \notin {"fence", "refence"}
     /\ proc'[q].pc = "execute" => \/ proc[q].pc = "execute"
                                   \/ AtFence(q) /\ runtime'.owner = proc[q].owner

(* ... to the lease of a run, ...                                          *)
Kept(r) ==
  /\ runs'[r].status = runs[r].status /\ runs'[r].lease = runs[r].lease
  /\ runs[r].live => runs'[r].live

Unclaimed(r) == \A q \in Processes : AtFence(q) /\ proc[q].run = r => ~(Owns(q) /\ runs[r].live)

LeaseGoes(r) ==
  \/ Kept(r)
  \/ /\ Unclaimed(r)
     /\ runs'[r].lease = NoOwner \/ runs'[r].lease = runs[r].lease

(* ... and to the fence.                                                   *)
FenceMoves ==
  \/ runtime'.owner \in {runtime.owner, NoOwner}
  \/ \E p \in Processes : AtFence(p) /\ runtime'.owner = proc[p].owner

Quiet ==
  /\ leases' = leases /\ FenceMoves
  /\ \A q \in Processes : Follows(q)
  /\ \A r \in Runs : LeaseGoes(r)

(* Process p takes the lease of run r as owner o.                          *)
Takes(p, r, o) ==
  /\ proc' = [proc EXCEPT ![p] = proc'[p]]
  /\ proc'[p].pc \in {"fence", "refence"} /\ proc'[p].run = r /\ proc'[p].owner = o
  /\ runs'[r].status = "running" /\ runs'[r].lease = o /\ runs'[r].live
  /\ \A s \in Runs \ {r} : runs'[s] = runs[s]
  /\ LeaseFree(r) \/ runs[r].lease = o
  /\ runtime' = runtime
  /\ \/ o = leases + 1 /\ leases' = o
     \/ o # NoOwner /\ proc[p].owner = o /\ proc[p].pc = "claim" /\ leases' = leases

LEMMA QuietKeeps ==
  ASSUME FInv, IInv', stale' = 0 => stale = 0, Quiet
  PROVE  FInv'
<1>1. /\ proc \in [Processes -> ProcType] /\ runs \in [Runs -> RunType] /\ leases \in Nat
      /\ proc' \in [Processes -> ProcType] /\ runs' \in [Runs -> RunType] /\ leases' = leases
      /\ \A r \in Runs : /\ runs[r].status = "running" <=> runs[r].lease # NoOwner
                         /\ runs'[r].status = "running" <=> runs'[r].lease # NoOwner
  BY DEF FInv, IInv, TypeOK, Unleased, Quiet
<1>2. \A p \in Processes : AtFence(p)' => AtFence(p) /\ proc'[p] = proc[p]
  BY DEF Quiet, Follows, AtFence
<1>3. \A p \in Processes : Carries(p)' => Carries(p) /\ proc'[p].owner = proc[p].owner
  BY DEF Quiet, Follows, Carries
<1>4. OwnersApart'
  BY <1>3 DEF FInv, OwnersApart
<1>5. OwnersMade'
  <2>1. \A p \in Processes : proc'[p].owner <= leases
    BY <1>1 DEF FInv, OwnersMade, Quiet, Follows, NoOwner, ProcType
  <2>2. \A r \in Runs : runs'[r].lease <= leases
    BY <1>1 DEF FInv, OwnersMade, Quiet, LeaseGoes, Kept, NoOwner, RunType
  <2> QED
    BY <1>1, <2>1, <2>2 DEF OwnersMade
<1>6. ClaimsStand'
  <2> SUFFICES ASSUME NEW p \in Processes, AtFence(p)'
               PROVE  (Owns(p) /\ runs[proc[p].run].live)'
    BY DEF ClaimsStand
  <2>1. AtFence(p) /\ proc'[p] = proc[p]
    BY <1>2
  <2> DEFINE r == proc[p].run
  <2>2. Owns(p) /\ runs[r].live /\ r \in Runs
    BY <2>1 DEF FInv, IInv, ClaimsStand, Busy, AtFence
  <2>3. Kept(r)
    BY <2>1, <2>2 DEF Quiet, LeaseGoes, Unclaimed
  <2> QED
    BY <2>1, <2>2, <2>3 DEF Owns, Kept
<1>7. ExecutesOwned'
  <2> SUFFICES ASSUME NEW p \in Processes, proc'[p].pc = "execute"
               PROVE  proc'[p].owner # NoOwner
    BY DEF ExecutesOwned
  <2>1. CASE proc[p].pc = "execute" /\ proc'[p].owner = proc[p].owner
    BY <2>1 DEF FInv, ExecutesOwned
  <2>2. CASE AtFence(p) /\ proc'[p].owner = proc[p].owner
    <3>1. Owns(p) /\ proc[p].run \in Runs
      BY <2>2 DEF FInv, IInv, ClaimsStand, Busy, AtFence
    <3> QED
      BY <1>1, <2>2, <3>1 DEF Owns
  <2> QED
    BY <2>1, <2>2 DEF Quiet, Follows
<1>8. FenceOfHolder'
  <2> SUFFICES ASSUME stale' = 0, NEW q \in Processes, Executing(q)'
               PROVE  runtime'.owner \in {NoOwner, proc'[q].owner}
    BY DEF FenceOfHolder
  <2>1. CASE AtFence(q) /\ runtime'.owner = proc[q].owner /\ proc'[q].owner = proc[q].owner
    BY <2>1
  <2>2. CASE /\ proc[q].pc = "execute"
             /\ proc'[q].owner = proc[q].owner /\ proc'[q].run = proc[q].run
    <3> DEFINE r == proc[q].run
    <3>1. r \in Runs /\ proc[q].owner # NoOwner
      BY <2>2 DEF FInv, IInv, Busy, ExecutesOwned
    <3>2. runs'[r].lease = proc[q].owner
      BY <2>2 DEF Executing, Owns
    <3>3. runs[r].lease = proc[q].owner
      BY <3>1, <3>2 DEF Quiet, LeaseGoes, Kept
    <3>4. Executing(q)
      BY <1>1, <2>2, <3>1, <3>3 DEF Executing, Owns
    <3>5. runtime.owner \in {NoOwner, proc[q].owner}
      BY <3>4 DEF FInv, FenceOfHolder
    <3>6. ASSUME NEW p \in Processes, AtFence(p)
          PROVE  proc[p].owner = proc[q].owner
      <4>1. Owns(p) /\ proc[p].run \in Runs
        BY <3>6 DEF FInv, IInv, ClaimsStand, Busy, AtFence
      <4>2. proc[p].run = r
        BY <3>1, <3>4, <4>1 DEF FInv, IInv, OneKey, ActiveHoldsKey, Active, Owns, Executing, Terminal
      <4> QED
        BY <3>4, <4>1, <4>2 DEF Owns, Executing
    <3> QED
      BY <2>2, <3>5, <3>6 DEF Quiet, FenceMoves
  <2> QED
    BY <2>1, <2>2 DEF Quiet, Follows, Executing
<1> QED
  BY <1>4, <1>5, <1>6, <1>7, <1>8 DEF FInv

LEMMA TakesKeeps ==
  ASSUME FInv, IInv', stale' = 0 => stale = 0,
         NEW p \in Processes, NEW r \in Runs, NEW o, Takes(p, r, o)
  PROVE  FInv'
<1>1. /\ proc \in [Processes -> ProcType] /\ runs \in [Runs -> RunType] /\ leases \in Nat
      /\ proc' \in [Processes -> ProcType] /\ runs' \in [Runs -> RunType] /\ leases' \in Nat
      /\ \A s \in Runs : /\ runs[s].status = "running" <=> runs[s].lease # NoOwner
                         /\ runs'[s].status = "running" <=> runs'[s].lease # NoOwner
  BY DEF FInv, IInv, TypeOK, Unleased
<1>2. \A q \in Processes \ {p} : proc'[q] = proc[q]
  BY <1>1 DEF Takes
<1>3. o \in Nat /\ o <= leases' /\ leases <= leases' /\ o # NoOwner
  BY <1>1 DEF FInv, OwnersMade, Takes, NoOwner, ProcType
<1>4. \A q \in Processes \ {p} : Carries(q) => proc[q].owner # o
  <2>1. CASE o = leases + 1
    BY <1>1, <2>1 DEF FInv, OwnersMade, ProcType
  <2>2. CASE o # NoOwner /\ proc[p].owner = o /\ proc[p].pc = "claim"
    <3>1. Carries(p)
      BY <2>2 DEF Carries
    <3> QED
      BY <2>2, <3>1 DEF FInv, OwnersApart
  <2> QED
    BY <2>1, <2>2 DEF Takes
<1>5. OwnersApart'
  <2>1. \A q \in Processes \ {p} : Carries(q)' => Carries(q) /\ proc'[q].owner = proc[q].owner
    BY <1>2 DEF Carries
  <2> QED
    BY <1>4, <2>1 DEF FInv, OwnersApart, Takes
<1>6. OwnersMade'
  <2>1. \A q \in Processes : proc'[q].owner <= leases'
    BY <1>1, <1>2, <1>3 DEF FInv, OwnersMade, Takes, ProcType
  <2>2. \A s \in Runs : runs'[s].lease <= leases'
    BY <1>1, <1>3 DEF FInv, OwnersMade, Takes, RunType
  <2> QED
    BY <2>1, <2>2 DEF OwnersMade
<1>7. \A q \in Processes \ {p} : AtFence(q) => proc[q].run # r
  <2> SUFFICES ASSUME NEW q \in Processes \ {p}, AtFence(q), proc[q].run = r PROVE FALSE
    OBVIOUS
  <2>1. Owns(q) /\ runs[r].live
    BY DEF FInv, ClaimsStand
  <2>2. runs[r].lease = proc[q].owner /\ proc[q].owner # NoOwner
    BY <1>1, <2>1 DEF Owns
  <2>3. Carries(q)
    BY <2>2 DEF Carries, AtFence
  <2> QED
    BY <1>4, <2>1, <2>2, <2>3 DEF Takes, LeaseFree, Unleased
<1>8. ClaimsStand'
  <2> SUFFICES ASSUME NEW q \in Processes, AtFence(q)'
               PROVE  (Owns(q) /\ runs[proc[q].run].live)'
    BY DEF ClaimsStand
  <2>1. CASE q = p
    BY <2>1 DEF Takes, Owns
  <2>2. CASE q # p
    <3>1. AtFence(q) /\ proc'[q] = proc[q]
      BY <1>2, <2>2 DEF AtFence
    <3>2. Owns(q) /\ runs[proc[q].run].live /\ proc[q].run \in Runs
      BY <3>1 DEF FInv, IInv, ClaimsStand, Busy, AtFence
    <3>3. runs'[proc[q].run] = runs[proc[q].run]
      BY <1>7, <2>2, <3>1, <3>2 DEF Takes
    <3> QED
      BY <3>1, <3>2, <3>3 DEF Owns
  <2> QED
    BY <2>1, <2>2
<1>9. ExecutesOwned'
  BY <1>2 DEF FInv, ExecutesOwned, Takes
<1>10. FenceOfHolder'
  <2> SUFFICES ASSUME stale' = 0, NEW q \in Processes, Executing(q)'
               PROVE  runtime'.owner \in {NoOwner, proc'[q].owner}
    BY DEF FenceOfHolder
  <2>1. q # p
    BY DEF Takes, Executing
  <2>2. proc'[q] = proc[q] /\ proc[q].pc = "execute" /\ proc[q].run \in Runs
        /\ proc[q].owner # NoOwner
    BY <1>2, <2>1 DEF Executing, FInv, IInv, Busy, ExecutesOwned
  <2>3. Carries(q)
    BY <2>2 DEF Carries
  <2>4. proc[q].run # r
    BY <1>4, <2>1, <2>2, <2>3 DEF Takes, Executing, Owns
  <2>5. Executing(q)
    BY <2>2, <2>4 DEF Takes, Executing, Owns
  <2> QED
    BY <2>2, <2>5 DEF FInv, FenceOfHolder, Takes
<1> QED
  BY <1>5, <1>6, <1>8, <1>9, <1>10 DEF FInv

(* The processes.                                                          *)
LEMMA IdleFollows ==
  ASSUME FInv, NEW p \in Processes, GoIdle(p)
  PROVE  \A q \in Processes : Follows(q)
BY DEF FInv, IInv, TypeOK, GoIdle, Idle, Follows

LEMMA GotoFollows ==
  ASSUME FInv, NEW p \in Processes, NEW pc \in PC \ {"fence", "refence", "execute"},
         proc[p].pc \notin {"idle", "unheard", "yield"} \/ pc = "yield", Goto(p, pc)
  PROVE  \A q \in Processes : Follows(q)
<1>1. proc[p] \in ProcType /\ proc[p].owner <= leases
  BY DEF FInv, IInv, TypeOK, OwnersMade
<1>2. \A q \in Processes \ {p} : proc'[q] = proc[q]
  BY DEF FInv, IInv, TypeOK, Goto
<1>3. proc'[p].pc = pc /\ proc'[p].owner = proc[p].owner /\ proc'[p].run = proc[p].run
  BY <1>1 DEF FInv, IInv, TypeOK, Goto, ProcType
<1> QED
  BY <1>1, <1>2, <1>3 DEF Follows

LEMMA BeginFollows ==
  ASSUME FInv, NEW p \in Processes, NEW pc \in PC, NEW r \in Runs, NEW o \in Nat,
         \/ pc \notin {"fence", "refence", "execute"} /\ o = NoOwner
         \/ pc = "yield" /\ o <= leases,
         Begin(p, pc, r, o)
  PROVE  \A q \in Processes : Follows(q)
<1>1. \A q \in Processes \ {p} : proc'[q] = proc[q]
  BY DEF FInv, IInv, TypeOK, Begin
<1>2. proc'[p].pc = pc /\ proc'[p].owner = o
  BY DEF FInv, IInv, TypeOK, Begin, Idle
<1> QED
  BY <1>1, <1>2 DEF Follows

LEMMA CatchFollows ==
  ASSUME FInv, NEW p \in Processes, proc[p].pc \in {"claim", "surrender"}, Catch(p)
  PROVE  \A q \in Processes : Follows(q)
<1>1. proc[p] \in ProcType
  BY DEF FInv, IInv, TypeOK
<1>2. \A q \in Processes \ {p} : proc'[q] = proc[q]
  BY DEF FInv, IInv, TypeOK, Catch
<1>3. /\ proc'[p].pc = "refused"
      /\ proc'[p].owner = proc[p].owner /\ proc'[p].run = proc[p].run
  BY <1>1 DEF FInv, IInv, TypeOK, Catch, ProcType
<1> QED
  BY <1>2, <1>3 DEF Follows

LEMMA StayFollows ==
  ASSUME proc' = proc
  PROVE  \A q \in Processes : Follows(q)
BY DEF Follows

(* The leases.                                                             *)
LEMMA StayGoes ==
  ASSUME runs' = runs
  PROVE  \A r \in Runs : LeaseGoes(r)
BY DEF LeaseGoes, Kept

GivesUp(r) ==
  \/ \E st : runs' = Settled(r, st)
  \/ runs' \in {Queued(r), Deferred(r), Redispatched(r)}

LEMMA UnclaimedGoes ==
  ASSUME FInv, NEW r \in Runs, GivesUp(r), Unclaimed(r)
  PROVE  \A s \in Runs : LeaseGoes(s)
<1>1. runs \in [Runs -> RunType]
  BY DEF FInv, IInv, TypeOK
<1>2. \A s \in Runs \ {r} : runs'[s] = runs[s]
  BY <1>1 DEF GivesUp, Settled, Queued, Deferred, Redispatched
<1>3. runs'[r].lease = NoOwner
  <2>1. ASSUME NEW st PROVE Settled(r, st)[r].lease = NoOwner
    BY <1>1 DEF Settled, RunType
  <2>2. Queued(r)[r].lease = NoOwner
    BY <1>1 DEF Queued, RunType
  <2>3. Deferred(r)[r].lease = NoOwner
    BY <1>1 DEF Deferred, RunType
  <2>4. Documents(runs)
    BY Parts DEF FInv, IInv
  <2> DEFINE S == Settled(r, "recoverable")
             D == Deferred(r)
             n == runs[r].tries + 1
  <2>5. Redispatched(r) = IF n >= MaxDispatch THEN [S EXCEPT ![r].tries = n, ![r].late = FALSE]
                                              ELSE [D EXCEPT ![r].tries = n]
    BY DEF Redispatched
  <2>6. /\ S \in [Runs -> RunType] /\ S[r].lease = NoOwner
        /\ D \in [Runs -> RunType] /\ D[r].lease = NoOwner
    BY <2>1, <2>3, <2>4, StatusFacts, SettledIsDocument, DeferredIsDocument DEF Documents
  <2> HIDE DEF S, D, n
  <2>7. Redispatched(r)[r].lease = NoOwner
    BY <2>5, <2>6 DEF RunType
  <2> QED
    BY <2>1, <2>2, <2>3, <2>7 DEF GivesUp
<1> QED
  BY <1>2, <1>3 DEF LeaseGoes, Kept

LEMMA NobodyClaims ==
  ASSUME FInv, NEW r \in Runs,
         \/ ~runs[r].live
         \/ runs[r].status # "running"
         \/ Unleased(r)
         \/ \E p \in Processes : proc[p].run = r /\ Owns(p) /\ Carries(p) /\ ~AtFence(p)
  PROVE  Unclaimed(r)
<1>1. /\ runs \in [Runs -> RunType]
      /\ \A s \in Runs : runs[s].status = "running" <=> runs[s].lease # NoOwner
  BY DEF FInv, IInv, TypeOK, Unleased
<1> SUFFICES ASSUME NEW q \in Processes, AtFence(q), proc[q].run = r, Owns(q), runs[r].live
             PROVE  FALSE
  BY DEF Unclaimed
<1>2. runs[r].status = "running" /\ runs[r].lease = proc[q].owner /\ proc[q].owner # NoOwner
  BY <1>1 DEF Owns
<1>3. Carries(q)
  BY <1>2 DEF Carries, AtFence
<1> QED
  BY <1>2, <1>3 DEF FInv, OwnersApart, Unleased, Owns

LEMMA OwnerCarries ==
  ASSUME FInv, NEW p \in Processes, Owns(p), proc[p].run \in Runs,
         proc[p].pc \notin {"idle", "unheard", "yield"}
  PROVE  Carries(p)
BY DEF FInv, IInv, TypeOK, Unleased, Owns, Carries

(* A writer that has the lease gives it up for nobody else.                *)
LEMMA OwnerGoes ==
  ASSUME FInv, NEW p \in Processes, Owns(p), GivesUp(proc[p].run), ~AtFence(p),
         proc[p].pc \notin {"idle", "unheard", "yield"}
  PROVE  \A s \in Runs : LeaseGoes(s)
<1>1. proc[p].run \in Runs
  BY DEF FInv, IInv, Busy
<1>2. Unclaimed(proc[p].run)
  BY <1>1, OwnerCarries, NobodyClaims
<1> QED
  BY <1>1, <1>2, UnclaimedGoes

LEMMA MarkGoes ==
  ASSUME FInv, NEW r \in Runs, NEW b \in BOOLEAN,
         \/ runs' = [runs EXCEPT ![r].late = b]
         \/ runs' = [runs EXCEPT ![r].cancel = b]
         \/ runs' = [runs EXCEPT ![r].live = TRUE]
         \/ runs' = [runs EXCEPT ![r].live = FALSE] /\ Unclaimed(r)
  PROVE  \A s \in Runs : LeaseGoes(s)
<1>1. runs \in [Runs -> RunType]
  BY DEF FInv, IInv, TypeOK
<1>2. \A s \in Runs \ {r} : Kept(s)
  BY <1>1 DEF Kept
<1>3. LeaseGoes(r)
  BY <1>1 DEF LeaseGoes, Kept, RunType
<1> QED
  BY <1>2, <1>3 DEF LeaseGoes

(* The actions: requests and sweeps, ...                                   *)
LEMMA RequestIsQuiet ==
  ASSUME FInv, NEW p \in Processes, NEW r \in Runs,
         \/ CreateRun(p, r) \/ ResumeRun(p, r) \/ CancelInactive(p, r)
         \/ MarkExpired(p, r) \/ FinalizeCancelled(p, r)
  PROVE  Quiet
<1>1. /\ runs \in [Runs -> RunType] /\ NoOwner \in Nat /\ runs[r].lease \in Nat
      /\ runs[r].lease <= leases
  BY DEF FInv, IInv, TypeOK, OwnersMade, RunType, NoOwner
<1>2. leases' = leases /\ FenceMoves
  BY DEF CreateRun, ResumeRun, CancelInactive, MarkExpired, FinalizeCancelled, FenceMoves
<1>3. \A q \in Processes : Follows(q)
  <2>1. ASSUME NEW pc \in {"point", "claim", "clear"}, Begin(p, pc, r, NoOwner)
        PROVE  \A q \in Processes : Follows(q)
    <3>1. pc \in PC /\ pc \notin {"fence", "refence", "execute"}
      BY ProgramCounters
    <3> QED
      BY <1>1, <2>1, <3>1, BeginFollows
  <2>2. ASSUME Begin(p, "yield", r, runs[r].lease)
        PROVE  \A q \in Processes : Follows(q)
    <3>1. "yield" \in PC
      BY ProgramCounters
    <3> QED
      BY <1>1, <2>2, <3>1, BeginFollows
  <2> QED
    BY <2>1, <2>2 DEF CreateRun, ResumeRun, CancelInactive, MarkExpired, FinalizeCancelled
<1>4. \A s \in Runs : LeaseGoes(s)
  <2>1. CASE CreateRun(p, r)
    <3>1. Unclaimed(r)
      BY <2>1, NobodyClaims DEF CreateRun
    <3>2. \A s \in Runs : runs'[s].lease = runs[s].lease /\ (s # r => runs'[s] = runs[s])
      BY <1>1, <2>1 DEF CreateRun, RunType
    <3> QED
      BY <3>1, <3>2 DEF LeaseGoes, Kept
  <2>2. CASE ResumeRun(p, r) \/ CancelInactive(p, r) \/ MarkExpired(p, r) \/ FinalizeCancelled(p, r)
    <3>1. GivesUp(r)
      BY <2>2 DEF ResumeRun, CancelInactive, MarkExpired, FinalizeCancelled, GivesUp
    <3>2. runs[r].status # "running" \/ ~runs[r].live
      BY <2>2, StatusFacts DEF ResumeRun, CancelInactive, MarkExpired, FinalizeCancelled,
                                Expired, Orphaned
    <3> QED
      BY <3>1, <3>2, NobodyClaims, UnclaimedGoes
  <2> QED
    BY <2>1, <2>2
<1> QED
  BY <1>2, <1>3, <1>4 DEF Quiet

(* A lease that lapses in a claim would be a stall.                        *)
LEMMA NoStall ==
  ASSUME MaxStalls = 0, FInv, NEW r \in Runs, Stall(r, TRUE)
  PROVE  Unclaimed(r)
BY DEF FInv, IInv, TypeOK, Stall, Unclaimed, AtFence

LEMMA SingleIsQuiet ==
  ASSUME MaxStalls = 0, FInv, NEW r \in Runs,
         \/ RequeueRecoverable(r) \/ RequestCancellation(r) \/ MarkAbandoned(r)
         \/ LapseLease(r) \/ Elapse(r)
  PROVE  Quiet
<1>1. leases' = leases /\ FenceMoves /\ proc' = proc
  BY DEF RequeueRecoverable, RequestCancellation, MarkAbandoned, LapseLease, Elapse, FenceMoves
<1>2. \A s \in Runs : LeaseGoes(s)
  <2>1. CASE RequeueRecoverable(r) \/ MarkAbandoned(r)
    <3>1. GivesUp(r) /\ runs[r].status # "running"
      BY <2>1 DEF RequeueRecoverable, CanRequeue, MarkAbandoned, GivesUp
    <3> QED
      BY <3>1, NobodyClaims, UnclaimedGoes
  <2>2. CASE RequestCancellation(r) \/ Elapse(r)
    BY <2>2, MarkGoes DEF RequestCancellation, Elapse
  <2>3. CASE LapseLease(r)
    BY <2>3, NoStall, MarkGoes DEF LapseLease
  <2> QED
    BY <2>1, <2>2, <2>3
<1> QED
  BY <1>1, <1>2, StayFollows DEF Quiet

(* ... claims, ...                                                         *)
LEMMA LeaseNextTakes ==
  ASSUME FInv, NEW p \in Processes, NEW r \in Runs, LeaseNext(p, r)
  PROVE  Takes(p, r, leases + 1)
<1>1. runs \in [Runs -> RunType] /\ proc \in [Processes -> ProcType]
  BY DEF FInv, IInv, TypeOK
<1>2. /\ runs'[r].status = "running" /\ runs'[r].lease = leases + 1 /\ runs'[r].live
      /\ \A s \in Runs \ {r} : runs'[s] = runs[s]
  BY <1>1 DEF LeaseNext, Leased, RunType
<1>3. /\ proc' = [proc EXCEPT ![p] = proc'[p]]
      /\ proc'[p].pc = "fence" /\ proc'[p].run = r /\ proc'[p].owner = leases + 1
  BY <1>1 DEF LeaseNext, Begin, Idle
<1>4. /\ runtime' = runtime /\ leases' = leases + 1 /\ LeaseFree(r)
  BY DEF LeaseNext, Leasable
<1> QED
  BY <1>2, <1>3, <1>4 DEF Takes

LEMMA ClaimTakesOrNot ==
  ASSUME FInv, NEW p \in Processes, ClaimRun(p)
  PROVE  Quiet \/ \E r \in Runs, o \in Nat : Takes(p, r, o)
<1> DEFINE r == proc[p].run
           o == IF proc[p].owner = NoOwner THEN leases + 1 ELSE proc[p].owner
<1>1. /\ runs \in [Runs -> RunType] /\ proc \in [Processes -> ProcType] /\ leases \in Nat
      /\ r \in Runs /\ proc[p] \in ProcType
  BY DEF FInv, IInv, TypeOK, Busy, ClaimRun
<1>2. o \in Nat /\ o # NoOwner
  BY <1>1 DEF ProcType, NoOwner
<1>3. CASE Claimable(r, o)
  <2>1. /\ leases' = IF proc[p].owner = NoOwner THEN o ELSE leases
        /\ runs' = Leased(r, o) /\ proc[p].pc = "claim"
        /\ proc' = [proc EXCEPT ![p].pc = "refence", ![p].owner = o]
        /\ runtime' = runtime
    BY <1>3 DEF ClaimRun
  <2>2. LeaseFree(r) \/ runs[r].lease = o
    BY <1>3 DEF Claimable
  <2>3. \/ o = leases + 1 /\ leases' = o
        \/ proc[p].owner = o /\ leases' = leases
    BY <2>1
  <2> HIDE DEF r, o
  <2>4. /\ runs'[r].status = "running" /\ runs'[r].lease = o /\ runs'[r].live
        /\ \A s \in Runs \ {r} : runs'[s] = runs[s]
    BY <1>1, <2>1 DEF Leased, RunType
  <2>5. /\ proc' = [proc EXCEPT ![p] = proc'[p]]
        /\ proc'[p].pc = "refence" /\ proc'[p].run = proc[p].run /\ proc'[p].owner = o
    BY <1>1, <2>1 DEF ProcType
  <2>6. proc'[p].run = r
    BY <2>5 DEF r
  <2>7. Takes(p, r, o)
    BY <1>2, <2>1, <2>2, <2>3, <2>4, <2>5, <2>6 DEF Takes
  <2> QED
    BY <1>1, <1>2, <2>7
<1>4. CASE ~Claimable(r, o)
  <2>1. Catch(p) /\ runs' = runs /\ leases' = leases /\ runtime' = runtime /\ proc[p].pc = "claim"
    BY <1>4 DEF ClaimRun
  <2> QED
    BY <2>1, CatchFollows, StayGoes DEF Quiet, FenceMoves
<1> QED
  BY <1>3, <1>4

(* ... writes under the lease, ...                                         *)
LEMMA OwnedIsQuiet ==
  ASSUME MaxStalls = 0, FInv, NEW p \in Processes, NEW st \in Terminal \cup Resumable,
         \/ Relinquish(p) \/ Defer(p) \/ DispatchFails(p) \/ RequeueUnheard(p)
         \/ Renew(p) \/ Finish(p, st) \/ RecordOwnFailure(p, st) \/ Reject(p, st)
  PROVE  Quiet
<1> DEFINE r == proc[p].run
<1>1. /\ proc[p].pc # "idle" /\ r \in Runs
      /\ proc[p] \in ProcType /\ proc \in [Processes -> ProcType]
  BY DEF FInv, IInv, TypeOK, Busy, Relinquish, Defer, DispatchFails, RequeueUnheard, Renew,
         Beating, Finish, RecordOwnFailure, Reject
<1>2. leases' = leases /\ FenceMoves
  BY DEF Relinquish, Defer, DispatchFails, RequeueUnheard, Renew, Finish, RecordOwnFailure,
         Reject, FenceMoves
<1>3. \A q \in Processes : Follows(q)
  <2>1. CASE Relinquish(p)
    BY <2>1, IdleFollows, CatchFollows DEF Relinquish
  <2>2. CASE Defer(p) \/ DispatchFails(p) \/ RequeueUnheard(p)
    <3>1. GoIdle(p) \/ Goto(p, "yield")
      BY <2>2 DEF Defer, DispatchFails, RequeueUnheard, Requeue
    <3> QED
      BY <3>1, IdleFollows, GotoFollows, ProgramCounters
  <2>3. CASE Finish(p, st) \/ Reject(p, st)
    <3>1. GoIdle(p) \/ Goto(p, "park") \/ Goto(p, "clear")
      BY <2>3 DEF Finish, Reject, SecondWrite
    <3>2. proc[p].pc \notin {"idle", "unheard", "yield"}
      BY <2>3 DEF Finish, Reject
    <3> QED
      BY <3>1, <3>2, IdleFollows, GotoFollows, ProgramCounters
  <2>4. CASE RecordOwnFailure(p, st)
    <3>1. CASE Owns(p)
      <4>1. \A q \in Processes \ {p} : proc'[q] = proc[q]
        BY <1>1, <2>4, <3>1 DEF RecordOwnFailure
      <4>2. /\ proc'[p].pc \in {"park", "clear"} /\ proc[p].pc = "failing"
            /\ proc'[p].owner = proc[p].owner /\ proc'[p].run = proc[p].run
        BY <1>1, <2>4, <3>1 DEF RecordOwnFailure, SecondWrite, ProcType
      <4> QED
        BY <4>1, <4>2 DEF Follows
    <3>2. CASE ~Owns(p)
      BY <2>4, <3>2, IdleFollows DEF RecordOwnFailure
    <3> QED
      BY <3>1, <3>2
  <2>5. CASE Renew(p)
    BY <2>5, StayFollows DEF Renew
  <2> QED
    BY <2>1, <2>2, <2>3, <2>4, <2>5
<1>4. \A s \in Runs : LeaseGoes(s)
  <2>1. CASE runs' = runs
    BY <2>1, StayGoes
  <2>2. CASE Renew(p)
    BY <1>1, <2>2, MarkGoes DEF Renew
  <2>3. CASE RequeueUnheard(p) /\ OwnsUncancelled(p)
    <3>1. Unclaimed(r)
      BY <1>1, <2>3, NoStall DEF RequeueUnheard
    <3>2. GivesUp(r)
      BY <2>3 DEF RequeueUnheard, Requeue, GivesUp
    <3> HIDE DEF r
    <3> QED
      BY <1>1, <3>1, <3>2, UnclaimedGoes
  <2>4. CASE /\ Relinquish(p) \/ Defer(p) \/ DispatchFails(p)
                \/ Finish(p, st) \/ RecordOwnFailure(p, st) \/ Reject(p, st)
             /\ runs' # runs
    <3>1. Owns(p) /\ GivesUp(proc[p].run)
      BY <2>4 DEF Relinquish, Defer, DispatchFails, Requeue, Finish, RecordOwnFailure, Reject,
                  OwnsUncancelled, GivesUp
    <3>2. ~AtFence(p) /\ proc[p].pc \notin {"idle", "unheard", "yield"}
      BY <2>4 DEF Relinquish, Defer, DispatchFails, Finish, RecordOwnFailure, Reject, AtFence
    <3> QED
      BY <3>1, <3>2, OwnerGoes
  <2> QED
    BY <2>1, <2>2, <2>3, <2>4 DEF RequeueUnheard, Requeue
<1> QED
  BY <1>2, <1>3, <1>4 DEF Quiet

(* ... and what leaves the AgentRuns alone, or writes one without a lease. *)
LEMMA LateIsQuiet ==
  ASSUME FInv, NEW p \in Processes, NEW st \in Terminal \cup Resumable,
         RecordLateFailure(p, st)
  PROVE  Quiet
<1>1. leases' = leases /\ FenceMoves /\ proc[p].run \in Runs
  BY DEF FInv, IInv, Busy, RecordLateFailure, Unsure, FenceMoves
<1>2. \A q \in Processes : Follows(q)
  <2>1. Goto(p, "park") \/ Goto(p, "clear")
    BY DEF RecordLateFailure, SecondWrite
  <2>2. proc[p].pc \notin {"idle", "unheard", "yield"}
    BY DEF RecordLateFailure, Unsure
  <2> QED
    BY <2>1, <2>2, GotoFollows, ProgramCounters
<1>3. GivesUp(proc[p].run) /\ Unleased(proc[p].run)
  BY DEF RecordLateFailure, GivesUp
<1> QED
  BY <1>1, <1>2, <1>3, NobodyClaims, UnclaimedGoes DEF Quiet

LEMMA OtherIsQuiet ==
  ASSUME FInv, NEW p \in Processes, NEW q \in Processes,
         \/ PointRuntime(p) \/ HandOver(p) \/ EstablishFence(p) \/ FenceFails(p)
         \/ Accept(p)
         \/ LoseResponse(p, q) \/ WriteRuntime(p) \/ ObserveLoss(p) \/ Leave(p)
         \/ ExecutionError(p) \/ LeaveFailed(p) \/ Yield(p) \/ Park(p) \/ Clear(p)
         \/ Crash(p)
  PROVE  Quiet
<1>1. runs' = runs /\ leases' = leases
  BY DEF PointRuntime, HandOver, EstablishFence, FenceFails, Accept, LoseResponse, WriteRuntime,
         ObserveLoss, Leave, ExecutionError, LeaveFailed, Yield, Park, Clear, Crash
<1>2. /\ proc[p] \in ProcType /\ proc \in [Processes -> ProcType] /\ proc[p].owner <= leases
      /\ runtime \in [run : 0 .. MaxRuns, owner : Nat, snapshot : Nat]
  BY DEF FInv, IInv, TypeOK, OwnersMade
<1>3. FenceMoves
  <2>1. CASE EstablishFence(p)
    BY <1>2, <2>1 DEF EstablishFence, Fenced, FenceMoves, AtFence
  <2>2. CASE ~EstablishFence(p)
    BY <1>2, <2>2 DEF PointRuntime, HandOver, FenceFails, Accept, LoseResponse, WriteRuntime,
         ObserveLoss, Leave, ExecutionError, LeaveFailed, Yield, Park, Clear, Crash, FenceMoves
  <2> QED
    BY <2>1, <2>2
<1>4. \A z \in Processes : Follows(z)
  <2>1. CASE HandOver(p) \/ Leave(p) \/ LeaveFailed(p) \/ Yield(p) \/ Crash(p)
    BY <2>1, IdleFollows DEF HandOver, Leave, LeaveFailed, Yield, Crash
  <2>2. CASE PointRuntime(p) \/ FenceFails(p) \/ Accept(p) \/ Park(p) \/ Clear(p)
    <3>1. proc[p].pc \notin {"idle", "unheard", "yield"}
      BY <2>2 DEF PointRuntime, FenceFails, Accept, Park, Clear
    <3>2. GoIdle(p) \/ \E pc \in {"claim", "relinquish", "surrender", "ended"} : Goto(p, pc)
      BY <2>2 DEF PointRuntime, FenceFails, Accept, Park, Clear, AfterStatus
    <3> QED
      BY <3>1, <3>2, IdleFollows, GotoFollows, ProgramCounters
  <2>3. CASE EstablishFence(p)
    <3>1. \A z \in Processes \ {p} : proc'[z] = proc[z]
      BY <1>2, <2>3 DEF EstablishFence
    <3>2. /\ proc'[p].pc \in {"dispatch", "execute"} /\ AtFence(p)
          /\ proc'[p].owner = proc[p].owner /\ proc'[p].run = proc[p].run
          /\ runtime'.owner = proc[p].owner
      BY <1>2, <2>3 DEF EstablishFence, Fenced, AtFence, ProcType
    <3> QED
      BY <3>1, <3>2 DEF Follows, AtFence
  <2>4. CASE LoseResponse(p, q)
    <3>1. /\ p # q /\ proc[p].pc = "dispatch"
          /\ \A z \in Processes \ {p, q} : proc'[z] = proc[z]
      BY <1>2, <2>4 DEF LoseResponse
    <3>2. /\ proc'[p].pc = "claim" /\ proc'[q].pc = "unheard"
          /\ proc'[p].owner = proc[p].owner /\ proc'[p].run = proc[p].run
          /\ proc'[q].owner = proc[p].owner
      BY <1>2, <2>4, <3>1 DEF LoseResponse, ProcType
    <3> QED
      BY <1>2, <3>1, <3>2 DEF Follows
  <2>5. CASE ObserveLoss(p) \/ ExecutionError(p)
    <3>1. \A z \in Processes \ {p} : proc'[z] = proc[z]
      BY <1>2, <2>5 DEF ObserveLoss, ExecutionError
    <3>2. /\ proc'[p].run = proc[p].run /\ proc[p].pc \notin {"idle", "unheard", "yield"}
          /\ \/ proc'[p].owner = proc[p].owner /\ proc'[p].pc \in {proc[p].pc, "failing"}
             \/ proc'[p].owner = NoOwner /\ proc'[p].pc = "failing"
          /\ ~AtFence(p)
      BY <1>2, <2>5 DEF ObserveLoss, Beating, ExecutionError, ProcType, AtFence
    <3> QED
      BY <3>1, <3>2 DEF Follows, AtFence
  <2>6. CASE WriteRuntime(p)
    BY <2>6, IdleFollows, StayFollows DEF WriteRuntime
  <2> QED
    BY <2>1, <2>2, <2>3, <2>4, <2>5, <2>6
<1> QED
  BY <1>1, <1>3, <1>4, StayGoes DEF Quiet

LEMMA StepMoves ==
  ASSUME MaxStalls = 0, FInv, [Next]_vars
  PROVE  Quiet \/ \E p \in Processes, r \in Runs, o \in Nat : Takes(p, r, o)
<1> DEFINE Goal == Quiet \/ \E p \in Processes, r \in Runs, o \in Nat : Takes(p, r, o)
<1>1. CASE UNCHANGED vars
  BY <1>1, StayFollows, StayGoes DEF vars, Quiet, FenceMoves
<1>2. ASSUME NEW p \in Processes, Request(p) \/ Sweep(p)
      PROVE  Quiet
  BY <1>2, RequestIsQuiet DEF Request, Sweep
<1>3. ASSUME NEW p \in Processes, NEW r \in Runs, LeaseNext(p, r)
      PROVE  Goal
  <2>1. leases + 1 \in Nat
    BY DEF FInv, IInv, TypeOK
  <2> QED
    BY <1>3, <2>1, LeaseNextTakes
<1>4. ASSUME NEW p \in Processes, Continue(p)
      PROVE  Goal
  <2>1. CASE ClaimRun(p)
    BY <2>1, ClaimTakesOrNot
  <2>2. CASE \E st \in Terminal \cup Resumable :
               Finish(p, st) \/ RecordOwnFailure(p, st) \/ RecordLateFailure(p, st)
    BY <2>2, OwnedIsQuiet, LateIsQuiet
  <2>3. CASE Relinquish(p) \/ RequeueUnheard(p)
    <3>1. "failed" \in Terminal \cup Resumable
      BY DEF Terminal
    <3> QED
      BY <2>3, <3>1, OwnedIsQuiet
  <2>4. CASE \/ PointRuntime(p) \/ HandOver(p) \/ EstablishFence(p) \/ Accept(p)
             \/ Leave(p) \/ LeaveFailed(p) \/ Yield(p) \/ Park(p) \/ Clear(p)
    BY <2>4, OtherIsQuiet
  <2> QED
    BY <1>4, <2>1, <2>2, <2>3, <2>4 DEF Continue
<1>5. ASSUME NEW p \in Processes,
             Disturb(p) \/ WriteRuntime(p) \/ Renew(p) \/ ObserveLoss(p)
      PROVE  Quiet
  <2>1. {"failed", "cancelled"} \subseteq Terminal \cup Resumable
    BY DEF Terminal
  <2>2. CASE Defer(p) \/ DispatchFails(p) \/ Renew(p)
    BY <2>1, <2>2, OwnedIsQuiet
  <2>3. CASE \E st \in {"failed", "cancelled"} : Reject(p, st)
    BY <2>1, <2>3, OwnedIsQuiet
  <2>4. CASE \/ FenceFails(p) \/ ExecutionError(p) \/ Crash(p) \/ WriteRuntime(p)
             \/ ObserveLoss(p) \/ \E q \in Processes : LoseResponse(p, q)
    BY <2>4, OtherIsQuiet
  <2> QED
    BY <1>5, <2>2, <2>3, <2>4 DEF Disturb
<1>6. ASSUME Next
      PROVE  Goal
  <2>1. CASE \E p \in Processes :
               \/ Request(p) \/ Sweep(p) \/ Continue(p) \/ Disturb(p)
               \/ \E r \in Runs : LeaseNext(p, r)
               \/ WriteRuntime(p) \/ Renew(p) \/ ObserveLoss(p)
    BY <2>1, <1>2, <1>3, <1>4, <1>5
  <2>2. CASE \E r \in Runs :
               \/ RequeueRecoverable(r) \/ RequestCancellation(r) \/ MarkAbandoned(r)
               \/ LapseLease(r) \/ Elapse(r)
    BY <2>2, SingleIsQuiet
  <2> QED
    BY <1>6, <2>1, <2>2 DEF Next
<1> QED
  BY <1>1, <1>6

LEMMA StaleCounts ==
  ASSUME IInv, [Next]_vars, stale' = 0
  PROVE  stale = 0
BY EveryStep DEF IInv, TypeOK, DocumentStep, LateWrite

LEMMA FenceInductive ==
  ASSUME MaxStalls = 0, FInv, [Next]_vars
  PROVE  FInv'
<1>1. IInv' /\ (stale' = 0 => stale = 0)
  BY Inductive, StaleCounts DEF FInv
<1> QED
  BY <1>1, StepMoves, QuietKeeps, TakesKeeps

LEMMA FenceInitially ==
  ASSUME Init
  PROVE  FInv
BY Initially DEF Init, FInv, OwnersApart, OwnersMade, ClaimsStand, ExecutesOwned, FenceOfHolder,
                 Carries, AtFence, Executing, Idle, NoRecord, NoOwner

LEMMA SnapshotByHolder ==
  ASSUME FInv, [Next]_vars, stale = 0, runtime'.snapshot # runtime.snapshot,
         NEW q \in Processes, Executing(q)
  PROVE  proc[q].owner = runtime'.snapshot
<1>1. runtime \in [run : 0 .. MaxRuns, owner : Nat, snapshot : Nat]
  BY DEF FInv, IInv, TypeOK
<1>2. PICK p \in Processes : WriteRuntime(p)
  <2>1. ASSUME NEW p \in Processes, Request(p) \/ Sweep(p) \/ \E r \in Runs : LeaseNext(p, r)
        PROVE  runtime' = runtime
    BY <2>1 DEF Request, CreateRun, ResumeRun, CancelInactive, Sweep, MarkExpired,
                FinalizeCancelled, LeaseNext
  <2>2. ASSUME NEW p \in Processes,
               PointRuntime(p) \/ EstablishFence(p) \/ Yield(p) \/ Park(p) \/ Clear(p)
        PROVE  runtime'.snapshot = runtime.snapshot
    BY <1>1, <2>2 DEF PointRuntime, EstablishFence, Fenced, Yield, Park, Clear
  <2>3. ASSUME NEW p \in Processes, Continue(p),
               ~(PointRuntime(p) \/ EstablishFence(p) \/ Yield(p) \/ Park(p) \/ Clear(p))
        PROVE  runtime' = runtime
    BY <2>3 DEF Continue, HandOver, ClaimRun, Relinquish, Accept, RequeueUnheard, Leave,
                LeaveFailed, Finish, RecordOwnFailure, RecordLateFailure
  <2>4. ASSUME NEW p \in Processes, Disturb(p) \/ Renew(p) \/ ObserveLoss(p)
        PROVE  runtime' = runtime
    BY <2>4 DEF Disturb, FenceFails, Defer, DispatchFails, ExecutionError, Crash, Reject,
                LoseResponse, Renew, ObserveLoss
  <2>5. ASSUME NEW r \in Runs,
               \/ RequeueRecoverable(r) \/ RequestCancellation(r) \/ MarkAbandoned(r)
               \/ LapseLease(r) \/ Elapse(r)
        PROVE  runtime' = runtime
    BY <2>5 DEF RequeueRecoverable, RequestCancellation, MarkAbandoned, LapseLease, Elapse
  <2>6. Next
    BY DEF vars
  <2> QED
    BY <2>1, <2>2, <2>3, <2>4, <2>5, <2>6 DEF Next
<1>3. Admitted(p) /\ runtime'.snapshot = proc[p].owner /\ proc[p].pc = "execute"
  BY <1>1, <1>2 DEF WriteRuntime
<1>4. runtime.owner = proc[p].owner /\ proc[p].owner # NoOwner
  BY <1>3 DEF Admitted, FInv, ExecutesOwned
<1>5. runtime.owner \in {NoOwner, proc[q].owner}
  BY DEF FInv, FenceOfHolder
<1> QED
  BY <1>3, <1>4, <1>5

(* A write of the runtime's snapshot is one of the execution that holds    *)
(* the lease, once there is one, for any number of runs, processes, leases *)
(* and faults.  It needs that no claim outlives its lease between its two  *)
(* writes: the second one installs its fence unconditionally.              *)
THEOREM HolderWritesAlone ==
  ASSUME MaxStalls = 0
  PROVE  Spec => OnlyHolderWrites
<1>1. Init => FInv
  BY FenceInitially
<1>2. FInv /\ [Next]_vars => FInv'
  BY FenceInductive
<1>3. FInv /\ [Next]_vars =>
        [stale = 0 /\ runtime'.snapshot # runtime.snapshot =>
           \A q \in Processes : Executing(q) => proc[q].owner = runtime'.snapshot]_vars
  BY SnapshotByHolder
<1> QED
  BY <1>1, <1>2, <1>3, PTL DEF Spec, OnlyHolderWrites
=============================================================================
