--------------------------- MODULE MemoryPipeline ---------------------------
(***************************************************************************)
(* The memory pipeline: the turn of a conversation leaves a MemoryRun; a   *)
(* worker of each server process leases it for a minute, records one       *)
(* history event and candidate preferences from it, and consolidates the   *)
(* candidates of the account in batches into the preferences of its        *)
(* profile, which the user edits at the same time.  The profile is read    *)
(* and written back whole, without a version.                              *)
(*                                                                         *)
(* A run yields at most one candidate, known by the run.  What the model   *)
(* decides is chosen freely.  Evidence, tokens, the search for events and   *)
(* changes of a preference's words are left out.                           *)
(***************************************************************************)
EXTENDS Integers, FiniteSets

CONSTANTS MemoryRuns, MemoryWorkers, NoWorker,
          BatchSize,          \* candidates that are consolidated together
          MaxAttempts,        \* leases of a run
          PreferenceLimit,    \* MAX_ACTIVE_PREFERENCES
          MaxMemoryCrashes

ASSUME MemoryAssumption ==
    /\ NoWorker \notin MemoryWorkers /\ IsFiniteSet(MemoryRuns)
    /\ BatchSize \in Nat \ {0} /\ MaxAttempts \in Nat \ {0}
    /\ PreferenceLimit \in Nat /\ MaxMemoryCrashes \in Nat

VARIABLES
    turnEnd,                              \* the AgentRun of the turn
    memStatus, memHolder, attempts,       \* the MemoryRun documents
    events,                               \* history events by source run
    candStatus, candBatch,                \* the MemoryCandidate documents
    profile, suppressed,                  \* the UserMemoryProfile: preferences by source
    mplace, mrun, batch, chosen, copy,    \* a worker's local state
    userCopy, userTarget,                 \* an edit of the profile by the user
    memCrashes

runDocVars  == <<turnEnd, memStatus, memHolder, attempts>>
candVars    == <<candStatus, candBatch>>
profileVars == <<profile, suppressed>>
mworkerVars == <<mplace, mrun, batch, chosen, copy>>
userVars    == <<userCopy, userTarget>>
memoryVars  == <<runDocVars, events, candVars, profileVars, mworkerVars, userVars, memCrashes>>

Preferences == [MemoryRuns -> 0..2]

MemoryTypeOK ==
    /\ turnEnd \in [MemoryRuns -> {"running", "natural", "waiting", "other"}]
    /\ memStatus \in [MemoryRuns -> {"recording", "queued", "processing", "completed",
                                     "discarded", "failed"}]
    /\ memHolder \in [MemoryRuns -> MemoryWorkers \cup {NoWorker}]
    /\ attempts \in [MemoryRuns -> 0..MaxAttempts]
    /\ events \in [MemoryRuns -> 0..2]
    /\ candStatus \in [MemoryRuns -> {"none", "pending", "claimed", "promoted", "ignored", "conflict"}]
    /\ candBatch \in [MemoryRuns -> MemoryWorkers \cup {NoWorker}]
    /\ profile \in Preferences /\ suppressed \subseteq MemoryRuns
    /\ mplace \in [MemoryWorkers -> {"idle", "leased", "candidate", "pick", "claim", "revert",
                                     "batch", "write", "promote", "finish", "fail"}]
    /\ mrun \in [MemoryWorkers -> SUBSET MemoryRuns]
    /\ batch \in [MemoryWorkers -> SUBSET MemoryRuns]
    /\ chosen \in [MemoryWorkers -> SUBSET MemoryRuns]
    /\ copy \in [MemoryWorkers -> Preferences]
    /\ userCopy \in Preferences /\ userTarget \subseteq MemoryRuns
    /\ memCrashes \in 0..MaxMemoryCrashes
    /\ \A w \in MemoryWorkers : (mplace[w] = "idle") = (mrun[w] = {})

Nothing == [r \in MemoryRuns |-> 0]

MemoryInit ==
    /\ turnEnd = [r \in MemoryRuns |-> "running"]
    /\ memStatus = [r \in MemoryRuns |-> "recording"]
    /\ memHolder = [r \in MemoryRuns |-> NoWorker]
    /\ attempts = Nothing /\ events = Nothing
    /\ candStatus = [r \in MemoryRuns |-> "none"]
    /\ candBatch = [r \in MemoryRuns |-> NoWorker]
    /\ profile = Nothing /\ suppressed = {}
    /\ mplace = [w \in MemoryWorkers |-> "idle"]
    /\ mrun = [w \in MemoryWorkers |-> {}] /\ batch = [w \in MemoryWorkers |-> {}]
    /\ chosen = [w \in MemoryWorkers |-> {}] /\ copy = [w \in MemoryWorkers |-> Nothing]
    /\ userCopy = Nothing /\ userTarget = {}
    /\ memCrashes = 0

Proceed(w, place) == mplace' = [mplace EXCEPT ![w] = place]

-----------------------------------------------------------------------------
(* The turn ends with the status of its run, and then its MemoryRun is      *)
(* discarded or queued; one that waits for agents is queued like one that   *)
(* has finished.                                                            *)

\* The AgentRun that waited is resumed and ends, under a MemoryRun of its own.
TurnResumed(r) ==
    /\ turnEnd[r] = "waiting"
    /\ turnEnd' = [turnEnd EXCEPT ![r] = "natural"]
    /\ UNCHANGED <<memStatus, memHolder, attempts, events, candVars, profileVars,
                   mworkerVars, userVars, memCrashes>>

SetMemoryStatus(r, status) ==
    /\ memStatus' = [memStatus EXCEPT ![r] = status]
    /\ memHolder' = [memHolder EXCEPT ![r] = NoWorker]

EndTurn(r, end) ==
    /\ memStatus[r] = "recording"
    /\ turnEnd' = [turnEnd EXCEPT ![r] = end]
    /\ SetMemoryStatus(r, IF end = "other" THEN "discarded" ELSE "queued")
    /\ UNCHANGED attempts
    /\ UNCHANGED <<events, candVars, profileVars, mworkerVars, userVars, memCrashes>>

-----------------------------------------------------------------------------
(* The worker: leaseNextMemoryRun, processRun. *)

\* Mutant: a run whose worker has gone is not found again.
LeasableQueued(r) == memStatus[r] = "queued" /\ attempts[r] < MaxAttempts

\* A minute is over for the lease of a run in process whenever it is looked
\* at: its worker does not renew it, and may be there or not.
Leasable(r) == memStatus[r] \in {"queued", "processing"} /\ attempts[r] < MaxAttempts

LeaseMemory(w, r) ==
    /\ mplace[w] = "idle" /\ Leasable(r)
    /\ memStatus' = [memStatus EXCEPT ![r] = "processing"]
    /\ memHolder' = [memHolder EXCEPT ![r] = w]
    /\ attempts' = [attempts EXCEPT ![r] = @ + 1]
    /\ mrun' = [mrun EXCEPT ![w] = {r}]
    /\ Proceed(w, "leased")
    /\ UNCHANGED <<turnEnd, events, candVars, profileVars, batch, chosen, copy, userVars, memCrashes>>

\* Mutant: the chat route has queued the run, so it is taken to be complete.
AuthorizedByQueue(r) == TRUE

Authorized(r) == turnEnd[r] = "natural"

Discarded(w, r) ==
    /\ mplace[w] = "leased" /\ r \in mrun[w] /\ ~Authorized(r)
    /\ SetMemoryStatus(r, "discarded") /\ UNCHANGED <<turnEnd, attempts>>
    /\ mrun' = [mrun EXCEPT ![w] = {}]
    /\ Proceed(w, "idle")
    /\ UNCHANGED <<events, candVars, profileVars, batch, chosen, copy, userVars, memCrashes>>

\* Mutant: the event is created without regard to its source.
NextEventsAlways(r) == [events EXCEPT ![r] = IF @ < 2 THEN @ + 1 ELSE @]

\* An upsert under a unique index of the source run.
NextEvents(r) == [events EXCEPT ![r] = 1]

\* createHistoryEvent, of what is extracted from a turn that has ended well.
RecordEvent(w, r) ==
    /\ mplace[w] = "leased" /\ r \in mrun[w] /\ Authorized(r)
    /\ events' = NextEvents(r)
    /\ Proceed(w, "candidate")
    /\ UNCHANGED <<runDocVars, candVars, profileVars, mrun, batch, chosen, copy, userVars, memCrashes>>

RecordCandidate(w, r) ==
    /\ mplace[w] = "candidate" /\ r \in mrun[w]
    /\ candStatus' = [candStatus EXCEPT ![r] = IF @ = "none" /\ r \notin suppressed THEN "pending" ELSE @]
    /\ Proceed(w, "pick")
    /\ UNCHANGED <<runDocVars, events, candBatch, profileVars, mrun, batch, chosen, copy, userVars,
                   memCrashes>>

FinishMemory(w, r) ==
    /\ mplace[w] = "finish" /\ r \in mrun[w]
    /\ SetMemoryStatus(r, "completed") /\ UNCHANGED <<turnEnd, attempts>>
    /\ mrun' = [mrun EXCEPT ![w] = {}]
    /\ Proceed(w, "idle")
    /\ UNCHANGED <<events, candVars, profileVars, batch, chosen, copy, userVars, memCrashes>>

\* The model's answer or any write fails.  releaseRunAfterFailure: by the lease.
FailMemory(w, r) ==
    /\ mplace[w] \in {"leased", "candidate", "pick", "finish", "fail"} /\ r \in mrun[w]
    /\ IF memHolder[r] = w
       THEN /\ SetMemoryStatus(r, IF attempts[r] >= MaxAttempts THEN "failed" ELSE "queued")
            /\ UNCHANGED <<turnEnd, attempts>>
       ELSE UNCHANGED runDocVars
    /\ mrun' = [mrun EXCEPT ![w] = {}]
    /\ Proceed(w, "idle")
    /\ UNCHANGED <<events, candVars, profileVars, batch, chosen, copy, userVars, memCrashes>>

-----------------------------------------------------------------------------
(* claimPreferenceBatch and processConsolidation. *)

Pending == {c \in MemoryRuns : candStatus[c] = "pending"}

Pick(w) ==
    /\ mplace[w] = "pick"
    /\ \/ /\ Cardinality(Pending) < BatchSize
          /\ Proceed(w, "finish") /\ UNCHANGED chosen
       \/ \E ids \in SUBSET Pending :
             /\ Cardinality(ids) = BatchSize
             /\ chosen' = [chosen EXCEPT ![w] = ids]
             /\ Proceed(w, "claim")
    /\ UNCHANGED <<runDocVars, events, candVars, profileVars, mrun, batch, copy, userVars, memCrashes>>

\* Mutant: the status is not looked at again.
StillPendingAny(w) == chosen[w]

StillPending(w) == chosen[w] \cap Pending

\* The batch id is new: the worker's earlier ones are not used again.
Claim(w) ==
    /\ mplace[w] = "claim"
    /\ candStatus' = [c \in MemoryRuns |-> IF c \in StillPending(w) THEN "claimed" ELSE candStatus[c]]
    /\ candBatch' = [c \in MemoryRuns |-> IF c \in StillPending(w) THEN w
                                          ELSE IF candBatch[c] = w THEN NoWorker ELSE candBatch[c]]
    /\ chosen' = [chosen EXCEPT ![w] = {}]
    /\ IF Cardinality(StillPending(w)) = BatchSize
       THEN Proceed(w, "batch") /\ batch' = [batch EXCEPT ![w] = chosen[w]]
       ELSE Proceed(w, "revert") /\ UNCHANGED batch
    /\ UNCHANGED <<runDocVars, events, profileVars, mrun, copy, userVars, memCrashes>>

BackToPending(w, S) ==
    /\ candStatus' = [c \in MemoryRuns |-> IF c \in S THEN "pending" ELSE candStatus[c]]
    /\ candBatch' = [c \in MemoryRuns |-> IF c \in S THEN NoWorker ELSE candBatch[c]]

\* Another worker has taken a part of the batch: the rest is given back.
Revert(w) ==
    /\ mplace[w] = "revert"
    /\ BackToPending(w, {c \in MemoryRuns : candBatch[c] = w})
    /\ Proceed(w, "finish")
    /\ UNCHANGED <<runDocVars, events, profileVars, mrun, batch, chosen, copy, userVars, memCrashes>>

Finalize(c, status) ==
    candStatus' = [candStatus EXCEPT ![c] = IF @ = "claimed" THEN status ELSE @]

Decided(w, c) == batch' = [batch EXCEPT ![w] = @ \ {c}]

\* Not added: ignored, in conflict, the profile or the account is full.
Decline(w, c, status) ==
    /\ mplace[w] = "batch" /\ c \in batch[w]
    /\ Finalize(c, status) /\ Decided(w, c)
    /\ UNCHANGED <<runDocVars, events, candBatch, profileVars, mplace, mrun, chosen, copy, userVars,
                   memCrashes>>

\* Mutant: the source of the preferences is not looked at.
AlreadyAddedNever(c) == FALSE

AlreadyAdded(c) == profile[c] > 0

Size(prefs) == Cardinality({c \in MemoryRuns : prefs[c] > 0})

\* addPreference reads the profile.
ReadProfile(w, c) ==
    /\ mplace[w] = "batch" /\ c \in batch[w]
    /\ AlreadyAdded(c) \/ Size(profile) < PreferenceLimit
    /\ chosen' = [chosen EXCEPT ![w] = {c}]
    /\ copy' = [copy EXCEPT ![w] = IF AlreadyAdded(c) THEN @ ELSE profile]
    /\ Proceed(w, IF AlreadyAdded(c) THEN "promote" ELSE "write")
    /\ UNCHANGED <<runDocVars, events, candVars, profileVars, mrun, batch, userVars, memCrashes>>

\* saveProfilePreferences: the whole list that was read, and the new one.
WriteProfile(w, c) ==
    /\ mplace[w] = "write" /\ c \in chosen[w]
    /\ profile' = [copy[w] EXCEPT ![c] = IF @ < 2 THEN @ + 1 ELSE @]
    /\ copy' = [copy EXCEPT ![w] = Nothing]
    /\ Proceed(w, "promote")
    /\ UNCHANGED <<runDocVars, events, candVars, suppressed, mrun, batch, chosen, userVars, memCrashes>>

Promote(w, c) ==
    /\ mplace[w] = "promote" /\ c \in chosen[w]
    /\ Finalize(c, "promoted") /\ Decided(w, c)
    /\ chosen' = [chosen EXCEPT ![w] = {}]
    /\ Proceed(w, "batch")
    /\ UNCHANGED <<runDocVars, events, candBatch, profileVars, mrun, copy, userVars, memCrashes>>

Consolidated(w) ==
    /\ mplace[w] = "batch" /\ batch[w] = {}
    /\ Proceed(w, "finish")
    /\ UNCHANGED <<runDocVars, events, candVars, profileVars, mrun, batch, chosen, copy, userVars, memCrashes>>

\* resetClaimedBatch, on any error: what was decided stays.
ResetBatch(w) ==
    /\ mplace[w] \in {"batch", "write", "promote"} /\ batch[w] # {}
    /\ BackToPending(w, {c \in MemoryRuns : candBatch[c] = w /\ candStatus[c] = "claimed"})
    /\ batch' = [batch EXCEPT ![w] = {}] /\ chosen' = [chosen EXCEPT ![w] = {}]
    /\ copy' = [copy EXCEPT ![w] = Nothing]
    /\ Proceed(w, "fail")
    /\ UNCHANGED <<runDocVars, events, profileVars, mrun, userVars, memCrashes>>

\* The server process restarts: its lease and its batch keep ids nobody uses.
MemoryCrash(w) ==
    /\ mplace[w] # "idle" /\ memCrashes < MaxMemoryCrashes
    /\ memCrashes' = memCrashes + 1
    /\ memHolder' = [r \in MemoryRuns |-> IF memHolder[r] = w THEN NoWorker ELSE memHolder[r]]
    /\ candBatch' = [c \in MemoryRuns |-> IF candBatch[c] = w THEN NoWorker ELSE candBatch[c]]
    /\ mrun' = [mrun EXCEPT ![w] = {}] /\ batch' = [batch EXCEPT ![w] = {}]
    /\ chosen' = [chosen EXCEPT ![w] = {}] /\ copy' = [copy EXCEPT ![w] = Nothing]
    /\ Proceed(w, "idle")
    /\ UNCHANGED <<turnEnd, memStatus, attempts, events, candStatus, profileVars, userVars>>

-----------------------------------------------------------------------------
(* The user's edits. *)

UserReads(c) ==
    /\ userTarget = {} /\ profile[c] > 0
    /\ userCopy' = profile /\ userTarget' = {c}
    /\ UNCHANGED <<runDocVars, events, candVars, profileVars, mworkerVars, memCrashes>>

UserDeletes(c) ==
    /\ c \in userTarget
    /\ profile' = [userCopy EXCEPT ![c] = 0] /\ suppressed' = suppressed \cup {c}
    /\ userTarget' = {} /\ userCopy' = Nothing
    /\ UNCHANGED <<runDocVars, events, candVars, mworkerVars, memCrashes>>

ResolveConflict(c, status) ==
    /\ candStatus[c] = "conflict"
    /\ candStatus' = [candStatus EXCEPT ![c] = status]
    /\ UNCHANGED <<runDocVars, events, candBatch, profileVars, mworkerVars, userVars, memCrashes>>

MemoryWork(w) ==
    \/ \E r \in MemoryRuns :
          \/ Discarded(w, r) \/ RecordEvent(w, r) \/ RecordCandidate(w, r)
          \/ FinishMemory(w, r) \/ FailMemory(w, r)
          \/ Decline(w, r, "ignored") \/ Decline(w, r, "conflict")
          \/ ReadProfile(w, r) \/ WriteProfile(w, r) \/ Promote(w, r)
    \/ Pick(w) \/ Claim(w) \/ Revert(w) \/ Consolidated(w) \/ ResetBatch(w)

MemoryNext ==
    \/ \E r \in MemoryRuns :
          \/ \E end \in {"natural", "waiting", "other"} : EndTurn(r, end)
          \/ TurnResumed(r)
          \/ UserReads(r) \/ UserDeletes(r)
          \/ ResolveConflict(r, "pending") \/ ResolveConflict(r, "ignored")
    \/ \E w \in MemoryWorkers :
          \/ MemoryWork(w) \/ MemoryCrash(w)
          \/ \E r \in MemoryRuns : LeaseMemory(w, r)

MemorySpec == MemoryInit /\ [][MemoryNext]_memoryVars

\* The workers' timers find a run that can be leased, and their work goes on.
MemoryFairness ==
    /\ \A w \in MemoryWorkers : WF_memoryVars(MemoryWork(w))
    /\ \A r \in MemoryRuns : SF_memoryVars(\E w \in MemoryWorkers : LeaseMemory(w, r))

FairMemorySpec == MemorySpec /\ MemoryFairness

-----------------------------------------------------------------------------
(* Properties. *)

\* What is remembered of a turn comes from one whose run has ended naturally,
\* and is one event, however often its MemoryRun was leased: after a crash, a
\* failure, or an expired lease with two workers on the run.
MemoryOfCompletedTurns ==
    \A r \in MemoryRuns : /\ events[r] <= 1
                          /\ events[r] > 0 \/ candStatus[r] # "none" => turnEnd[r] = "natural"

\* A candidate is added to the profile once, though its consolidation may fail
\* between the profile and the candidate and be repeated, and though the
\* profile is written back from copies.
PreferenceOnce == \A c \in MemoryRuns : profile[c] <= 1

\* Two workers never decide on the same candidate, and what a worker has still
\* to decide is claimed by it: batches are claimed from what was read before.
BatchesApart ==
    \A w \in MemoryWorkers :
       /\ \A c \in batch[w] : candBatch[c] = w /\ candStatus[c] = "claimed"
       /\ \A v \in MemoryWorkers \ {w} : batch[w] \cap batch[v] = {}

\* A candidate is decided on once, and by one worker.
DecidedOnce == PreferenceOnce /\ BatchesApart

\* A queued run is completed, discarded or failed in the end, or it has been
\* leased as often as it may be.
MemoryRunSettles ==
    \A r \in MemoryRuns :
       memStatus[r] = "queued" ~> (\/ memStatus[r] \in {"completed", "discarded", "failed"}
                                   \/ attempts[r] = MaxAttempts)
=============================================================================
