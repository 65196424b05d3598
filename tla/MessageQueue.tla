---------------------------- MODULE MessageQueue ----------------------------
(***************************************************************************)
(* The mid-turn message queue of one conversation, and the delivery of     *)
(* Team updates to its Root.  A queue row is bound to a run, claimed by    *)
(* the executor of a run, made durable in the transcript, and only then    *)
(* acknowledged (a row with an idempotency key, kept as a receipt) or      *)
(* removed (a row without one).  Rows are released to the conversation     *)
(* when their run ends, and a claim older than a minute is taken back.     *)
(*                                                                         *)
(* A message without an idempotency key is a user's interruption of the    *)
(* active run; a message with one is an update of the mailbox that         *)
(* wakeRootWithUpdate delivers, in several calls that interleave with the  *)
(* runs.  The order of rows by creation time, contents and images are left *)
(* out; updateMany and deleteMany act on one row at a time where another   *)
(* process can come between.                                               *)
(***************************************************************************)
EXTENDS Integers, FiniteSets

CONSTANTS UserMessages,   \* rows of the interrupt route
          Updates,        \* Team updates, each with its delivery key
          Executors,      \* processes that execute runs
          Deliverers,     \* processes that deliver the Root mailbox
          MaxRuns,        \* runs of the conversation
          MaxLosses,      \* crashes, and leases or claims lost while in use
          NoRun, NoOne

ASSUME QueueAssumption ==
    /\ MaxRuns \in Nat /\ MaxLosses \in Nat
    /\ UserMessages \cap Updates = {}
    /\ NoRun \notin Nat
    /\ NoOne \notin Executors
    /\ Deliverers \cap {"pending", "acknowledged"} = {}

Runs     == 1..MaxRuns
Messages == UserMessages \cup Updates

VARIABLES
    rowStatus, rowTarget, rowClaim,   \* the QueuedMessage documents
    runStatus, holder,                \* the AgentRun documents and their lease
    transcript,                       \* messages of the Conversation document
    phase, serves, known, fresh, toAck,  \* an executor's local state
    owedRelease,                      \* ended runs whose rows are still to be released
    checked,                          \* the run an interruption was admitted for
    mail, step, heldMail, choice,  \* the mailbox and its deliverers
    losses

rowVars      == <<rowStatus, rowTarget, rowClaim>>
runVars      == <<runStatus, holder>>
execVars     == <<phase, serves, known, fresh, toAck>>
deliveryVars == <<mail, step, heldMail, choice>>
queueVars    == <<rowVars, runVars, transcript, execVars, owedRelease, checked,
                  deliveryVars, losses>>

Open   == {"pending", "claimed"}
Active == {"queued", "running", "asking", "parked"}

QueueTypeOK ==
    /\ rowStatus \in [Messages -> {"absent", "pending", "claimed", "acknowledged", "removed"}]
    /\ rowTarget \in [Messages -> Runs \cup {NoRun}]
    /\ rowClaim \in [Messages -> Executors \cup {NoOne}]
    /\ \A m \in Messages : rowClaim[m] # NoOne <=> rowStatus[m] = "claimed"
    /\ runStatus \in [Runs -> {"none", "over"} \cup Active]
    /\ holder \in [Runs -> Executors \cup {NoOne}]
    /\ \A r \in Runs : holder[r] # NoOne <=> runStatus[r] = "running"
    /\ transcript \subseteq Messages
    /\ phase \in [Executors -> {"idle", "claiming", "working"}]
    /\ serves \in [Executors -> Runs \cup {NoRun}]
    /\ known \in [Executors -> SUBSET Messages]
    /\ fresh \in [Executors -> SUBSET Messages]
    /\ toAck \in [Executors -> SUBSET Messages]
    /\ owedRelease \subseteq Runs
    /\ checked \in [UserMessages -> Runs \cup {NoRun}]
    /\ mail \in [Updates -> {"pending", "acknowledged"} \cup Deliverers]
    /\ step \in [Deliverers -> {"idle", "lookup", "target", "release", "active",
                                "insert", "create", "bind", "bindNew", "resume", "settle"}]
    /\ heldMail \in [Deliverers -> Updates \cup {NoOne}]
    /\ choice \in [Deliverers -> Runs \cup {NoRun}]
    /\ losses \in 0..MaxLosses

QueueInit ==
    /\ rowStatus = [m \in Messages |-> "absent"]
    /\ rowTarget = [m \in Messages |-> NoRun]
    /\ rowClaim = [m \in Messages |-> NoOne]
    /\ runStatus = [r \in Runs |-> "none"]
    /\ holder = [r \in Runs |-> NoOne]
    /\ transcript = {}
    /\ phase = [e \in Executors |-> "idle"]
    /\ serves = [e \in Executors |-> NoRun]
    /\ known = [e \in Executors |-> {}]
    /\ fresh = [e \in Executors |-> {}]
    /\ toAck = [e \in Executors |-> {}]
    /\ owedRelease = {}
    /\ checked = [u \in UserMessages |-> NoRun]
    /\ mail = [u \in Updates |-> "pending"]
    /\ step = [d \in Deliverers |-> "idle"]
    /\ heldMail = [d \in Deliverers |-> NoOne]
    /\ choice = [d \in Deliverers |-> NoRun]
    /\ losses = 0

-----------------------------------------------------------------------------
(* The collection of queue rows. *)

\* enqueueMessage with an idempotency key inserts the row unless it exists.
Enqueue(m, r) ==
    /\ rowStatus' = [rowStatus EXCEPT ![m] = IF @ = "absent" THEN "pending" ELSE @]
    /\ rowTarget' = [rowTarget EXCEPT ![m] = IF rowStatus[m] = "absent" THEN r ELSE @]
    /\ UNCHANGED rowClaim

Claimable(m, r) == rowStatus[m] = "pending" /\ rowTarget[m] \in {r, NoRun}

\* Mutant: the release leaves the claim on the row.
UntargetKeepingClaim(M) ==
    /\ rowStatus' = [m \in Messages |-> IF m \in M THEN "pending" ELSE rowStatus[m]]
    /\ rowTarget' = [m \in Messages |-> IF m \in M THEN NoRun ELSE rowTarget[m]]
    /\ UNCHANGED rowClaim

\* The rows of M go back to the queue, bound to no run.
Untarget(M) ==
    /\ rowStatus' = [m \in Messages |-> IF m \in M THEN "pending" ELSE rowStatus[m]]
    /\ rowTarget' = [m \in Messages |-> IF m \in M THEN NoRun ELSE rowTarget[m]]
    /\ rowClaim'  = [m \in Messages |-> IF m \in M THEN NoOne ELSE rowClaim[m]]

\* Mutant: the release forgets the filter on the status.
ReleasableOfAnyStatus(r) == {m \in Messages : rowTarget[m] = r /\ rowStatus[m] # "absent"}

ReleasableOf(r) == {m \in Messages : rowTarget[m] = r /\ rowStatus[m] \in Open}

-----------------------------------------------------------------------------
(* Runs: at most one of a conversation is active (its active_key). *)

ActiveRuns == {r \in Runs : runStatus[r] \in Active}
NextRun(r) == runStatus[r] = "none" /\ \A q \in 1..(r - 1) : runStatus[q] # "none"

Create(r) ==
    /\ ActiveRuns = {} /\ NextRun(r)
    /\ runStatus' = [runStatus EXCEPT ![r] = "queued"]
    /\ UNCHANGED holder

\* A turn of the user creates a run.
UserTurn(r) ==
    /\ Create(r)
    /\ UNCHANGED <<rowVars, transcript, execVars, owedRelease, checked, deliveryVars, losses>>

\* resumeWaitingAgentRun: by an answer of the user, a wake-up or the sweep.
Requeued(r) ==
    /\ runStatus' = [runStatus EXCEPT ![r] = IF @ \in {"asking", "parked"} THEN "queued" ELSE @]
    /\ UNCHANGED holder

ResumeRun(r) ==
    /\ runStatus[r] \in {"asking", "parked"}
    /\ Requeued(r)
    /\ UNCHANGED <<rowVars, transcript, execVars, owedRelease, checked, deliveryVars, losses>>

\* The stop route ends a run nobody executes; it does not release the rows.
StopInactive(r) ==
    /\ runStatus[r] \in {"queued", "asking", "parked"}
    /\ runStatus' = [runStatus EXCEPT ![r] = "over"]
    /\ UNCHANGED <<rowVars, holder, transcript, execVars, owedRelease, checked,
                   deliveryVars, losses>>

Executing(e, r) == phase[e] # "idle" /\ serves[e] = r

\* A lapsed lease: free when its holder is gone, a loss while it still works.
Lose(inUse) ==
    IF inUse THEN losses < MaxLosses /\ losses' = losses + 1 ELSE UNCHANGED losses

\* The sweep makes a run whose lease expired recoverable, or ends it when it
\* was cancelled and owes the release of its rows.
ExpireLease(r) ==
    /\ runStatus[r] = "running"
    /\ Lose(Executing(holder[r], r))
    /\ holder' = [holder EXCEPT ![r] = NoOne]
    /\ \/ /\ runStatus' = [runStatus EXCEPT ![r] = "parked"]
          /\ UNCHANGED owedRelease
       \/ /\ runStatus' = [runStatus EXCEPT ![r] = "over"]
          /\ owedRelease' = owedRelease \cup {r}
    /\ UNCHANGED <<rowVars, transcript, execVars, checked, deliveryVars>>

-----------------------------------------------------------------------------
(* An executor: the chat route and the agent loop. *)

\* It leases a queued run and reads the conversation.
Start(e, r) ==
    /\ phase[e] = "idle" /\ runStatus[r] = "queued"
    /\ runStatus' = [runStatus EXCEPT ![r] = "running"]
    /\ holder' = [holder EXCEPT ![r] = e]
    /\ phase' = [phase EXCEPT ![e] = "claiming"]
    /\ serves' = [serves EXCEPT ![e] = r]
    /\ known' = [known EXCEPT ![e] = transcript]
    /\ fresh' = [fresh EXCEPT ![e] = {}]
    /\ toAck' = [toAck EXCEPT ![e] = {}]
    /\ UNCHANGED <<rowVars, transcript, owedRelease, checked, deliveryVars, losses>>

\* Mutant: fresh messages are acknowledged without waiting for the checkpoint.
ClaimRowAckAtOnce(e, m) ==
    /\ phase[e] = "claiming" /\ Claimable(m, serves[e])
    /\ rowStatus' = [rowStatus EXCEPT ![m] = "claimed"]
    /\ rowTarget' = [rowTarget EXCEPT ![m] = serves[e]]
    /\ rowClaim' = [rowClaim EXCEPT ![m] = e]
    /\ toAck' = [toAck EXCEPT ![e] = @ \cup {m}]
    /\ fresh' = [fresh EXCEPT ![e] = @ \cup {m}]
    /\ UNCHANGED <<runVars, transcript, phase, serves, known, owedRelease, checked,
                   deliveryVars, losses>>

\* One round of dequeueMessages; partitionQueuedMessages tells the messages
\* it already knows, which are acknowledged, from those it is to persist.
ClaimRow(e, m) ==
    /\ phase[e] = "claiming" /\ Claimable(m, serves[e])
    /\ rowStatus' = [rowStatus EXCEPT ![m] = "claimed"]
    /\ rowTarget' = [rowTarget EXCEPT ![m] = serves[e]]
    /\ rowClaim' = [rowClaim EXCEPT ![m] = e]
    /\ IF m \in known[e]
       THEN /\ toAck' = [toAck EXCEPT ![e] = @ \cup {m}]
            /\ UNCHANGED fresh
       ELSE /\ fresh' = [fresh EXCEPT ![e] = @ \cup {m}]
            /\ UNCHANGED toAck
    /\ UNCHANGED <<runVars, transcript, phase, serves, known, owedRelease, checked,
                   deliveryVars, losses>>

\* No row is left: the checkpoint is an append that reconciles by message id,
\* under no lease.
Flush(e) ==
    /\ phase[e] = "claiming"
    /\ \A m \in Messages : ~Claimable(m, serves[e])
    /\ transcript' = transcript \cup fresh[e]
    /\ known' = [known EXCEPT ![e] = @ \cup fresh[e]]
    /\ toAck' = [toAck EXCEPT ![e] = @ \cup fresh[e]]
    /\ fresh' = [fresh EXCEPT ![e] = {}]
    /\ phase' = [phase EXCEPT ![e] = "working"]
    /\ UNCHANGED <<rowVars, runVars, serves, owedRelease, checked, deliveryVars, losses>>

Owned(e, m) == rowStatus[m] = "claimed" /\ rowClaim[m] = e

\* acknowledgeDequeuedMessages: fenced by the claim id, row by row.
AckRow(e, m) ==
    /\ m \in toAck[e]
    /\ toAck' = [toAck EXCEPT ![e] = @ \ {m}]
    /\ IF Owned(e, m)
       THEN /\ rowStatus' = [rowStatus EXCEPT ![m] = IF m \in Updates THEN "acknowledged"
                                                                      ELSE "removed"]
            /\ rowClaim' = [rowClaim EXCEPT ![m] = NoOne]
       ELSE UNCHANGED <<rowStatus, rowClaim>>
    /\ UNCHANGED <<rowTarget, runVars, transcript, phase, serves, known, fresh, owedRelease,
                   checked, deliveryVars, losses>>

\* The next round of tools is done: the loop looks at the queue again.
NextRound(e) ==
    /\ phase[e] = "working" /\ toAck[e] = {}
    /\ phase' = [phase EXCEPT ![e] = "claiming"]
    /\ UNCHANGED <<rowVars, runVars, transcript, serves, known, fresh, toAck, owedRelease,
                   checked, deliveryVars, losses>>

Leave(e) ==
    /\ phase' = [phase EXCEPT ![e] = "idle"]
    /\ serves' = [serves EXCEPT ![e] = NoRun]
    /\ known' = [known EXCEPT ![e] = {}]
    /\ fresh' = [fresh EXCEPT ![e] = {}]
    /\ toAck' = [toAck EXCEPT ![e] = {}]

\* The run pauses at a question or a wait; its rows stay bound to it.
Pause(e, status) ==
    /\ phase[e] = "working" /\ toAck[e] = {} /\ holder[serves[e]] = e
    /\ runStatus' = [runStatus EXCEPT ![serves[e]] = status]
    /\ holder' = [holder EXCEPT ![serves[e]] = NoOne]
    /\ Leave(e)
    /\ UNCHANGED <<rowVars, transcript, owedRelease, checked, deliveryVars, losses>>

\* It completes or fails; a status write without the lease is refused, and a
\* failure releases the rows of the run all the same.
EndRun(e) ==
    /\ phase[e] # "idle"
    /\ IF holder[serves[e]] = e
       THEN /\ runStatus' = [runStatus EXCEPT ![serves[e]] = "over"]
            /\ holder' = [holder EXCEPT ![serves[e]] = NoOne]
       ELSE UNCHANGED runVars
    /\ owedRelease' = owedRelease \cup {serves[e]}
    /\ Leave(e)
    /\ UNCHANGED <<rowVars, transcript, checked, deliveryVars, losses>>

\* A refused status write, or a shutdown, ends the executor and nothing else.
Detach(e) ==
    /\ phase[e] # "idle" /\ holder[serves[e]] # e
    /\ Leave(e)
    /\ UNCHANGED <<rowVars, runVars, transcript, owedRelease, checked, deliveryVars, losses>>

Crash(e) ==
    /\ phase[e] # "idle" /\ losses < MaxLosses
    /\ losses' = losses + 1
    /\ Leave(e)
    /\ UNCHANGED <<rowVars, runVars, transcript, owedRelease, checked, deliveryVars>>

\* releaseQueuedMessagesForRun after the end of a run ...
ReleaseRows(r) ==
    /\ r \in owedRelease
    /\ Untarget(ReleasableOf(r))
    /\ owedRelease' = owedRelease \ {r}
    /\ UNCHANGED <<runVars, transcript, execVars, checked, deliveryVars, losses>>

\* ... which a crash after the status write prevents.
ReleaseLost(r) ==
    /\ r \in owedRelease /\ losses < MaxLosses
    /\ losses' = losses + 1
    /\ owedRelease' = owedRelease \ {r}
    /\ UNCHANGED <<rowVars, runVars, transcript, execVars, checked, deliveryVars>>

\* releaseStaleQueueClaims: a claim is a minute old.
ReleaseStaleClaim(m) ==
    /\ rowStatus[m] = "claimed"
    /\ Lose(m \in fresh[rowClaim[m]] \cup toAck[rowClaim[m]])
    /\ rowStatus' = [rowStatus EXCEPT ![m] = "pending"]
    /\ rowClaim' = [rowClaim EXCEPT ![m] = NoOne]
    /\ UNCHANGED <<rowTarget, runVars, transcript, execVars, owedRelease, checked, deliveryVars>>

\* Mutant: only claimed receipts are repaired.
RepairableClaimed(r) == {m \in Updates : rowTarget[m] = r /\ rowStatus[m] = "claimed"}

Repairable(r) == {m \in Updates : rowTarget[m] = r /\ rowStatus[m] \in Open}

\* repairTerminalRootTeamQueueReceipts: receipts only, never a user's row.
RepairReceipts(r) ==
    /\ runStatus[r] = "over" /\ Repairable(r) # {}
    /\ Untarget(Repairable(r))
    /\ UNCHANGED <<runVars, transcript, execVars, owedRelease, checked, deliveryVars, losses>>

-----------------------------------------------------------------------------
(* The interrupt route: it checks the active run, claims images, enqueues. *)

InterruptCheck(u, r) ==
    /\ rowStatus[u] = "absent" /\ checked[u] = NoRun
    /\ runStatus[r] \in {"queued", "running"}
    /\ checked' = [checked EXCEPT ![u] = r]
    /\ UNCHANGED <<rowVars, runVars, transcript, execVars, owedRelease, deliveryVars, losses>>

InterruptEnqueue(u) ==
    /\ rowStatus[u] = "absent" /\ checked[u] # NoRun
    /\ Enqueue(u, checked[u])
    /\ checked' = [checked EXCEPT ![u] = NoRun]
    /\ UNCHANGED <<runVars, transcript, execVars, owedRelease, deliveryVars, losses>>

-----------------------------------------------------------------------------
(* deliverRootMailbox and wakeRootWithUpdate, one database call at a time. *)

GoTo(d, s) == step' = [step EXCEPT ![d] = s]

queueOnly == <<runVars, transcript, execVars, owedRelease, checked, losses>>

\* The mailbox claim is held by a deliverer; only the holder settles it.
MailAfter(d, outcome) ==
    mail' = [mail EXCEPT ![heldMail[d]] = IF @ = d THEN outcome ELSE @]

\* A mailbox claim goes stale while its deliverer is still at work.
LapseMail(u) ==
    /\ mail[u] \in Deliverers /\ losses < MaxLosses
    /\ losses' = losses + 1
    /\ mail' = [mail EXCEPT ![u] = "pending"]
    /\ UNCHANGED <<rowVars, runVars, transcript, execVars, owedRelease, checked,
                   step, heldMail, choice>>

ClaimMail(d, u) ==
    /\ step[d] = "idle" /\ mail[u] = "pending"
    /\ mail' = [mail EXCEPT ![u] = d]
    /\ heldMail' = [heldMail EXCEPT ![d] = u]
    /\ GoTo(d, "lookup")
    /\ UNCHANGED <<rowVars, queueOnly, choice>>

\* Mutant: the update is settled although nothing keeps it.
KeepForLaterUnsaved(d) ==
    /\ step[d] = "lookup"
    /\ MailAfter(d, "acknowledged")
    /\ heldMail' = [heldMail EXCEPT ![d] = NoOne]
    /\ GoTo(d, "idle")
    /\ UNCHANGED <<rowVars, queueOnly, choice>>

\* A Root that accepts no update: the receipt is kept for its next run and
\* the mailbox claim released.
KeepForLater(d) ==
    /\ step[d] = "lookup"
    /\ Enqueue(heldMail[d], NoRun)
    /\ MailAfter(d, "pending")
    /\ heldMail' = [heldMail EXCEPT ![d] = NoOne]
    /\ GoTo(d, "idle")
    /\ UNCHANGED <<queueOnly, choice>>

Lookup(d) ==
    LET u == heldMail[d] IN
    /\ step[d] = "lookup"
    /\ choice' = [choice EXCEPT ![d] = rowTarget[u]]
    /\ GoTo(d, CASE rowStatus[u] = "acknowledged" -> "settle"
                 [] rowStatus[u] # "acknowledged" /\ rowTarget[u] # NoRun -> "target"
                 [] OTHER -> "active")
    /\ UNCHANGED <<rowVars, queueOnly, mail, heldMail>>

ReadTarget(d) ==
    /\ step[d] = "target"
    /\ GoTo(d, CASE runStatus[choice[d]] = "parked" -> "resume"
                 [] runStatus[choice[d]] \in {"queued", "running", "asking"} -> "settle"
                 [] OTHER -> "release")
    /\ UNCHANGED <<rowVars, queueOnly, mail, heldMail, choice>>

ResumeChosen(d) ==
    /\ step[d] = "resume"
    /\ Requeued(choice[d])
    /\ GoTo(d, "settle")
    /\ UNCHANGED <<rowVars, transcript, execVars, owedRelease, checked, losses,
                   mail, heldMail, choice>>

ReleaseTarget(d) ==
    /\ step[d] = "release"
    /\ Untarget(ReleasableOf(choice[d]))
    /\ GoTo(d, "active")
    /\ UNCHANGED <<queueOnly, mail, heldMail, choice>>

ReadActive(d) ==
    /\ step[d] = "active"
    /\ choice' = [choice EXCEPT ![d] = IF ActiveRuns = {} THEN NoRun
                                       ELSE CHOOSE r \in ActiveRuns : TRUE]
    /\ GoTo(d, "insert")
    /\ UNCHANGED <<rowVars, queueOnly, mail, heldMail>>

Insert(d) ==
    /\ step[d] = "insert"
    /\ Enqueue(heldMail[d], choice[d])
    /\ GoTo(d, IF choice[d] = NoRun THEN "create" ELSE "bind")
    /\ UNCHANGED <<queueOnly, mail, heldMail, choice>>

\* createAgentRun under the active_key, or the run that won it.
CreateDeliveryRun(d) ==
    /\ step[d] = "create"
    /\ \/ \E r \in Runs : Create(r) /\ choice' = [choice EXCEPT ![d] = r]
       \/ \E r \in ActiveRuns : choice' = [choice EXCEPT ![d] = r] /\ UNCHANGED runVars
    /\ GoTo(d, "bindNew")
    /\ UNCHANGED <<rowVars, transcript, execVars, owedRelease, checked, losses,
                   mail, heldMail>>

Bindable(u, r) == rowStatus[u] # "absent" /\ rowTarget[u] \in {NoRun, r}

\* bindIdempotentQueuedMessageToRun; a receipt bound elsewhere keeps its run.
\* The run that was active, if parked, is resumed unless the receipt is bound
\* to another active run.
Bind(d) ==
    LET u == heldMail[d]
        r == choice[d]
    IN
    /\ step[d] \in {"bind", "bindNew"}
    /\ rowTarget' = [rowTarget EXCEPT ![u] = IF Bindable(u, r) THEN r ELSE @]
    /\ GoTo(d, IF /\ step[d] = "bind" /\ runStatus[r] = "parked"
                   /\ (Bindable(u, r) \/ rowTarget[u] \notin ActiveRuns)
                THEN "resume" ELSE "settle")
    /\ UNCHANGED <<rowStatus, rowClaim, queueOnly, mail, heldMail, choice>>

SettleMail(d) ==
    /\ step[d] = "settle"
    /\ MailAfter(d, "acknowledged")
    /\ heldMail' = [heldMail EXCEPT ![d] = NoOne]
    /\ choice' = [choice EXCEPT ![d] = NoRun]
    /\ GoTo(d, "idle")
    /\ UNCHANGED <<rowVars, queueOnly>>

\* The delivery fails or its process dies; a later claim starts it again.
DropDelivery(d) ==
    /\ step[d] # "idle" /\ losses < MaxLosses
    /\ losses' = losses + 1
    /\ MailAfter(d, "pending")
    /\ heldMail' = [heldMail EXCEPT ![d] = NoOne]
    /\ choice' = [choice EXCEPT ![d] = NoRun]
    /\ GoTo(d, "idle")
    /\ UNCHANGED <<rowVars, runVars, transcript, execVars, owedRelease, checked>>

-----------------------------------------------------------------------------
RunStep(r) ==
    UserTurn(r) \/ ResumeRun(r) \/ StopInactive(r) \/ ExpireLease(r)
    \/ ReleaseRows(r) \/ ReleaseLost(r) \/ RepairReceipts(r)

ExecutorStep(e) ==
    \/ \E r \in Runs : Start(e, r)
    \/ \E m \in Messages : ClaimRow(e, m) \/ AckRow(e, m)
    \/ Flush(e) \/ NextRound(e)
    \/ \E s \in {"asking", "parked"} : Pause(e, s)
    \/ EndRun(e) \/ Detach(e) \/ Crash(e)

DeliveryStep(d) ==
    \/ \E u \in Updates : ClaimMail(d, u)
    \/ KeepForLater(d) \/ Lookup(d) \/ ReadTarget(d) \/ ResumeChosen(d) \/ ReleaseTarget(d)
    \/ ReadActive(d) \/ Insert(d) \/ CreateDeliveryRun(d) \/ Bind(d) \/ SettleMail(d)
    \/ DropDelivery(d)

QueueNext ==
    \/ \E r \in Runs : RunStep(r)
    \/ \E e \in Executors : ExecutorStep(e)
    \/ \E d \in Deliverers : DeliveryStep(d)
    \/ \E u \in Updates : LapseMail(u)
    \/ \E m \in Messages : ReleaseStaleClaim(m)
    \/ \E u \in UserMessages : InterruptEnqueue(u) \/ \E r \in Runs : InterruptCheck(u, r)

\* The recovery sweep repeats every 15 seconds, executors make progress, and a
\* process releases the rows of the runs it has ended unless it crashes.
QueueFairness ==
    /\ \A r \in Runs : WF_queueVars(RepairReceipts(r)) /\ WF_queueVars(ReleaseRows(r))
    /\ \A m \in Messages : WF_queueVars(ReleaseStaleClaim(m))

QueueSpec     == QueueInit /\ [][QueueNext]_queueVars
FairQueueSpec == QueueSpec /\ QueueFairness

-----------------------------------------------------------------------------
(* Properties. *)

\* A row leaves the queue, or becomes a receipt, only after its message is in
\* the transcript: whatever claims lapse, whichever executor acknowledges.
InputDurable ==
    \A m \in Messages : rowStatus[m] \in {"acknowledged", "removed"} => m \in transcript

\* An acknowledged receipt names the run that consumed it, never returns to the
\* queue and stays with that run, whatever a stale executor or delivery
\* releases, binds or repairs.
ReceiptFinal ==
    [][\A m \in Messages : rowStatus[m] = "acknowledged" =>
          /\ rowTarget[m] \in Runs
          /\ rowStatus'[m] = "acknowledged" /\ rowTarget'[m] = rowTarget[m]]_queueVars

\* A mailbox update is settled only when its receipt is in the queue.
SettledHasReceipt == \A u \in Updates : mail[u] = "acknowledged" => rowStatus[u] # "absent"

\* No input is taken off its books before the next ones have it: mailbox, queue,
\* transcript.
InputAccounted == InputDurable /\ SettledHasReceipt

Stranded(m) == rowStatus[m] \in Open /\ rowTarget[m] \in Runs /\ runStatus[rowTarget[m]] = "over"

\* A Team update does not stay bound to a run that has ended.
UpdateNotStranded == \A u \in Updates : []<>~Stranded(u)

\* Nor does a user's interruption.
UserInputNotStranded == \A u \in UserMessages : []<>~Stranded(u)
=============================================================================
