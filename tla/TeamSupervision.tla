-------------------------- MODULE TeamSupervision --------------------------
(***************************************************************************)
(* How the events of an Agent team reach its Root: the event log of        *)
(* lib/agent-team/repository.ts, whose sequence numbers are taken before   *)
(* the events are inserted, and the maintenance sweep of                   *)
(* lib/agent-team/orchestrator.ts, which freezes a batch of events, hands  *)
(* over Root's mailbox, injects a digest of the batch and moves a cursor.  *)
(*                                                                         *)
(* The sweep runs in every server process; a lease keeps two of them       *)
(* apart, but it may lapse under a slow sweep, and a process may die after *)
(* any of its writes.                                                      *)
(***************************************************************************)
EXTENDS Integers, FiniteSets, FiniteSetsExt

CONSTANTS
    MaxTeamEvents,         \* bound: events of the team
    Sweeps,                \* maintenance sweeps in flight
    NoSweep,               \* no holder
    SweepLimit,            \* events listed by a sweep
    MaxSupervisionFaults   \* bound: sweeps that die, leases that lapse under one

ASSUME SupervisionAssumption ==
    /\ MaxTeamEvents \in Nat /\ SweepLimit \in Nat \ {0} /\ MaxSupervisionFaults \in Nat
    /\ NoSweep \notin Sweeps
    /\ Sweeps \cap {"none", "pending", "stale", "acknowledged"} = {}

Seqs   == 1..MaxTeamEvents
Afters == 0..MaxTeamEvents

VARIABLES
    nextSeq,      \* AgentTeam.next_event_seq
    eventKind,         \* what each numbered event is
    inserted,     \* numbers whose event is in the log
    cursor,       \* AgentTeam.supervision_cursor
    lease,        \* holder of the supervision lease
    batch,        \* TeamSupervisionBatch by after_seq: its events, none if it does not exist
    delivered,    \* after_seq of the batches with delivered_at
    digests,      \* queue rows that carry the digest of a batch
    mail,         \* Root's delivery of a message, by the number of its event
    mailRows,     \* messages with a queue row of their own
    rootReady,    \* rootCanAcceptTeamUpdate
    place,        \* where a sweep stands
    after,        \* supervision_cursor a sweep has read with the lease
    listed,       \* the events it has listed
    sawDelivered, \* its copy of the batch has delivered_at
    late,         \* ghost: events inserted after a sweep has listed one with a higher number
    faults

teamVars  == <<nextSeq, eventKind, inserted, late>>
batchVars == <<batch, delivered, digests>>
mailVars  == <<mail, mailRows>>
sweepVars == <<place, after, listed, sawDelivered>>
supervisionVars == <<teamVars, cursor, lease, batchVars, mailVars, rootReady, sweepVars, faults>>

SupervisionTypeOK ==
    /\ nextSeq \in Afters /\ eventKind \in [Seqs -> {"routine", "message", "silent"}]
    /\ inserted \subseteq 1..nextSeq /\ late \subseteq inserted
    /\ cursor \in Afters /\ lease \in Sweeps \cup {NoSweep}
    /\ batch \in [Afters -> SUBSET Seqs] /\ \A a \in Afters : batch[a] \subseteq inserted
    /\ delivered \subseteq Afters /\ \A a \in delivered : batch[a] # {}
    /\ digests \in [Afters -> 0..1]
    /\ mail \in [Seqs -> Sweeps \cup {"none", "pending", "stale", "acknowledged"}]
    /\ mailRows \subseteq {e \in Seqs : mail[e] # "none"}
    /\ rootReady \in BOOLEAN
    /\ place \in [Sweeps -> {"idle", "list", "freeze", "claim", "deliver", "acknowledge", "inject",
                             "mark", "advance", "release"}]
    /\ after \in [Sweeps -> Afters] /\ listed \in [Sweeps -> SUBSET Seqs]
    /\ sawDelivered \in [Sweeps -> BOOLEAN] /\ faults \in 0..MaxSupervisionFaults

SupervisionInit ==
    /\ nextSeq = 0 /\ eventKind = [e \in Seqs |-> "routine"] /\ inserted = {} /\ late = {}
    /\ cursor = 0 /\ lease = NoSweep
    /\ batch = [a \in Afters |-> {}] /\ delivered = {} /\ digests = [a \in Afters |-> 0]
    /\ mail = [e \in Seqs |-> "none"] /\ mailRows = {} /\ rootReady = TRUE
    /\ place = [s \in Sweeps |-> "idle"] /\ after = [s \in Sweeps |-> 0]
    /\ listed = [s \in Sweeps |-> {}] /\ sawDelivered = [s \in Sweeps |-> FALSE]
    /\ faults = 0

-----------------------------------------------------------------------------
(* The event log. *)

(* appendEvent takes the number first; the message of a message_sent event is in Root's
   mailbox before that. *)
TakeSeq(k) ==
    /\ nextSeq < MaxTeamEvents
    /\ nextSeq' = nextSeq + 1
    /\ eventKind' = [eventKind EXCEPT ![nextSeq + 1] = k]
    /\ mail' = [mail EXCEPT ![nextSeq + 1] = IF k = "message" THEN "pending" ELSE "none"]
    /\ UNCHANGED <<inserted, late, cursor, lease, batchVars, mailRows, rootReady, sweepVars, faults>>

(* The insertion comes at any time later, or never when the process has died. *)
InsertEvent(e) ==
    /\ e \in 1..nextSeq \ inserted
    /\ inserted' = inserted \cup {e}
    /\ LET seen == (UNION {batch[a] : a \in Afters}) \cup (UNION {listed[s] : s \in Sweeps})
       IN  late' = IF \E f \in seen : e < f THEN late \cup {e} ELSE late
    /\ UNCHANGED <<nextSeq, eventKind, cursor, lease, batchVars, mailVars, rootReady, sweepVars, faults>>

(* Root fails, is paused, or is recovered by its owner. *)
RootChanges ==
    /\ rootReady' = ~rootReady
    /\ UNCHANGED <<teamVars, cursor, lease, batchVars, mailVars, sweepVars, faults>>

-----------------------------------------------------------------------------
(* The maintenance sweep. *)

At(s, p) == place[s] = p
Goto(s, p) == place' = [place EXCEPT ![s] = p]

ClaimSupervisionLease(s) ==
    /\ At(s, "idle") /\ lease = NoSweep /\ cursor < nextSeq
    /\ lease' = s /\ Goto(s, "list")
    /\ after' = [after EXCEPT ![s] = cursor]
    /\ UNCHANGED <<teamVars, cursor, batchVars, mailVars, rootReady, listed, sawDelivered, faults>>

(* listEventsAfter: the first SweepLimit events after n that are in the log. *)
ListedAfter(n) ==
    LET later == {e \in inserted : e > n}
    IN  {e \in later : Cardinality({f \in later : f <= e}) <= SweepLimit}

ListEvents(s) ==
    /\ At(s, "list")
    /\ listed' = [listed EXCEPT ![s] = ListedAfter(after[s])]
    /\ \/ ListedAfter(after[s]) # {} /\ Goto(s, "freeze")
       \/ Goto(s, "release")        \* nothing, or the first event is too recent
    /\ UNCHANGED <<teamVars, cursor, lease, batchVars, mailVars, rootReady, after, sawDelivered, faults>>

(* getOrCreateSupervisionBatch: the batch of an after_seq is never frozen twice. *)
FrozenAnew(s) == listed[s]
Frozen(s) == IF batch[after[s]] # {} THEN batch[after[s]] ELSE listed[s]

FreezeBatch(s) ==
    /\ At(s, "freeze") /\ Goto(s, "claim")
    /\ batch' = [batch EXCEPT ![after[s]] = Frozen(s)]
    /\ sawDelivered' = [sawDelivered EXCEPT ![s] = after[s] \in delivered]
    /\ UNCHANGED <<teamVars, cursor, lease, delivered, digests, mailVars, rootReady, after, listed, faults>>

(* claimMailboxMessages for Root, which first takes stale claims back. *)
ClaimMailbox(s) ==
    /\ At(s, "claim")
    /\ LET open == {e \in Seqs : mail[e] \in {"pending", "stale"}}
       IN  /\ mail' = [e \in Seqs |-> IF e \in open THEN s ELSE mail[e]]
           /\ Goto(s, IF open = {} THEN "inject" ELSE "deliver")
    /\ UNCHANGED <<teamVars, cursor, lease, batchVars, mailRows, rootReady, after, listed, sawDelivered, faults>>

Held(s) == {e \in Seqs : mail[e] = s}

(* deliverRootMailbox: a row for each message, until Root turns out not to accept one;
   then the claim is given back. *)
DeliverMailbox(s) ==
    /\ At(s, "deliver")
    /\ IF rootReady
       THEN /\ mailRows' = mailRows \cup Held(s) /\ Goto(s, "acknowledge")
            /\ UNCHANGED mail
       ELSE /\ \E D \in SUBSET Held(s) : mailRows' = mailRows \cup D
            /\ mail' = [e \in Seqs |-> IF mail[e] = s THEN "pending" ELSE mail[e]]
            /\ Goto(s, "inject")
    /\ UNCHANGED <<teamVars, cursor, lease, batchVars, rootReady, after, listed, sawDelivered, faults>>

AcknowledgeMailbox(s) ==
    /\ At(s, "acknowledge") /\ Goto(s, "inject")
    /\ mail' = [e \in Seqs |-> IF mail[e] = s THEN "acknowledged" ELSE mail[e]]
    /\ UNCHANGED <<teamVars, cursor, lease, batchVars, mailRows, rootReady, after, listed, sawDelivered, faults>>

MailboxSettled(a) == \A e \in batch[a] : eventKind[e] = "message" => mail[e] = "acknowledged"
Routine(a)        == {e \in batch[a] : eventKind[e] = "routine"}

(* The delivery key of a batch: enqueueMessage keeps the first row of a key. *)
EnqueuesAlways(a) == TRUE
Enqueues(a) == digests[a] = 0

(* wakeRootWithUpdate: the digest is enqueued whether or not Root accepts it, but the
   batch is delivered only when a run takes it. *)
InjectDigest(s) ==
    LET a == after[s]
    IN  /\ At(s, "inject")
        /\ IF ~MailboxSettled(a)
           THEN Goto(s, "release") /\ UNCHANGED digests
           ELSE IF sawDelivered[s] \/ Routine(a) = {}
           THEN Goto(s, "mark") /\ UNCHANGED digests
           ELSE /\ digests' = IF Enqueues(a) THEN [digests EXCEPT ![a] = @ + 1] ELSE digests
                /\ Goto(s, IF rootReady THEN "mark" ELSE "release")
        /\ UNCHANGED <<teamVars, cursor, lease, batch, delivered, mailVars, rootReady, after, listed,
                       sawDelivered, faults>>

MarkDelivered(s) ==
    /\ At(s, "mark") /\ Goto(s, "advance")
    /\ delivered' = delivered \cup {after[s]}
    /\ UNCHANGED <<teamVars, cursor, lease, batch, digests, mailVars, rootReady, after, listed,
                   sawDelivered, faults>>

(* advanceSupervisionCursor: to the end of the batch, forward, under the lease. *)
AdvanceCursor(s) ==
    LET through == Max(batch[after[s]])
    IN  /\ At(s, "advance") /\ Goto(s, "release")
        /\ cursor' = IF lease = s /\ cursor < through THEN through ELSE cursor
        /\ UNCHANGED <<teamVars, lease, batchVars, mailVars, rootReady, after, listed, sawDelivered, faults>>

ReleaseSupervisionLease(s) ==
    /\ At(s, "release") /\ Goto(s, "idle")
    /\ lease' = IF lease = s THEN NoSweep ELSE lease
    /\ after' = [after EXCEPT ![s] = 0] /\ listed' = [listed EXCEPT ![s] = {}]
    /\ sawDelivered' = [sawDelivered EXCEPT ![s] = FALSE]
    /\ UNCHANGED <<teamVars, cursor, batchVars, mailVars, rootReady, faults>>

-----------------------------------------------------------------------------
(* Faults. *)

Fault == faults < MaxSupervisionFaults /\ faults' = faults + 1

(* A sweep dies: its lease expires, its claim on the mailbox becomes stale. *)
SweepDies(s) ==
    /\ ~At(s, "idle") /\ Fault /\ Goto(s, "idle")
    /\ lease' = IF lease = s THEN NoSweep ELSE lease
    /\ mail' = [e \in Seqs |-> IF mail[e] = s THEN "stale" ELSE mail[e]]
    /\ after' = [after EXCEPT ![s] = 0] /\ listed' = [listed EXCEPT ![s] = {}]
    /\ sawDelivered' = [sawDelivered EXCEPT ![s] = FALSE]
    /\ UNCHANGED <<teamVars, cursor, batchVars, mailRows, rootReady>>

(* The lease, and perhaps the claim, of a sweep that goes on expires. *)
SweepLapses(s) ==
    /\ lease = s /\ Fault
    /\ lease' = NoSweep
    /\ \E stale \in BOOLEAN :
          mail' = [e \in Seqs |-> IF stale /\ mail[e] = s THEN "stale" ELSE mail[e]]
    /\ UNCHANGED <<teamVars, cursor, batchVars, mailRows, rootReady, sweepVars>>

-----------------------------------------------------------------------------
SupervisionNext ==
    \/ \E k \in {"routine", "message", "silent"} : TakeSeq(k)
    \/ \E e \in Seqs : InsertEvent(e)
    \/ RootChanges
    \/ \E s \in Sweeps :
          \/ ClaimSupervisionLease(s) \/ ListEvents(s) \/ FreezeBatch(s)
          \/ ClaimMailbox(s) \/ DeliverMailbox(s) \/ AcknowledgeMailbox(s)
          \/ InjectDigest(s) \/ MarkDelivered(s) \/ AdvanceCursor(s) \/ ReleaseSupervisionLease(s)
          \/ SweepDies(s) \/ SweepLapses(s)

SupervisionSpec == SupervisionInit /\ [][SupervisionNext]_supervisionVars

-----------------------------------------------------------------------------
(* No event is told to Root twice, although the digest is enqueued before the batch is
   marked and the cursor moves, and a sweep that lost its lease still injects. *)
EventOnce ==
    \A e \in Seqs : \A a, b \in Afters :
        e \in Routine(a) \cap Routine(b) => IF a = b THEN digests[a] <= 1 ELSE digests[a] + digests[b] <= 1

(* The cursor does not pass an event Root has not been told of: a routine event is in a
   digest that was enqueued, a message has a row of its own.  An event that came into the
   log after a sweep had listed a later one is the exception. *)
PassedEventsDelivered ==
    \A e \in inserted \ late : e <= cursor =>
        /\ eventKind[e] = "routine" => \E a \in Afters : e \in batch[a] /\ digests[a] > 0
        /\ eventKind[e] = "message" => e \in mailRows

(* Root is told of every event the cursor has passed, and of none twice. *)
ToldExactlyOnce == EventOnce /\ PassedEventsDelivered

(* "Freeze the exact event range": a batch leaves no event of its range out. *)
FrozenRangeExact ==
    \A a \in Afters : batch[a] # {} => \A e \in inserted : e \in (a + 1)..Max(batch[a]) => e \in batch[a]
=============================================================================
