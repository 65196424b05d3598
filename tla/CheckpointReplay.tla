--------------------------- MODULE CheckpointReplay ---------------------------
(* A compaction that a loop does by itself, and the checkpoint it leaves with *)
(* the owner of the context, so that a crash between any two of its writes    *)
(* can be replayed. The owner is a conversation or the session of a team      *)
(* member; they write the same things in another order.                       *)
EXTENDS Integers, SequencesExt

CONSTANTS
    Kinds,            \* owners: "conversation", "session"
    MaxSaved,         \* bound on the turns of the context
    MaxReplacements,  \* bound on the compactions
    MaxReplayCrashes, \* bound on the crashes
    MayForget         \* a conversation may go on with a run that recovers nothing

ASSUME ReplayAssumption == Kinds \subseteq {"conversation", "session"}

VARIABLES
    kind,
    stored,     \* the active context of the owner: what each message stands for
    checkpoint, \* active_compaction of the owner
    epoch,      \* the owner's project context
    live,       \* the messages in the memory of the loop
    liveEpoch,
    fork,       \* the compaction of the loop: the prefix it summarises
    executor,   \* what the process does next
    made,       \* replacements that were made, by number
    applied,    \* those that have been in the stored context
    forgot,     \* a run has gone on without recovering
    noticed,    \* a notice that media were removed was replayed as a summary
    crashed

replayVars == <<kind, stored, checkpoint, epoch, live, liveEpoch, fork, executor, made, applied,
                forgot, noticed, crashed>>

Turns(from, upto, id) == [from |-> from, upto |-> upto, id |-> id, media |-> FALSE]

NoCheckpoint == [status |-> "none"]
NoFork == <<>>

Noted == <<forgot, noticed, crashed>>

(* What a run of an earlier version may have left: a summary without its      *)
(* replacement, or a replacement without its project context.                 *)
LegacyCheckpoints(context) ==
    {[status |-> "summary_ready", prefix |-> context, summary |-> Turns(1, 1, 0),
      replacement |-> r, epoch |-> 0] : r \in {<<>>, <<Turns(1, 1, 1)>>}}

ReplayInit ==
    /\ kind \in Kinds
    /\ stored \in {<<[Turns(1, 1, 0) EXCEPT !.media = m]>> : m \in BOOLEAN}
    /\ checkpoint \in {NoCheckpoint} \union LegacyCheckpoints(stored)
    /\ epoch = 1
    /\ live = <<>> /\ liveEpoch = 0 /\ fork = NoFork
    /\ executor = "down"
    /\ made = 1
    /\ applied = {} /\ forgot = FALSE /\ noticed = FALSE /\ crashed = 0

UpTo(messages) == messages[Len(messages)].upto

-----------------------------------------------------------------------------
(* The process of the run ends anywhere; what it had in memory is gone.       *)
ProcessDies ==
    /\ executor # "down" /\ crashed < MaxReplayCrashes
    /\ crashed' = crashed + 1
    /\ executor' = "down"
    /\ live' = <<>> /\ liveEpoch' = 0 /\ fork' = NoFork
    /\ UNCHANGED <<kind, stored, checkpoint, epoch, made, applied, forgot, noticed>>

LoadContext == live' = stored /\ liveEpoch' = epoch /\ fork' = NoFork

(* A run without a checkpoint; or one of a conversation that was not begun    *)
(* before, which leaves the checkpoint where it is.                           *)
StartPlain ==
    /\ executor = "down"
    /\ \/ checkpoint = NoCheckpoint /\ UNCHANGED forgot
       \/ checkpoint # NoCheckpoint /\ kind = "conversation" /\ MayForget /\ forgot' = TRUE
    /\ LoadContext
    /\ executor' = "loop"
    /\ UNCHANGED <<kind, stored, checkpoint, epoch, made, applied, noticed, crashed>>

(* recoverCompactionCheckpoint: what it makes of the checkpoint.              *)
NeverApplied(c) == FALSE
AlreadyApplied(c) == c.replacement # <<>> /\ stored[1].id = c.replacement[1].id

PrefixStands(c) ==
    /\ Len(c.prefix) <= Len(stored)
    /\ SubSeq(stored, 1, Len(c.prefix)) = c.prefix

Recoverable ==
    /\ checkpoint.status \in {"summary_ready", "merged"}
    /\ AlreadyApplied(checkpoint) \/ PrefixStands(checkpoint)

(* The replacement is made once, and its epoch is the next one; both are kept *)
(* in the checkpoint from then on.                                            *)
UpgradedUnmarked(c) ==
    [c EXCEPT !.epoch = IF @ = 0 THEN epoch + 1 ELSE @,
              !.replacement = IF @ = <<>>
                              THEN <<[c.summary EXCEPT !.id = made + 1]>> ELSE @]
Upgraded(c) ==
    [c EXCEPT !.status = "merged",
              !.epoch = IF @ = 0 THEN epoch + 1 ELSE @,
              !.replacement = IF @ = <<>>
                              THEN <<[c.summary EXCEPT !.id = made + 1]>> ELSE @]

Recover ==
    /\ executor = "down" /\ checkpoint # NoCheckpoint
    /\ IF ~Recoverable
       THEN executor' = "discard" /\ UNCHANGED <<checkpoint, made>>
       ELSE /\ executor' = "recovered"
            /\ checkpoint' = Upgraded(checkpoint)
            /\ made' = IF checkpoint.replacement = <<>> THEN made + 1 ELSE made
    /\ UNCHANGED <<kind, stored, epoch, live, liveEpoch, fork, applied, Noted>>

RecoverEpoch ==
    /\ executor = "recovered"
    /\ epoch' = checkpoint.epoch
    /\ executor' = "swapping"
    /\ UNCHANGED <<kind, stored, checkpoint, live, liveEpoch, fork, made, applied, Noted>>

(* The context with the replacement in the place of the prefix.               *)
Replayed ==
    IF AlreadyApplied(checkpoint) THEN stored
    ELSE checkpoint.replacement \o SubSeq(stored, Len(checkpoint.prefix) + 1, Len(stored))

Applied(messages) == applied \union ({messages[1].id} \ {0})

RecoverContext ==
    /\ executor = "swapping"
    /\ stored' = Replayed
    /\ applied' = Applied(Replayed)
    /\ noticed' = (noticed \/ \E i \in DOMAIN Replayed : Replayed[i].upto = 0)
    /\ executor' = "discard"
    /\ UNCHANGED <<kind, checkpoint, epoch, live, liveEpoch, fork, made, forgot, crashed>>

Discard ==
    /\ executor = "discard"
    /\ checkpoint' = NoCheckpoint
    /\ LoadContext
    /\ executor' = "loop"
    /\ UNCHANGED <<kind, stored, epoch, made, applied, Noted>>

-----------------------------------------------------------------------------
(* The loop: a turn is appended to the stored context as it stands.           *)
SaveTurn ==
    /\ executor \in {"loop", "forked"} /\ UpTo(live) < MaxSaved
    /\ \E media \in BOOLEAN :
         LET turn == [Turns(UpTo(live) + 1, UpTo(live) + 1, 0) EXCEPT !.media = media]
         IN  live' = Append(live, turn) /\ stored' = Append(stored, turn)
    /\ UNCHANGED <<kind, checkpoint, epoch, liveEpoch, fork, executor, made, applied, Noted>>

Begun(prefix) == [status |-> "started", prefix |-> prefix]

Ready(prefix, summary) ==
    [status |-> "summary_ready", prefix |-> prefix, summary |-> summary,
     replacement |-> <<>>, epoch |-> 0]

(* A fork of the messages as they are, or a compaction in the foreground.     *)
StartCompaction ==
    /\ executor = "loop" /\ made < MaxReplacements
    /\ checkpoint' = Begun(live)
    /\ fork' = live
    /\ executor' \in {"forked", "foreground"}
    /\ UNCHANGED <<kind, stored, epoch, live, liveEpoch, made, applied, Noted>>

Summary(prefix) == Turns(1, UpTo(prefix), 0)

SummaryDone ==
    /\ executor \in {"forked", "foreground"} /\ checkpoint.status = "started"
    /\ checkpoint' = Ready(fork, Summary(fork))
    /\ UNCHANGED <<kind, stored, epoch, live, liveEpoch, fork, executor, made, applied, Noted>>

(* The media alone go; what is noted as the summary says no more than that.   *)
Notice == Turns(0, 0, 0)

StripDone ==
    /\ executor = "foreground" /\ checkpoint.status = "started"
    /\ \E i \in DOMAIN live : live[i].media
    /\ checkpoint' = Ready(fork, Notice)
    /\ UNCHANGED <<kind, stored, epoch, live, liveEpoch, fork, executor, made, applied, Noted>>

(* The summary fails, or the fork is given up or left to a durable job.       *)
GiveUp ==
    /\ executor \in {"forked", "foreground"}
    /\ checkpoint' = NoCheckpoint
    /\ fork' = NoFork
    /\ executor' = "loop"
    /\ UNCHANGED <<kind, stored, epoch, live, liveEpoch, made, applied, Noted>>

(* The merge: the memory first, then the checkpoint that can replay it.       *)
Merge ==
    /\ executor \in {"forked", "foreground"} /\ checkpoint.status = "summary_ready"
    /\ checkpoint.summary # Notice
    /\ LET replacement == [checkpoint.summary EXCEPT !.id = made + 1]
       IN  /\ live' = <<replacement>> \o SubSeq(live, Len(fork) + 1, Len(live))
           /\ checkpoint' = [checkpoint EXCEPT !.status = "merged", !.epoch = liveEpoch + 1,
                                               !.replacement = <<replacement>>]
    /\ liveEpoch' = liveEpoch + 1
    /\ made' = made + 1
    /\ fork' = NoFork
    /\ executor' = IF kind = "conversation" THEN "writeEpoch" ELSE "writeContext"
    /\ UNCHANGED <<kind, stored, epoch, applied, Noted>>

MergeStripped ==
    /\ executor = "foreground" /\ checkpoint.status = "summary_ready"
    /\ checkpoint.summary = Notice
    /\ live' = [i \in DOMAIN live |-> [live[i] EXCEPT !.media = FALSE]]
    /\ checkpoint' = [checkpoint EXCEPT !.status = "merged"]
    /\ fork' = NoFork
    /\ executor' = "writeContext"
    /\ UNCHANGED <<kind, stored, epoch, liveEpoch, made, applied, Noted>>

WriteEpoch ==
    /\ executor = "writeEpoch"
    /\ epoch' = checkpoint.epoch
    /\ executor' = IF kind = "conversation" THEN "writeContext" ELSE "clear"
    /\ UNCHANGED <<kind, stored, checkpoint, live, liveEpoch, fork, made, applied, Noted>>

WriteContext ==
    /\ executor = "writeContext"
    /\ stored' = live
    /\ applied' = Applied(live)
    /\ executor' = IF kind = "session" /\ checkpoint.epoch # 0 THEN "writeEpoch" ELSE "clear"
    /\ UNCHANGED <<kind, checkpoint, epoch, live, liveEpoch, fork, made, Noted>>

ClearCheckpoint ==
    /\ executor = "clear"
    /\ checkpoint' = NoCheckpoint
    /\ executor' = "loop"
    /\ UNCHANGED <<kind, stored, epoch, live, liveEpoch, fork, made, applied, Noted>>

(* The end of a run writes the context once more.                             *)
EndLoop ==
    /\ executor = "loop"
    /\ stored' = live
    /\ executor' = "down"
    /\ live' = <<>> /\ liveEpoch' = 0 /\ fork' = NoFork
    /\ UNCHANGED <<kind, checkpoint, epoch, made, applied, Noted>>

ReplayNext ==
    \/ ProcessDies \/ StartPlain \/ Recover \/ RecoverEpoch \/ RecoverContext \/ Discard
    \/ SaveTurn \/ StartCompaction \/ SummaryDone \/ StripDone \/ GiveUp
    \/ Merge \/ MergeStripped \/ WriteEpoch \/ WriteContext \/ ClearCheckpoint \/ EndLoop

ReplaySpec == ReplayInit /\ [][ReplayNext]_replayVars

-----------------------------------------------------------------------------
ReplayTypeOK ==
    /\ checkpoint.status \in {"none", "started", "summary_ready", "merged"}
    /\ executor \in {"down", "recovered", "swapping", "discard", "loop", "forked", "foreground",
                     "writeEpoch", "writeContext", "clear"}
    /\ executor \in {"recovered", "swapping"} =>
          checkpoint.status = "merged" /\ checkpoint.replacement # <<>>
    /\ applied \subseteq 1..made

(* Wherever a process ends, the context that the next one works on stands for *)
(* every turn, once and in their order. This fails: a compaction that did     *)
(* with removing media notes no more than that, and the replay of its         *)
(* checkpoint puts the notice in the place of the whole prefix.               *)
ReplayKeepsTurns ==
    /\ stored[1].from = 1
    /\ \A i \in 1..Len(stored) - 1 : stored[i + 1].from = stored[i].upto + 1

(* Between two compactions the project context is as many epochs on as there  *)
(* were replacements, however often each of them was replayed.                *)
EpochPerReplacement ==
    executor = "loop" /\ checkpoint = NoCheckpoint /\ ~forgot =>
       /\ epoch = 1 + Cardinality(applied)
       /\ liveEpoch = epoch /\ live = stored

(* Apart from such a notice, every replay is exact.                           *)
ReplayExact ==
    /\ ~noticed => ReplayKeepsTurns
    /\ EpochPerReplacement
=============================================================================
