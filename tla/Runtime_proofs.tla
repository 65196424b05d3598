--------------------------- MODULE Runtime_proofs ---------------------------
(***************************************************************************)
(* Proofs about what surrounds one run: the checkpoint of a compaction and *)
(* its replay (CheckpointReplay), the silent compaction of a loop          *)
(* (BackgroundCompaction), the operator's repair command (OperatorRepair)  *)
(* and the prefix it selects (RepairPrefix).  Each has an inductive        *)
(* invariant of its own (RInv, LInv, RepairInv, PrefixInv); a part of a    *)
(* step that only computes is a lemma about the operator that computes it. *)
(* Messages, sizes, operators and histories are any that the assumptions   *)
(* on the constants allow.  The theorems on RuntimeSpec follow from those  *)
(* on the four components, for they share no state.                        *)
(***************************************************************************)
EXTENDS MCRuntime, SequenceTheorems, FiniteSetTheorems, WellFoundedInduction, TLAPS

-----------------------------------------------------------------------------
(* Sequences of messages, each of which stands for the turns from one to another. *)

(* Every turn is stood for once, in the order of the turns. *)
Covering(s) ==
    /\ s[1].from = 1
    /\ \A i \in 1..Len(s) - 1 : s[i + 1].from = s[i].upto + 1

Starts(p, s) == Len(p) <= Len(s) /\ \A i \in 1..Len(p) : s[i] = p[i]

(* What is left of a sequence whose first n elements give way to one. *)
LEMMA SplicedSeq ==
  ASSUME NEW S, NEW s \in Seq(S), NEW r \in S, NEW n \in Nat, n <= Len(s)
  PROVE  LET t == <<r>> \o SubSeq(s, n + 1, Len(s))
         IN  /\ t \in Seq(S) /\ t # <<>>
             /\ Len(t) = Len(s) - n + 1
             /\ t[1] = r
             /\ \A i \in 2..Len(t) : t[i] = s[n + i - 1]
<1> DEFINE rest == SubSeq(s, n + 1, Len(s))
           t == <<r>> \o rest
<1>1. Len(s) \in Nat /\ \A i \in n + 1..Len(s) : s[i] \in S
  BY ElementOfSeq, LenProperties
<1>2. /\ rest \in Seq(S)
      /\ Len(rest) = Len(s) - n
      /\ \A i \in 1..Len(s) - (n + 1) + 1 : rest[i] = s[n + 1 + i - 1]
  BY <1>1, SubSeqProperties
<1>3. <<r>> \in Seq(S) /\ Len(<<r>>) = 1 /\ <<r>>[1] = r
  OBVIOUS
<1>4. /\ t \in Seq(S)
      /\ Len(t) = Len(<<r>>) + Len(rest)
      /\ \A i \in 1..Len(<<r>>) + Len(rest) :
            t[i] = IF i <= Len(<<r>>) THEN <<r>>[i] ELSE rest[i - Len(<<r>>)]
  BY <1>2, <1>3, ConcatProperties
<1> HIDE DEF rest, t
<1>5. Len(t) = Len(s) - n + 1 /\ t[1] = r
  BY <1>1, <1>2, <1>3, <1>4
<1>6. ASSUME NEW i \in 2..Len(t) PROVE t[i] = s[n + i - 1]
  <2>1. t[i] = rest[i - 1] /\ i - 1 \in 1..Len(s) - n
    BY <1>1, <1>2, <1>3, <1>4, <1>5
  <2>2. i - 1 \in 1..Len(s) - (n + 1) + 1
    BY <1>1, <2>1
  <2>3. rest[i - 1] = s[n + 1 + (i - 1) - 1]
    BY <1>2, <2>2
  <2>4. n + 1 + (i - 1) - 1 = n + i - 1
    OBVIOUS
  <2> QED
    BY <2>1, <2>3, <2>4
<1>7. t # <<>>
  BY <1>1, <1>5
<1> QED
  BY <1>4, <1>5, <1>6, <1>7 DEF t, rest

(* A message that stands for the turns of the first n in their place. *)
LEMMA SplicedCovers ==
  ASSUME NEW S, NEW s \in Seq(S), NEW r \in S, NEW n \in 1..Len(s), Covering(s),
         r.from = 1, r.upto = s[n].upto
  PROVE  Covering(<<r>> \o SubSeq(s, n + 1, Len(s)))
<1> DEFINE t == <<r>> \o SubSeq(s, n + 1, Len(s))
<1>1. Len(s) \in Nat /\ n \in Nat /\ n <= Len(s)
  BY LenProperties
<1>2. /\ Len(t) = Len(s) - n + 1 /\ t[1] = r
      /\ \A i \in 2..Len(t) : t[i] = s[n + i - 1]
  BY <1>1, SplicedSeq
<1> HIDE DEF t
<1>3. ASSUME NEW i \in 1..Len(t) - 1 PROVE t[i + 1].from = t[i].upto + 1
  <2>1. t[i + 1] = s[n + i] /\ n + i - 1 \in 1..Len(s) - 1 /\ (n + i - 1) + 1 = n + i
    <3>1. i + 1 \in 2..Len(t) /\ n + (i + 1) - 1 = n + i
      BY <1>1, <1>2
    <3> QED
      BY <1>1, <1>2, <3>1
  <2>2. s[n + i].from = s[n + i - 1].upto + 1
    BY <2>1 DEF Covering
  <2>3. t[i].upto = s[n + i - 1].upto
    <3>1. CASE i = 1
      BY <1>1, <1>2, <3>1
    <3>2. CASE i # 1
      BY <1>1, <1>2, <3>2
    <3> QED
      BY <3>1, <3>2
  <2> QED
    BY <2>1, <2>2, <2>3
<1> QED
  BY <1>2, <1>3 DEF Covering, t

LEMMA AppendedCovers ==
  ASSUME NEW S, NEW s \in Seq(S), s # <<>>, NEW e \in S, Covering(s),
         e.from = s[Len(s)].upto + 1
  PROVE  Covering(Append(s, e))
<1>1. Len(s) \in Nat \ {0}
  BY EmptySeq, LenProperties
<1>2. /\ Len(Append(s, e)) = Len(s) + 1
      /\ \A i \in 1..Len(s) : Append(s, e)[i] = s[i]
      /\ Append(s, e)[Len(s) + 1] = e
  BY AppendProperties
<1>3. ASSUME NEW i \in 1..Len(s)
      PROVE  Append(s, e)[i + 1].from = Append(s, e)[i].upto + 1
  <2>1. CASE i = Len(s)
    BY <1>1, <1>2, <2>1
  <2>2. CASE i # Len(s)
    <3>1. i \in 1..Len(s) - 1 /\ i + 1 \in 1..Len(s)
      BY <1>1, <2>2
    <3> QED
      BY <1>2, <3>1 DEF Covering
  <2> QED
    BY <2>1, <2>2
<1> QED
  BY <1>1, <1>2, <1>3 DEF Covering

(* The same turns, whatever else has become of the messages. *)
LEMMA SameTurnsCover ==
  ASSUME NEW S, NEW s \in Seq(S), s # <<>>, NEW t, Len(t) = Len(s), Covering(s),
         \A i \in 1..Len(s) : t[i].from = s[i].from /\ t[i].upto = s[i].upto
  PROVE  Covering(t)
<1>1. Len(s) \in Nat \ {0}
  BY EmptySeq, LenProperties
<1>2. \A i \in 1..Len(s) - 1 : i \in 1..Len(s) /\ i + 1 \in 1..Len(s)
  BY <1>1
<1> QED
  BY <1>1, <1>2 DEF Covering

LEMMA StartsIsSubSeq ==
  ASSUME NEW S, NEW s \in Seq(S), NEW p \in Seq(S), Len(p) <= Len(s)
  PROVE  SubSeq(s, 1, Len(p)) = p <=> Starts(p, s)
<1>1. Len(s) \in Nat /\ Len(p) \in Nat /\ \A i \in 1..Len(p) : s[i] \in S /\ p[i] \in S
  BY ElementOfSeq, LenProperties
<1>2. /\ SubSeq(s, 1, Len(p)) \in Seq(S)
      /\ Len(SubSeq(s, 1, Len(p))) = Len(p)
      /\ \A i \in 1..Len(p) - 1 + 1 : SubSeq(s, 1, Len(p))[i] = s[1 + i - 1]
  BY <1>1, SubSeqProperties
<1>3. \A i \in 1..Len(p) : SubSeq(s, 1, Len(p))[i] = s[i]
  <2>1. \A i \in 1..Len(p) : i \in 1..Len(p) - 1 + 1 /\ 1 + i - 1 = i
    BY <1>1
  <2> QED
    BY <1>2, <2>1
<1>4. ASSUME Starts(p, s) PROVE SubSeq(s, 1, Len(p)) = p
  BY <1>2, <1>3, <1>4, SeqEqual DEF Starts
<1> QED
  BY <1>3, <1>4 DEF Starts

LEMMA StartsAppended ==
  ASSUME NEW S, NEW s \in Seq(S), NEW p \in Seq(S), NEW e \in S, Starts(p, s)
  PROVE  Starts(p, Append(s, e))
<1>1. Len(s) \in Nat /\ Len(p) \in Nat
  BY LenProperties
<1>2. Len(Append(s, e)) = Len(s) + 1 /\ \A i \in 1..Len(s) : Append(s, e)[i] = s[i]
  BY AppendProperties
<1>3. \A i \in 1..Len(p) : i \in 1..Len(s)
  BY <1>1 DEF Starts
<1> QED
  BY <1>1, <1>2, <1>3 DEF Starts
-----------------------------------------------------------------------------
(* The replay of a checkpoint. *)

StoredMessage == [from : Nat, upto : Nat, id : Nat, media : BOOLEAN]
Messages      == Seq(StoredMessage)

Checkpoints ==
    {NoCheckpoint}
      \cup [status : {"started"}, prefix : Messages]
      \cup [status : {"summary_ready", "merged"}, prefix : Messages, summary : StoredMessage,
            replacement : Messages, epoch : Nat]

HasSummary == checkpoint.status \in {"summary_ready", "merged"}

(* The replacement and its epoch are in the checkpoint. *)
Pending == checkpoint.status = "merged" /\ checkpoint.replacement # <<>>

ReplacementId == checkpoint.replacement[1].id

Loaded == executor \notin {"down", "recovered", "swapping", "discard"}

TypePart ==
    /\ kind \in Kinds
    /\ stored \in Messages /\ stored # <<>>
    /\ live \in Messages /\ (Loaded <=> live # <<>>)
    /\ fork \in Messages
    /\ checkpoint \in Checkpoints
    /\ epoch \in Nat /\ liveEpoch \in Nat /\ made \in Nat \ {0}
    /\ applied \subseteq 1..made
    /\ forgot \in BOOLEAN /\ noticed \in BOOLEAN
    /\ executor \in {"down", "recovered", "swapping", "discard", "loop", "forked", "foreground",
                     "writeEpoch", "writeContext", "clear"}

(* A checkpoint with a summary is of a prefix, and its replacement is that summary under a
   number of its own. *)
SummaryPart ==
    HasSummary =>
       /\ checkpoint.prefix # <<>>
       /\ checkpoint.summary \in {Notice, Summary(checkpoint.prefix)}
       /\ checkpoint.replacement # <<>> =>
             \E id \in 1..made : checkpoint.replacement = <<[checkpoint.summary EXCEPT !.id = id]>>

(* What the process has in hand: a fork of what it still has in memory, a checkpoint that
   can be replayed, or writes that follow a merge. *)
ForkPart ==
    /\ executor \in {"forked", "foreground"} =>
          /\ fork # <<>> /\ Starts(fork, live)
          /\ \/ checkpoint = Begun(fork)
             \/ checkpoint = Ready(fork, Notice)
             \/ checkpoint = Ready(fork, Summary(fork))
    /\ executor \in {"recovered", "swapping"} =>
          Pending /\ (AlreadyApplied(checkpoint) \/ PrefixStands(checkpoint))
    /\ executor \in {"writeEpoch", "writeContext", "clear"} => HasSummary
    /\ executor = "writeContext" /\ ~Pending =>
          /\ checkpoint.epoch = 0 /\ checkpoint.replacement = <<>>
          /\ liveEpoch = epoch /\ live[1].id = stored[1].id
    /\ executor = "writeEpoch" => Pending
    /\ executor \in {"writeEpoch", "writeContext"} /\ Pending =>
          /\ checkpoint.epoch = liveEpoch /\ checkpoint.epoch # 0
          /\ live[1].id = ReplacementId

(* The memory of the loop is what is stored, except between the writes after a merge. *)
LivePart ==
    /\ executor \in {"loop", "forked", "foreground", "clear"} => live = stored /\ liveEpoch = epoch
    /\ executor = "writeEpoch" /\ kind # "conversation" => live = stored
    /\ executor = "writeContext" /\ kind = "conversation" => liveEpoch = epoch

FirstPart == stored[1].id = 0 \/ stored[1].id \in applied

CoverPart == ~noticed => Covering(stored) /\ (live # <<>> => Covering(live))

(* The epochs: as many as replacements were applied, and while one is pending, that of its
   checkpoint counts it whether it was applied or not. *)
EpochPart ==
    ~forgot =>
       /\ executor = "loop" => checkpoint = NoCheckpoint
       /\ ~Pending =>
             /\ epoch = 1 + Cardinality(applied)
             /\ HasSummary => /\ checkpoint.epoch = 0
                              /\ checkpoint.replacement # <<>> => ReplacementId \notin applied
       /\ Pending =>
             /\ checkpoint.epoch = 1 + Cardinality(applied \cup {ReplacementId})
             /\ AlreadyApplied(checkpoint) \/ PrefixStands(checkpoint)
       /\ \/ executor = "swapping"
          \/ executor = "writeContext" /\ kind = "conversation" /\ Pending
          => epoch = checkpoint.epoch
       /\ executor \in {"discard", "clear"} => epoch = 1 + Cardinality(applied)
       /\ executor = "writeEpoch" /\ kind # "conversation" => ReplacementId \in applied

RInv == TypePart /\ SummaryPart /\ ForkPart /\ LivePart /\ FirstPart /\ CoverPart /\ EpochPart

-----------------------------------------------------------------------------
LEMMA AppliedCounted ==
  ASSUME TypePart
  PROVE  /\ IsFiniteSet(applied) /\ Cardinality(applied) \in Nat
         /\ \A x : Cardinality(applied \cup {x})
                     = IF x \in applied THEN Cardinality(applied) ELSE Cardinality(applied) + 1
<1>1. IsFiniteSet(1..made)
  BY FS_Interval DEF TypePart
<1>2. IsFiniteSet(applied)
  BY <1>1, FS_Subset DEF TypePart
<1> QED
  BY <1>2, FS_AddElement, FS_CardinalityType

LEMMA LastTurn ==
  ASSUME NEW s \in Messages, s # <<>>
  PROVE  /\ Len(s) \in Nat \ {0} /\ s[1] \in StoredMessage /\ s[Len(s)] \in StoredMessage
         /\ UpTo(s) = s[Len(s)].upto /\ UpTo(s) \in Nat
<1>1. Len(s) \in Nat \ {0}
  BY EmptySeq, LenProperties DEF Messages
<1>2. s[1] \in StoredMessage /\ s[Len(s)] \in StoredMessage
  BY <1>1, ElementOfSeq DEF Messages
<1> QED
  BY <1>1, <1>2 DEF UpTo, StoredMessage

LEMMA TurnsTyped ==
  ASSUME NEW from \in Nat, NEW upto \in Nat, NEW id \in Nat
  PROVE  /\ Turns(from, upto, id) \in StoredMessage
         /\ Turns(from, upto, id).from = from /\ Turns(from, upto, id).upto = upto
         /\ Turns(from, upto, id).id = id
BY DEF Turns, StoredMessage

LEMMA MediaTyped ==
  ASSUME NEW r \in StoredMessage, NEW m \in BOOLEAN
  PROVE  LET t == [r EXCEPT !.media = m]
         IN  t \in StoredMessage /\ t.from = r.from /\ t.upto = r.upto /\ t.id = r.id
BY DEF StoredMessage

LEMMA SameMessage ==
  ASSUME NEW a \in StoredMessage, NEW b \in StoredMessage,
         a.from = b.from, a.upto = b.upto, a.id = b.id, a.media = b.media
  PROVE  a = b
BY DEF StoredMessage

LEMMA SingleSeq ==
  ASSUME NEW r \in StoredMessage
  PROVE  <<r>> \in Messages /\ <<r>> # <<>> /\ Len(<<r>>) = 1 /\ <<r>>[1] = r
BY DEF Messages

LEMMA SummaryTyped ==
  ASSUME NEW p \in Messages, p # <<>>
  PROVE  /\ Summary(p) \in StoredMessage /\ Summary(p).from = 1 /\ Summary(p).upto = UpTo(p)
         /\ Summary(p) # Notice
BY LastTurn, TurnsTyped DEF Summary, Notice, Turns

LEMMA NoticeTyped == Notice \in StoredMessage /\ Notice.upto = 0 /\ Notice.from = 0
BY TurnsTyped DEF Notice

(* A message under another number. *)
LEMMA Renumbered ==
  ASSUME NEW r \in StoredMessage, NEW id \in Nat
  PROVE  LET t == <<[r EXCEPT !.id = id]>>
         IN  /\ t \in Messages /\ t # <<>> /\ Len(t) = 1 /\ t[1] \in StoredMessage
             /\ t[1] = [r EXCEPT !.id = id]
             /\ t[1].from = r.from /\ t[1].upto = r.upto /\ t[1].id = id
<1>1. /\ [r EXCEPT !.id = id] \in StoredMessage
      /\ [r EXCEPT !.id = id].from = r.from /\ [r EXCEPT !.id = id].upto = r.upto
      /\ [r EXCEPT !.id = id].id = id
  BY DEF StoredMessage
<1> QED
  BY <1>1, SingleSeq

(* The cases of a checkpoint. *)
LEMMA CheckpointCases ==
  ASSUME TypePart
  PROVE  /\ checkpoint.status \in {"none", "started", "summary_ready", "merged"}
         /\ checkpoint = NoCheckpoint <=> checkpoint.status = "none"
         /\ HasSummary =>
               /\ checkpoint.prefix \in Messages /\ checkpoint.summary \in StoredMessage
               /\ checkpoint.replacement \in Messages /\ checkpoint.epoch \in Nat
               /\ checkpoint \in [status : {"summary_ready", "merged"}, prefix : Messages,
                                  summary : StoredMessage, replacement : Messages, epoch : Nat]
<1>1. CASE checkpoint = NoCheckpoint
  BY <1>1 DEF NoCheckpoint, HasSummary
<1>2. CASE checkpoint \in [status : {"started"}, prefix : Messages]
  BY <1>2 DEF NoCheckpoint, HasSummary
<1>3. CASE checkpoint \in [status : {"summary_ready", "merged"}, prefix : Messages,
                           summary : StoredMessage, replacement : Messages, epoch : Nat]
  BY <1>3 DEF NoCheckpoint, HasSummary
<1> QED
  BY <1>1, <1>2, <1>3 DEF TypePart, Checkpoints

LEMMA ReplacementShape ==
  ASSUME TypePart, SummaryPart, HasSummary, checkpoint.replacement # <<>>
  PROVE  /\ Len(checkpoint.replacement) = 1
         /\ checkpoint.replacement[1] \in StoredMessage
         /\ checkpoint.replacement = <<checkpoint.replacement[1]>>
         /\ ReplacementId \in 1..made
         /\ checkpoint.replacement[1].from = checkpoint.summary.from
         /\ checkpoint.replacement[1].upto = checkpoint.summary.upto
<1>1. PICK id \in 1..made : checkpoint.replacement = <<[checkpoint.summary EXCEPT !.id = id]>>
  BY DEF SummaryPart
<1>2. checkpoint.summary \in StoredMessage /\ id \in Nat
  BY CheckpointCases DEF TypePart
<1> QED
  BY <1>1, <1>2, Renumbered DEF ReplacementId

LEMMA BegunTyped ==
  ASSUME NEW p \in Messages
  PROVE  Begun(p) \in Checkpoints /\ Begun(p).status = "started" /\ Begun(p) # NoCheckpoint
BY DEF Begun, Checkpoints, NoCheckpoint

LEMMA ReadyTyped ==
  ASSUME NEW p \in Messages, NEW r \in StoredMessage
  PROVE  /\ Ready(p, r) \in Checkpoints /\ Ready(p, r).status = "summary_ready"
         /\ Ready(p, r).prefix = p /\ Ready(p, r).summary = r /\ Ready(p, r).epoch = 0
         /\ Ready(p, r).replacement = <<>> /\ Ready(p, r) # NoCheckpoint
         /\ Ready(p, r) \in [status : {"summary_ready", "merged"}, prefix : Messages,
                             summary : StoredMessage, replacement : Messages, epoch : Nat]
<1>1. <<>> \in Messages
  BY EmptySeq DEF Messages
<1> QED
  BY <1>1 DEF Ready, Checkpoints, NoCheckpoint

(* The invariant holds at the start. *)
LEMMA ReplayStarts ==
  ASSUME ReplayInit
  PROVE  RInv
<1>1. PICK m \in BOOLEAN : stored = <<[Turns(1, 1, 0) EXCEPT !.media = m]>>
  BY DEF ReplayInit
<1>2. /\ [Turns(1, 1, 0) EXCEPT !.media = m] \in StoredMessage
      /\ [Turns(1, 1, 0) EXCEPT !.media = m].from = 1
      /\ [Turns(1, 1, 0) EXCEPT !.media = m].upto = 1
      /\ [Turns(1, 1, 0) EXCEPT !.media = m].id = 0
  BY TurnsTyped, MediaTyped
<1>3. stored \in Messages /\ stored # <<>> /\ Len(stored) = 1 /\ stored[1].from = 1 /\ stored[1].upto = 1
      /\ stored[1].id = 0
  BY <1>1, <1>2, SingleSeq
<1>4. <<>> \in Messages
  BY EmptySeq DEF Messages
<1>5. Turns(1, 1, 0) \in StoredMessage /\ <<Turns(1, 1, 1)>> \in Messages
      /\ <<Turns(1, 1, 1)>> # <<>> /\ <<Turns(1, 1, 1)>>[1].id = 1
      /\ Summary(stored) = Turns(1, 1, 0)
      /\ <<Turns(1, 1, 1)>> = <<[Turns(1, 1, 0) EXCEPT !.id = 1]>>
  <2>1. Turns(1, 1, 1) \in StoredMessage /\ Turns(1, 1, 0) \in StoredMessage
        /\ Turns(1, 1, 1).id = 1
    BY TurnsTyped
  <2>3. Turns(1, 1, 1) = [Turns(1, 1, 0) EXCEPT !.id = 1]
    <3>1. Turns(1, 1, 0) = [from |-> 1, upto |-> 1, id |-> 0, media |-> FALSE]
          /\ Turns(1, 1, 1) = [from |-> 1, upto |-> 1, id |-> 1, media |-> FALSE]
      BY DEF Turns
    <3> QED
      BY <2>1, <3>1, SameMessage DEF StoredMessage
  <2>2. Summary(stored) = Turns(1, 1, 0)
    BY <1>3 DEF Summary, UpTo
  <2> QED
    BY <2>1, <2>2, <2>3, SingleSeq
<1>8. /\ kind \in Kinds /\ epoch = 1 /\ live = <<>> /\ liveEpoch = 0 /\ fork = <<>>
      /\ executor = "down" /\ made = 1 /\ applied = {} /\ forgot = FALSE /\ noticed = FALSE
  BY DEF ReplayInit, NoFork
<1>9. /\ live \in Messages /\ fork \in Messages /\ (Loaded <=> live # <<>>)
      /\ applied \subseteq 1..made /\ epoch \in Nat /\ liveEpoch \in Nat /\ made \in Nat \ {0}
      /\ forgot \in BOOLEAN /\ noticed \in BOOLEAN
  <2>1. live \in Messages /\ fork \in Messages
    BY <1>4, <1>8
  <2>2. Loaded <=> live # <<>>
    BY <1>8 DEF Loaded
  <2>3. applied \subseteq 1..made /\ epoch \in Nat /\ liveEpoch \in Nat /\ made \in Nat \ {0}
    BY <1>8
  <2> QED
    BY <1>8, <2>1, <2>2, <2>3
<1>6. CASE checkpoint = NoCheckpoint
  <2>0. checkpoint \in Checkpoints
    BY <1>6 DEF Checkpoints
  <2>1. TypePart
    BY <1>3, <1>8, <1>9, <2>0 DEF TypePart
  <2>2. SummaryPart /\ ForkPart /\ LivePart /\ FirstPart /\ ~Pending /\ ~HasSummary
    BY <1>3, <1>6 DEF ReplayInit, SummaryPart, HasSummary, NoCheckpoint, ForkPart, LivePart,
                      FirstPart, Pending
  <2>3. CoverPart
    BY <1>3 DEF CoverPart, Covering, ReplayInit
  <2>4. EpochPart
    BY <2>2, FS_EmptySet DEF EpochPart, ReplayInit
  <2> QED
    BY <2>1, <2>2, <2>3, <2>4 DEF RInv
<1>7. CASE checkpoint \in LegacyCheckpoints(stored)
  <2>1. PICK r \in {<<>>, <<Turns(1, 1, 1)>>} :
           checkpoint = [status |-> "summary_ready", prefix |-> stored,
                         summary |-> Turns(1, 1, 0), replacement |-> r, epoch |-> 0]
    BY <1>7 DEF LegacyCheckpoints
  <2>2. r \in Messages
    BY <1>4, <1>5
  <2>3. checkpoint \in Checkpoints
    BY <1>3, <1>5, <2>1, <2>2 DEF Checkpoints
  <2>4. TypePart
    BY <1>3, <1>8, <1>9, <2>3 DEF TypePart
  <2>5. SummaryPart
    <3>1. 1 \in 1..made
      BY DEF ReplayInit
    <3> QED
      BY <1>3, <1>5, <2>1, <3>1 DEF SummaryPart
  <2>6. ForkPart /\ LivePart /\ FirstPart /\ ~Pending
    BY <1>3, <2>1 DEF ReplayInit, ForkPart, LivePart, FirstPart, Pending
  <2>7. CoverPart
    BY <1>3 DEF CoverPart, Covering, ReplayInit
  <2>8. EpochPart
    BY <2>1, <2>6, FS_EmptySet DEF EpochPart, ReplayInit, Pending
  <2> QED
    BY <2>4, <2>5, <2>6, <2>7, <2>8 DEF RInv
<1> QED
  BY <1>6, <1>7 DEF ReplayInit

-----------------------------------------------------------------------------
(* The steps of a start. *)

(* What nothing of the checkpoint, the stored context and its epoch changes. *)
KeptStore == UNCHANGED <<kind, stored, checkpoint, epoch, made, applied>>

LEMMA StoreKept ==
  ASSUME KeptStore
  PROVE  /\ Pending' = Pending /\ HasSummary' = HasSummary /\ ReplacementId' = ReplacementId
         /\ AlreadyApplied(checkpoint)' = AlreadyApplied(checkpoint)
         /\ PrefixStands(checkpoint)' = PrefixStands(checkpoint)
         /\ SummaryPart' = SummaryPart /\ FirstPart' = FirstPart
BY DEF KeptStore, Pending, HasSummary, ReplacementId, AlreadyApplied, PrefixStands, SummaryPart,
       FirstPart, Notice, Summary, UpTo

LEMMA NothingInHand == <<>> \in Messages
BY EmptySeq DEF Messages

LEMMA ProcessDiesKeeps ==
  ASSUME RInv, ProcessDies
  PROVE  RInv'
<1> USE DEF RInv
<1>1. /\ KeptStore /\ executor' = "down" /\ live' = <<>> /\ liveEpoch' = 0 /\ fork' = <<>>
      /\ UNCHANGED <<forgot, noticed>>
  BY DEF ProcessDies, KeptStore, NoFork
<1>2. TypePart'
  <2>1. live' \in Messages /\ fork' \in Messages /\ ~Loaded' /\ liveEpoch' \in Nat
    BY <1>1, NothingInHand DEF Loaded
  <2> QED
    BY <1>1, <2>1 DEF TypePart, KeptStore
<1>3. SummaryPart' /\ FirstPart'
  BY <1>1, StoreKept
<1>4. ForkPart' /\ LivePart'
  BY <1>1 DEF ForkPart, LivePart
<1>5. CoverPart'
  BY <1>1 DEF CoverPart, Covering, KeptStore
<1>6. EpochPart'
  BY <1>1, StoreKept DEF EpochPart, KeptStore
<1> QED
  BY <1>2, <1>3, <1>4, <1>5, <1>6

LEMMA StartPlainKeeps ==
  ASSUME RInv, StartPlain
  PROVE  RInv'
<1> USE DEF RInv
<1>1. /\ KeptStore /\ executor = "down" /\ executor' = "loop" /\ live' = stored
      /\ liveEpoch' = epoch /\ fork' = <<>> /\ noticed' = noticed
      /\ forgot' \in BOOLEAN /\ (~forgot' => ~forgot /\ checkpoint = NoCheckpoint)
  BY DEF StartPlain, KeptStore, NoFork, LoadContext, TypePart
<1>2. TypePart'
  <2>1. live' \in Messages /\ fork' \in Messages /\ live' # <<>> /\ liveEpoch' \in Nat
        /\ stored' \in Messages /\ stored' # <<>>
    BY <1>1, NothingInHand DEF TypePart, KeptStore
  <2>2. Loaded'
    BY <1>1 DEF Loaded
  <2> QED
    BY <1>1, <2>1, <2>2 DEF TypePart, KeptStore
<1>3. SummaryPart' /\ FirstPart'
  BY <1>1, StoreKept
<1>4. ForkPart' /\ LivePart'
  BY <1>1 DEF ForkPart, LivePart, KeptStore
<1>5. CoverPart'
  BY <1>1 DEF CoverPart, Covering, KeptStore
<1>6. EpochPart'
  BY <1>1, StoreKept DEF EpochPart, KeptStore
<1> QED
  BY <1>2, <1>3, <1>4, <1>5, <1>6

(* The checkpoint that is replayed: the one that was found, with a replacement and an epoch. *)
LEMMA UpgradedPends ==
  ASSUME TypePart, SummaryPart, HasSummary
  PROVE  LET u == Upgraded(checkpoint)
             id == IF checkpoint.replacement = <<>> THEN made + 1 ELSE ReplacementId
         IN  /\ u \in Checkpoints /\ u.status = "merged"
             /\ u.prefix = checkpoint.prefix /\ u.summary = checkpoint.summary
             /\ u.epoch = IF checkpoint.epoch = 0 THEN epoch + 1 ELSE checkpoint.epoch
             /\ u.replacement = <<[checkpoint.summary EXCEPT !.id = id]>>
             /\ u.replacement # <<>> /\ u.replacement[1].id = id /\ id \in Nat
             /\ checkpoint.replacement # <<>> => u.replacement = checkpoint.replacement
<1> DEFINE u == Upgraded(checkpoint)
           id == IF checkpoint.replacement = <<>> THEN made + 1 ELSE ReplacementId
<1>1. /\ checkpoint \in [status : {"summary_ready", "merged"}, prefix : Messages,
                         summary : StoredMessage, replacement : Messages, epoch : Nat]
      /\ checkpoint.summary \in StoredMessage /\ checkpoint.replacement \in Messages
  BY CheckpointCases
<1>2. id \in Nat /\ (checkpoint.replacement # <<>> =>
                      checkpoint.replacement = <<[checkpoint.summary EXCEPT !.id = id]>>)
  <2>1. CASE checkpoint.replacement = <<>>
    BY <2>1 DEF TypePart
  <2>2. CASE checkpoint.replacement # <<>>
    <3>1. PICK k \in 1..made : checkpoint.replacement = <<[checkpoint.summary EXCEPT !.id = k]>>
      BY <2>2 DEF SummaryPart
    <3>2. k \in Nat
      BY DEF TypePart
    <3>3. checkpoint.replacement[1].id = k
      BY <1>1, <3>1, <3>2, Renumbered
    <3> QED
      BY <2>2, <3>1, <3>2, <3>3 DEF ReplacementId
  <2> QED
    BY <2>1, <2>2
<1> DEFINE r == <<[checkpoint.summary EXCEPT !.id = id]>>
<1>3. r \in Messages /\ r # <<>> /\ r[1].id = id
  BY <1>1, <1>2, Renumbered
<1>4. (IF checkpoint.replacement = <<>> THEN <<[checkpoint.summary EXCEPT !.id = made + 1]>>
       ELSE checkpoint.replacement) = r
  BY <1>2
<1>5. (IF checkpoint.epoch = 0 THEN epoch + 1 ELSE checkpoint.epoch) \in Nat
  BY <1>1 DEF TypePart
<1> HIDE DEF r, id
<1>6. u = [checkpoint EXCEPT !.status = "merged",
                             !.epoch = IF checkpoint.epoch = 0 THEN epoch + 1 ELSE checkpoint.epoch,
                             !.replacement = r]
  BY <1>1, <1>4 DEF Upgraded
<1>7. /\ u \in Checkpoints /\ u.status = "merged"
      /\ u.prefix = checkpoint.prefix /\ u.summary = checkpoint.summary
      /\ u.epoch = IF checkpoint.epoch = 0 THEN epoch + 1 ELSE checkpoint.epoch
      /\ u.replacement = r
  <2> HIDE DEF u
  <2> QED
    BY <1>1, <1>3, <1>5, <1>6 DEF Checkpoints
<1> QED
  BY <1>2, <1>3, <1>7 DEF r, id

LEMMA RecoverKeeps ==
  ASSUME RInv, Recover
  PROVE  RInv'
<1> USE DEF RInv
<1>1. /\ executor = "down" /\ checkpoint # NoCheckpoint
      /\ UNCHANGED <<kind, stored, epoch, live, liveEpoch, fork, applied, forgot, noticed>>
  BY DEF Recover, Noted
<1>2. LivePart' /\ FirstPart' /\ CoverPart' /\ executor' \in {"discard", "recovered"}
  BY <1>1 DEF Recover, LivePart, FirstPart, CoverPart, Covering
<1>3. ~Loaded /\ ~Loaded'
  BY <1>1, <1>2 DEF Loaded
<1>4. CASE ~Recoverable
  <2>1. executor' = "discard" /\ UNCHANGED <<checkpoint, made>>
    BY <1>4 DEF Recover
  <2>2. KeptStore
    BY <1>1, <2>1 DEF KeptStore
  <2>3. TypePart'
    BY <1>1, <1>3, <2>1 DEF TypePart
  <2>4. SummaryPart'
    BY <2>2, StoreKept
  <2>5. ForkPart'
    BY <2>1 DEF ForkPart
  <2>6. EpochPart'
    <3>1. ASSUME ~forgot PROVE ~Pending
      BY <1>4, <3>1 DEF EpochPart, Pending, Recoverable
    <3> QED
      BY <1>1, <2>1, <2>2, <3>1, StoreKept DEF EpochPart
  <2> QED
    BY <1>2, <2>3, <2>4, <2>5, <2>6
<1>5. CASE Recoverable
  <2> DEFINE u == Upgraded(checkpoint)
             id == IF checkpoint.replacement = <<>> THEN made + 1 ELSE ReplacementId
  <2>1. /\ executor' = "recovered" /\ checkpoint' = u
        /\ made' = IF checkpoint.replacement = <<>> THEN made + 1 ELSE made
    BY <1>5 DEF Recover
  <2>2. HasSummary /\ (AlreadyApplied(checkpoint) \/ PrefixStands(checkpoint))
    BY <1>5 DEF Recoverable, HasSummary
  <2>3. /\ u \in Checkpoints /\ u.status = "merged"
        /\ u.prefix = checkpoint.prefix /\ u.summary = checkpoint.summary
        /\ u.epoch = IF checkpoint.epoch = 0 THEN epoch + 1 ELSE checkpoint.epoch
        /\ u.replacement = <<[checkpoint.summary EXCEPT !.id = id]>>
        /\ u.replacement # <<>> /\ u.replacement[1].id = id
        /\ checkpoint.replacement # <<>> => u.replacement = checkpoint.replacement
    BY <2>2, UpgradedPends
  <2>4. id \in 1..made' /\ made \in Nat /\ made' \in Nat \ {0} /\ made <= made'
    BY <2>1, <2>2, ReplacementShape DEF TypePart
  <2> HIDE DEF u, id
  <2>5. Pending' /\ HasSummary' /\ ReplacementId' = id
    BY <2>1, <2>3 DEF Pending, HasSummary, ReplacementId
  <2>6. TypePart'
    <3>1. applied' \subseteq 1..made'
      BY <1>1, <2>4 DEF TypePart
    <3> QED
      BY <1>1, <1>3, <2>1, <2>3, <2>4, <3>1 DEF TypePart
  <2>7. SummaryPart'
    BY <2>1, <2>2, <2>3, <2>4 DEF SummaryPart, Summary, Notice, UpTo
  <2>8. AlreadyApplied(checkpoint)' \/ PrefixStands(checkpoint)'
    BY <1>1, <2>1, <2>2, <2>3 DEF AlreadyApplied, PrefixStands
  <2>9. ForkPart'
    BY <2>1, <2>5, <2>8 DEF ForkPart
  <2>10. EpochPart'
    <3> SUFFICES ASSUME ~forgot PROVE checkpoint'.epoch = 1 + Cardinality(applied \cup {id})
      BY <1>1, <2>1, <2>5, <2>8 DEF EpochPart
    <3>1. Cardinality(applied) \in Nat
          /\ Cardinality(applied \cup {id})
               = IF id \in applied THEN Cardinality(applied) ELSE Cardinality(applied) + 1
      BY AppliedCounted
    <3>2. CASE Pending
      <4>1. checkpoint.epoch = 1 + Cardinality(applied \cup {ReplacementId}) /\ id = ReplacementId
        BY <3>2 DEF EpochPart, Pending, id
      <4>2. checkpoint.epoch # 0
        BY <3>1, <4>1
      <4> QED
        BY <2>1, <2>3, <4>1, <4>2
    <3>3. CASE ~Pending
      <4>1. epoch = 1 + Cardinality(applied) /\ checkpoint.epoch = 0 /\ id \notin applied
        BY <2>2, <3>3 DEF EpochPart, id, TypePart
      <4> QED
        BY <2>1, <2>3, <3>1, <4>1
    <3> QED
      BY <3>2, <3>3
  <2> QED
    BY <1>2, <2>6, <2>7, <2>9, <2>10
<1> QED
  BY <1>4, <1>5

LEMMA RecoverEpochKeeps ==
  ASSUME RInv, RecoverEpoch
  PROVE  RInv'
<1> USE DEF RInv
<1>1. /\ executor = "recovered" /\ executor' = "swapping" /\ epoch' = checkpoint.epoch
      /\ UNCHANGED <<kind, stored, checkpoint, live, liveEpoch, fork, made, applied, forgot, noticed>>
  BY DEF RecoverEpoch, Noted
<1>2. Pending /\ HasSummary /\ (AlreadyApplied(checkpoint) \/ PrefixStands(checkpoint))
  BY <1>1 DEF ForkPart, Pending, HasSummary
<1>3. Pending' /\ HasSummary' /\ ReplacementId' = ReplacementId
      /\ (AlreadyApplied(checkpoint)' \/ PrefixStands(checkpoint)')
  BY <1>1, <1>2 DEF Pending, HasSummary, ReplacementId, AlreadyApplied, PrefixStands
<1>4. TypePart'
  <2>1. checkpoint.epoch \in Nat /\ ~Loaded /\ ~Loaded'
    BY <1>1, <1>2, CheckpointCases DEF Loaded
  <2> QED
    BY <1>1, <2>1 DEF TypePart
<1>5. SummaryPart'
  BY <1>1 DEF SummaryPart, HasSummary, Summary, Notice, UpTo
<1>6. ForkPart' /\ LivePart' /\ FirstPart' /\ CoverPart'
  BY <1>1, <1>3 DEF ForkPart, LivePart, FirstPart, CoverPart, Covering
<1>7. EpochPart'
  BY <1>1, <1>2, <1>3 DEF EpochPart
<1> QED
  BY <1>4, <1>5, <1>6, <1>7

(* The context after the replay begins with the replacement, whether it did before or not,
   and stands for every turn unless a notice has come into it. *)
LEMMA ReplayedContext ==
  ASSUME TypePart, SummaryPart, FirstPart, CoverPart, Pending,
         AlreadyApplied(checkpoint) \/ PrefixStands(checkpoint)
  PROVE  /\ Replayed \in Messages /\ Replayed # <<>>
         /\ Replayed[1].id = ReplacementId
         /\ Applied(Replayed) = applied \cup {ReplacementId}
         /\ ReplacementId \in 1..made
         /\ ~noticed /\ (\A i \in DOMAIN Replayed : Replayed[i].upto # 0) => Covering(Replayed)
<1>1. /\ HasSummary /\ checkpoint.replacement # <<>>
      /\ checkpoint.prefix \in Messages /\ checkpoint.prefix # <<>>
      /\ checkpoint.summary \in {Notice, Summary(checkpoint.prefix)}
  BY CheckpointCases DEF Pending, HasSummary, SummaryPart
<1> DEFINE r == checkpoint.replacement[1]
           n == Len(checkpoint.prefix)
<1>2. /\ r \in StoredMessage /\ checkpoint.replacement = <<r>> /\ ReplacementId \in 1..made
      /\ r.from = checkpoint.summary.from /\ r.upto = checkpoint.summary.upto
  BY <1>1, ReplacementShape
<1>3. ReplacementId # 0 /\ r.id = ReplacementId
  BY <1>2 DEF TypePart, ReplacementId
<1>4. CASE AlreadyApplied(checkpoint)
  <2>1. Replayed = stored /\ stored[1].id = ReplacementId
    BY <1>4 DEF Replayed, AlreadyApplied, ReplacementId
  <2>2. ReplacementId \in applied
    BY <1>3, <2>1 DEF FirstPart
  <2>3. Applied(Replayed) = applied \cup {ReplacementId}
    BY <1>3, <2>1 DEF Applied
  <2> QED
    BY <1>2, <2>1, <2>3 DEF TypePart, CoverPart
<1>5. CASE ~AlreadyApplied(checkpoint)
  <2> DEFINE t == <<r>> \o SubSeq(stored, n + 1, Len(stored))
  <2>1. Replayed = t /\ PrefixStands(checkpoint)
    BY <1>2, <1>5 DEF Replayed
  <2>2. n \in Nat \ {0} /\ n <= Len(stored) /\ Len(stored) \in Nat /\ stored \in Messages
    BY <1>1, <2>1, LastTurn DEF TypePart, PrefixStands
  <2>3. t \in Messages /\ t # <<>> /\ t[1] = r /\ Len(t) = Len(stored) - n + 1
    <3>1. stored \in Seq(StoredMessage)
      BY <2>2 DEF Messages
    <3> HIDE DEF r, n
    <3> QED
      BY <1>2, <2>2, <3>1, SplicedSeq DEF Messages
  <2>4. Applied(t) = applied \cup {ReplacementId}
    BY <1>3, <2>3 DEF Applied
  <2>5. ASSUME ~noticed, \A i \in DOMAIN t : t[i].upto # 0 PROVE Covering(t)
    <3>1. 1 \in DOMAIN t
      BY <2>2, <2>3, LenProperties DEF Messages
    <3>2. r.upto # 0
      BY <2>3, <2>5, <3>1
    <3>3. checkpoint.summary = Summary(checkpoint.prefix)
      BY <1>1, <1>2, <3>2, NoticeTyped
    <3>4. r.from = 1 /\ r.upto = checkpoint.prefix[n].upto
      BY <1>1, <1>2, <3>3, SummaryTyped, LastTurn
    <3>5. stored[n] = checkpoint.prefix[n]
      <4>1. Starts(checkpoint.prefix, stored)
        BY <1>1, <2>1, <2>2, StartsIsSubSeq DEF PrefixStands, Messages
      <4> QED
        BY <2>2, <4>1 DEF Starts
    <3>6. Covering(stored) /\ n \in 1..Len(stored)
      BY <2>2, <2>5 DEF CoverPart
    <3> HIDE DEF r, n
    <3> QED
      BY <1>2, <2>2, <3>4, <3>5, <3>6, SplicedCovers DEF Messages
  <2> HIDE DEF t
  <2> QED
    BY <1>2, <1>3, <2>1, <2>3, <2>4, <2>5
<1> QED
  BY <1>4, <1>5

LEMMA RecoverContextKeeps ==
  ASSUME RInv, RecoverContext
  PROVE  RInv'
<1> USE DEF RInv
<1>1. /\ executor = "swapping" /\ executor' = "discard"
      /\ stored' = Replayed /\ applied' = Applied(Replayed)
      /\ noticed' = (noticed \/ \E i \in DOMAIN Replayed : Replayed[i].upto = 0)
      /\ UNCHANGED <<kind, checkpoint, epoch, live, liveEpoch, fork, made, forgot>>
  BY DEF RecoverContext
<1>2. Pending /\ HasSummary /\ (AlreadyApplied(checkpoint) \/ PrefixStands(checkpoint))
  BY <1>1 DEF ForkPart, Pending, HasSummary
<1>3. /\ Replayed \in Messages /\ Replayed # <<>>
      /\ Replayed[1].id = ReplacementId
      /\ Applied(Replayed) = applied \cup {ReplacementId}
      /\ ReplacementId \in 1..made
      /\ ~noticed /\ (\A i \in DOMAIN Replayed : Replayed[i].upto # 0) => Covering(Replayed)
  BY <1>2, ReplayedContext
<1>4. ~Loaded /\ ~Loaded' /\ live = <<>>
  BY <1>1 DEF Loaded, TypePart
<1>5. TypePart'
  <2>1. applied' \subseteq 1..made' /\ noticed' \in BOOLEAN
    BY <1>1, <1>3 DEF TypePart
  <2> QED
    BY <1>1, <1>3, <1>4, <2>1 DEF TypePart
<1>6. Pending' /\ HasSummary' /\ ReplacementId' = ReplacementId /\ AlreadyApplied(checkpoint)'
  BY <1>1, <1>2, <1>3 DEF Pending, HasSummary, ReplacementId, AlreadyApplied
<1>7. SummaryPart'
  BY <1>1 DEF SummaryPart, HasSummary, Summary, Notice, UpTo
<1>8. ForkPart' /\ LivePart'
  BY <1>1 DEF ForkPart, LivePart
<1>9. FirstPart'
  BY <1>1, <1>3 DEF FirstPart
<1>10. CoverPart'
  <2> SUFFICES ASSUME ~noticed' PROVE Covering(stored)'
    BY <1>1, <1>4 DEF CoverPart
  <2>1. Covering(Replayed)
    BY <1>1, <1>3
  <2> QED
    BY <1>1, <2>1 DEF Covering
<1>11. EpochPart'
  <2> SUFFICES ASSUME ~forgot
               PROVE  /\ checkpoint.epoch = 1 + Cardinality(applied')
                      /\ epoch = 1 + Cardinality(applied') /\ applied' \cup {ReplacementId} = applied'
    BY <1>1, <1>6 DEF EpochPart
  <2>1. applied' = applied \cup {ReplacementId}
    BY <1>1, <1>3
  <2>2. checkpoint.epoch = 1 + Cardinality(applied \cup {ReplacementId}) /\ epoch = checkpoint.epoch
    BY <1>1, <1>2 DEF EpochPart
  <2> QED
    BY <2>1, <2>2
<1> QED
  BY <1>5, <1>7, <1>8, <1>9, <1>10, <1>11

LEMMA NoneTyped ==
  ASSUME checkpoint' = NoCheckpoint
  PROVE  /\ checkpoint' \in Checkpoints /\ ~Pending' /\ ~HasSummary' /\ SummaryPart'
BY DEF Checkpoints, NoCheckpoint, Pending, HasSummary, SummaryPart

LEMMA DiscardKeeps ==
  ASSUME RInv, Discard
  PROVE  RInv'
<1> USE DEF RInv
<1>1. /\ executor = "discard" /\ executor' = "loop" /\ checkpoint' = NoCheckpoint
      /\ live' = stored /\ liveEpoch' = epoch /\ fork' = <<>>
      /\ UNCHANGED <<kind, stored, epoch, made, applied, forgot, noticed>>
  BY DEF Discard, LoadContext, Noted, NoFork
<1>2. TypePart'
  <2>1. Loaded' /\ live' # <<>> /\ live' \in Messages /\ fork' \in Messages
    BY <1>1, NothingInHand DEF Loaded, TypePart
  <2> QED
    BY <1>1, <2>1, NoneTyped DEF TypePart
<1>3. SummaryPart' /\ FirstPart'
  BY <1>1, NoneTyped DEF FirstPart
<1>4. ForkPart' /\ LivePart'
  BY <1>1 DEF ForkPart, LivePart
<1>5. CoverPart'
  BY <1>1 DEF CoverPart, Covering
<1>6. EpochPart'
  BY <1>1, NoneTyped DEF EpochPart
<1> QED
  BY <1>2, <1>3, <1>4, <1>5, <1>6

-----------------------------------------------------------------------------
(* The steps of the loop. *)

Forking == executor \in {"forked", "foreground"}

LEMMA ForkingCheckpoint ==
  ASSUME TypePart, ForkPart, Forking
  PROVE  /\ fork \in Messages /\ fork # <<>> /\ Starts(fork, live)
         /\ ~Pending /\ checkpoint # NoCheckpoint
         /\ HasSummary =>
               /\ checkpoint.status = "summary_ready" /\ checkpoint.replacement = <<>>
               /\ checkpoint.prefix = fork /\ checkpoint.epoch = 0
               /\ checkpoint.summary \in {Notice, Summary(fork)}
         /\ checkpoint \in {Begun(fork), Ready(fork, Notice), Ready(fork, Summary(fork))}
<1>1. /\ fork \in Messages /\ fork # <<>> /\ Starts(fork, live)
      /\ checkpoint \in {Begun(fork), Ready(fork, Notice), Ready(fork, Summary(fork))}
  BY DEF ForkPart, Forking, TypePart
<1>2. CASE checkpoint = Begun(fork)
  BY <1>1, <1>2, BegunTyped DEF Pending, HasSummary
<1>3. CASE checkpoint = Ready(fork, Notice)
  BY <1>1, <1>3, ReadyTyped, NoticeTyped DEF Pending, HasSummary
<1>4. CASE checkpoint = Ready(fork, Summary(fork))
  BY <1>1, <1>4, ReadyTyped, SummaryTyped DEF Pending, HasSummary
<1> QED
  BY <1>1, <1>2, <1>3, <1>4

LEMMA SaveTurnKeeps ==
  ASSUME RInv, SaveTurn
  PROVE  RInv'
<1> USE DEF RInv
<1>1. /\ executor \in {"loop", "forked"} /\ live = stored
      /\ UNCHANGED <<kind, checkpoint, epoch, liveEpoch, fork, executor, made, applied, forgot, noticed>>
  BY DEF SaveTurn, Noted, LivePart
<1>2. PICK m \in BOOLEAN :
         LET turn == [Turns(UpTo(live) + 1, UpTo(live) + 1, 0) EXCEPT !.media = m]
         IN  live' = Append(live, turn) /\ stored' = Append(stored, turn)
  BY DEF SaveTurn
<1> DEFINE turn == [Turns(UpTo(live) + 1, UpTo(live) + 1, 0) EXCEPT !.media = m]
<1>3. stored \in Messages /\ stored # <<>>
  BY DEF TypePart
<1>4. turn \in StoredMessage /\ turn.from = stored[Len(stored)].upto + 1
  <2> DEFINE n == UpTo(live) + 1
  <2>1. n \in Nat /\ n = stored[Len(stored)].upto + 1
    BY <1>1, <1>3, LastTurn
  <2> HIDE DEF n
  <2>2. Turns(n, n, 0) \in StoredMessage /\ Turns(n, n, 0).from = n
    BY <2>1, TurnsTyped
  <2>3. turn = [Turns(n, n, 0) EXCEPT !.media = m]
    BY DEF n
  <2> HIDE DEF turn
  <2> QED
    BY <2>1, <2>2, <2>3, MediaTyped
<1> HIDE DEF turn
<1>5. /\ live' = Append(stored, turn) /\ stored' = Append(stored, turn)
  BY <1>1, <1>2 DEF turn
<1>6. /\ stored' \in Messages /\ stored' # <<>> /\ stored'[1] = stored[1]
  BY <1>3, <1>4, <1>5, LastTurn, AppendProperties DEF Messages
<1>7. TypePart'
  <2>1. Loaded'
    BY <1>1 DEF Loaded
  <2> QED
    BY <1>1, <1>5, <1>6, <2>1 DEF TypePart
<1>8. /\ Pending' = Pending /\ HasSummary' = HasSummary /\ ReplacementId' = ReplacementId
      /\ SummaryPart'
  BY <1>1 DEF Pending, HasSummary, ReplacementId, SummaryPart, Notice, Summary, UpTo
<1>9. ForkPart'
  <2>1. CASE executor = "loop"
    BY <1>1, <2>1 DEF ForkPart
  <2>2. CASE executor = "forked"
    <3>1. Starts(fork, live')
      BY <1>1, <1>3, <1>4, <1>5, <2>2, StartsAppended DEF ForkPart, TypePart, Messages
    <3> QED
      BY <1>1, <2>2, <3>1 DEF ForkPart, Starts, Begun, Ready, Notice, Summary, UpTo
  <2> QED
    BY <1>1, <2>1, <2>2
<1>10. LivePart' /\ FirstPart'
  BY <1>1, <1>5, <1>6 DEF LivePart, FirstPart
<1>11. CoverPart'
  <2> SUFFICES ASSUME ~noticed PROVE Covering(Append(stored, turn))
    BY <1>1, <1>5 DEF CoverPart, Covering
  <2> QED
    BY <1>3, <1>4, AppendedCovers DEF CoverPart, Messages
<1>12. EpochPart'
  <2>1. ASSUME ~forgot PROVE ~Pending
    BY <1>1, <2>1, ForkingCheckpoint DEF EpochPart, Forking, Pending, NoCheckpoint
  <2> QED
    BY <1>1, <1>8, <2>1 DEF EpochPart
<1> QED
  BY <1>7, <1>8, <1>9, <1>10, <1>11, <1>12

LEMMA StartCompactionKeeps ==
  ASSUME RInv, StartCompaction
  PROVE  RInv'
<1> USE DEF RInv
<1>1. /\ executor = "loop" /\ executor' \in {"forked", "foreground"}
      /\ checkpoint' = Begun(live) /\ fork' = live
      /\ UNCHANGED <<kind, stored, epoch, live, liveEpoch, made, applied, forgot, noticed>>
  BY DEF StartCompaction, Noted
<1>2. live \in Messages /\ live # <<>> /\ live = stored /\ liveEpoch = epoch
  BY <1>1 DEF TypePart, Loaded, LivePart
<1>3. checkpoint' \in Checkpoints /\ ~Pending' /\ ~HasSummary'
  BY <1>1, <1>2, BegunTyped DEF Pending, HasSummary
<1>4. TypePart'
  <2>1. Loaded'
    BY <1>1 DEF Loaded
  <2> QED
    BY <1>1, <1>2, <1>3, <2>1 DEF TypePart
<1>5. SummaryPart' /\ FirstPart' /\ CoverPart' /\ LivePart'
  BY <1>1, <1>2, <1>3 DEF SummaryPart, FirstPart, CoverPart, Covering, LivePart
<1>6. ForkPart'
  <2>1. Starts(live, live)
    BY <1>2, LastTurn DEF Starts
  <2> QED
    BY <1>1, <1>2, <2>1 DEF ForkPart, Begun, Starts
<1>7. EpochPart'
  <2>1. ASSUME ~forgot PROVE epoch = 1 + Cardinality(applied)
    BY <1>1, <2>1 DEF EpochPart, Pending, NoCheckpoint
  <2> QED
    BY <1>1, <1>3, <2>1 DEF EpochPart
<1> QED
  BY <1>4, <1>5, <1>6, <1>7

(* Either way a summary is noted. *)
LEMMA NotedKeeps ==
  ASSUME RInv, Forking, NEW r \in {Notice, Summary(fork)}, checkpoint' = Ready(fork, r),
         UNCHANGED <<kind, stored, epoch, live, liveEpoch, fork, executor, made, applied,
                     forgot, noticed>>
  PROVE  RInv'
<1> USE DEF RInv
<1>1. fork \in Messages /\ fork # <<>> /\ Starts(fork, live) /\ ~Pending
  BY ForkingCheckpoint
<1>2. r \in StoredMessage
  BY <1>1, SummaryTyped, NoticeTyped
<1>3. /\ checkpoint' \in Checkpoints /\ HasSummary' /\ ~Pending'
      /\ checkpoint'.prefix = fork /\ checkpoint'.summary = r /\ checkpoint'.epoch = 0
      /\ checkpoint'.replacement = <<>>
  BY <1>1, <1>2, ReadyTyped DEF HasSummary, Pending
<1>4. TypePart'
  BY <1>3 DEF TypePart, Loaded
<1>5. SummaryPart'
  BY <1>1, <1>3 DEF SummaryPart, Notice, Summary, UpTo
<1>6. ForkPart'
  BY <1>1, <1>3 DEF ForkPart, Forking, Starts, Ready, Notice, Summary, UpTo
<1>7. LivePart' /\ FirstPart' /\ CoverPart'
  BY DEF Forking, LivePart, FirstPart, CoverPart, Covering
<1>8. EpochPart'
  BY <1>1, <1>3 DEF Forking, EpochPart
<1> QED
  BY <1>4, <1>5, <1>6, <1>7, <1>8

LEMMA SummaryDoneKeeps ==
  ASSUME RInv, SummaryDone
  PROVE  RInv'
BY NotedKeeps DEF SummaryDone, Forking, Noted

LEMMA StripDoneKeeps ==
  ASSUME RInv, StripDone
  PROVE  RInv'
BY NotedKeeps DEF StripDone, Forking, Noted

LEMMA GiveUpKeeps ==
  ASSUME RInv, GiveUp
  PROVE  RInv'
<1> USE DEF RInv
<1>1. /\ Forking /\ executor' = "loop" /\ checkpoint' = NoCheckpoint /\ fork' = <<>>
      /\ UNCHANGED <<kind, stored, epoch, live, liveEpoch, made, applied, forgot, noticed>>
  BY DEF GiveUp, Noted, NoFork, Forking
<1>2. ~Pending /\ live # <<>> /\ live = stored /\ liveEpoch = epoch
  BY <1>1, ForkingCheckpoint DEF Forking, TypePart, Loaded, LivePart
<1>3. TypePart'
  <2>1. Loaded'
    BY <1>1 DEF Loaded
  <2> QED
    BY <1>1, <1>2, <2>1, NoneTyped, NothingInHand DEF TypePart
<1>4. SummaryPart' /\ FirstPart' /\ CoverPart' /\ LivePart' /\ ForkPart'
  BY <1>1, <1>2, NoneTyped DEF FirstPart, CoverPart, Covering, LivePart, ForkPart
<1>5. EpochPart'
  BY <1>1, <1>2, NoneTyped DEF EpochPart
<1> QED
  BY <1>3, <1>4, <1>5

LEMMA MergeKeeps ==
  ASSUME RInv, Merge
  PROVE  RInv'
<1> USE DEF RInv
<1> DEFINE r == [checkpoint.summary EXCEPT !.id = made + 1]
           spliced == <<r>> \o SubSeq(live, Len(fork) + 1, Len(live))
<1>1. /\ Forking /\ HasSummary /\ checkpoint.summary # Notice
      /\ live' = spliced
      /\ checkpoint' = [checkpoint EXCEPT !.status = "merged", !.epoch = liveEpoch + 1,
                                          !.replacement = <<r>>]
      /\ liveEpoch' = liveEpoch + 1 /\ made' = made + 1 /\ fork' = <<>>
      /\ executor' = IF kind = "conversation" THEN "writeEpoch" ELSE "writeContext"
      /\ UNCHANGED <<kind, stored, epoch, applied, forgot, noticed>>
  BY DEF Merge, Noted, NoFork, Forking, HasSummary
<1>2. /\ fork \in Messages /\ fork # <<>> /\ Starts(fork, live) /\ ~Pending
      /\ checkpoint.prefix = fork /\ checkpoint.summary = Summary(fork)
      /\ live \in Messages /\ live # <<>> /\ live = stored /\ liveEpoch = epoch /\ made \in Nat
      /\ liveEpoch \in Nat
  BY <1>1, ForkingCheckpoint DEF Forking, TypePart, Loaded, LivePart
<1>3. /\ Summary(fork) \in StoredMessage /\ Summary(fork).from = 1
      /\ Summary(fork).upto = UpTo(fork)
  BY <1>2, SummaryTyped
<1>4. /\ <<r>> \in Messages /\ <<r>> # <<>> /\ r \in StoredMessage /\ <<r>>[1] = r
      /\ r.from = 1 /\ r.upto = UpTo(fork) /\ r.id = made + 1
  <2>1. made + 1 \in Nat
    BY <1>2
  <2>2. r = [Summary(fork) EXCEPT !.id = made + 1]
    BY <1>2
  <2> HIDE DEF r
  <2> QED
    BY <1>3, <2>1, <2>2, Renumbered
<1>5. Len(fork) \in Nat \ {0} /\ Len(fork) <= Len(live) /\ Len(live) \in Nat
      /\ UpTo(fork) = live[Len(fork)].upto
  BY <1>2, LastTurn DEF Starts
<1> HIDE DEF r
<1>6. spliced \in Messages /\ spliced # <<>> /\ spliced[1] = r
  <2>1. live \in Seq(StoredMessage)
    BY <1>2 DEF Messages
  <2> QED
    BY <1>4, <1>5, <2>1, SplicedSeq DEF Messages
<1>7. /\ checkpoint' \in Checkpoints /\ HasSummary' /\ Pending'
      /\ checkpoint'.prefix = fork /\ checkpoint'.summary = Summary(fork)
      /\ checkpoint'.epoch = liveEpoch + 1 /\ checkpoint'.replacement = <<r>>
      /\ ReplacementId' = made + 1
  <2>1. checkpoint \in [status : {"summary_ready", "merged"}, prefix : Messages,
                        summary : StoredMessage, replacement : Messages, epoch : Nat]
    BY <1>1, CheckpointCases
  <2>2. liveEpoch + 1 \in Nat
    BY <1>2
  <2>3. /\ checkpoint' \in Checkpoints /\ checkpoint'.status = "merged"
        /\ checkpoint'.prefix = fork /\ checkpoint'.summary = Summary(fork)
        /\ checkpoint'.epoch = liveEpoch + 1 /\ checkpoint'.replacement = <<r>>
    BY <1>1, <1>2, <1>4, <2>1, <2>2 DEF Checkpoints
  <2> QED
    BY <1>4, <2>3 DEF HasSummary, Pending, ReplacementId
<1>8. TypePart'
  <2>1. Loaded' /\ executor' \in {"writeEpoch", "writeContext"}
    BY <1>1 DEF Loaded
  <2>2. applied' \subseteq 1..made' /\ made' \in Nat \ {0} /\ liveEpoch' \in Nat
    BY <1>1, <1>2 DEF TypePart
  <2> HIDE DEF spliced
  <2> QED
    BY <1>1, <1>6, <1>7, <2>1, <2>2, NothingInHand DEF TypePart
<1>9. SummaryPart'
  <2>1. made + 1 \in 1..made' /\ <<r>> = <<[Summary(fork) EXCEPT !.id = made + 1]>>
    BY <1>1, <1>2 DEF r
  <2> QED
    BY <1>2, <1>7, <2>1 DEF SummaryPart, Summary, Notice, UpTo
<1>10. ForkPart'
  <2> HIDE DEF spliced
  <2> QED
    BY <1>1, <1>2, <1>4, <1>6, <1>7 DEF ForkPart
<1>11. LivePart' /\ FirstPart'
  <2>1. kind \in {"conversation", "session"}
    BY ReplayAssumption DEF ReplayAssumption, TypePart
  <2>2. executor' = "writeContext" => kind # "conversation"
    BY <1>1
  <2>3. executor' = "writeEpoch" => kind = "conversation"
    BY <1>1
  <2>4. executor' \in {"writeEpoch", "writeContext"}
    BY <1>1
  <2> QED
    BY <1>1, <2>2, <2>3, <2>4 DEF LivePart, FirstPart
<1>12. CoverPart'
  <2> SUFFICES ASSUME ~noticed PROVE Covering(stored) /\ Covering(spliced)
    BY <1>1 DEF CoverPart, Covering
  <2>1. Covering(live)
    BY <1>2 DEF CoverPart
  <2>2. Len(fork) \in 1..Len(live) /\ live \in Seq(StoredMessage)
    BY <1>2, <1>5 DEF Messages
  <2> QED
    BY <1>2, <1>4, <1>5, <2>1, <2>2, SplicedCovers
<1>13. EpochPart'
  <2> SUFFICES ASSUME ~forgot
               PROVE  /\ liveEpoch + 1 = 1 + Cardinality(applied \cup {made + 1})
                      /\ PrefixStands(checkpoint)'
    <3>1. executor' \in {"writeEpoch", "writeContext"} /\ (executor' = "writeEpoch" => kind = "conversation")
          /\ (executor' = "writeContext" => kind # "conversation")
      BY <1>1
    <3> QED
      BY <1>1, <1>7, <3>1 DEF EpochPart
  <2>1. epoch = 1 + Cardinality(applied)
    BY <1>2 DEF EpochPart
  <2>2. made + 1 \notin applied
    BY <1>2 DEF TypePart
  <2>3. Cardinality(applied \cup {made + 1}) = Cardinality(applied) + 1 /\ Cardinality(applied) \in Nat
    BY <2>2, AppliedCounted
  <2>4. SubSeq(stored, 1, Len(fork)) = fork
    BY <1>2, <1>5, StartsIsSubSeq DEF Messages
  <2> QED
    BY <1>1, <1>2, <1>5, <1>7, <2>1, <2>3, <2>4 DEF PrefixStands
<1> QED
  BY <1>8, <1>9, <1>10, <1>11, <1>12, <1>13

LEMMA MergeStrippedKeeps ==
  ASSUME RInv, MergeStripped
  PROVE  RInv'
<1> USE DEF RInv
<1> DEFINE stripped == [i \in DOMAIN live |-> [live[i] EXCEPT !.media = FALSE]]
<1>1. /\ Forking /\ HasSummary /\ live' = stripped
      /\ checkpoint' = [checkpoint EXCEPT !.status = "merged"]
      /\ executor' = "writeContext" /\ fork' = <<>>
      /\ UNCHANGED <<kind, stored, epoch, liveEpoch, made, applied, forgot, noticed>>
  BY DEF MergeStripped, Noted, NoFork, Forking, HasSummary
<1>2. /\ fork \in Messages /\ fork # <<>> /\ ~Pending
      /\ checkpoint.replacement = <<>> /\ checkpoint.epoch = 0
      /\ checkpoint.prefix = fork /\ checkpoint.summary \in {Notice, Summary(fork)}
      /\ live \in Messages /\ live # <<>> /\ live = stored /\ liveEpoch = epoch
  BY <1>1, ForkingCheckpoint DEF Forking, TypePart, Loaded, LivePart
<1>3. Len(live) \in Nat \ {0} /\ DOMAIN live = 1..Len(live)
      /\ \A i \in 1..Len(live) : live[i] \in StoredMessage
  BY <1>2, LastTurn, LenProperties, ElementOfSeq DEF Messages
<1>4. \A i \in 1..Len(live) :
         /\ stripped[i] \in StoredMessage /\ stripped[i].id = live[i].id
         /\ stripped[i].from = live[i].from /\ stripped[i].upto = live[i].upto
  BY <1>3, MediaTyped
<1>5. stripped \in Messages /\ stripped # <<>> /\ Len(stripped) = Len(live)
  <2>1. stripped \in [1..Len(live) -> StoredMessage]
    <3>1. stripped = [i \in 1..Len(live) |-> [live[i] EXCEPT !.media = FALSE]]
      BY <1>3
    <3>2. \A i \in 1..Len(live) : [live[i] EXCEPT !.media = FALSE] \in StoredMessage
      BY <1>3, MediaTyped
    <3> HIDE DEF stripped
    <3> QED
      BY <3>1, <3>2
  <2>2. stripped \in Seq(StoredMessage)
    BY <1>3, <2>1, SeqDef
  <2>3. DOMAIN stripped = 1..Len(live) /\ DOMAIN stripped = 1..Len(stripped) /\ Len(stripped) \in Nat
    BY <1>3, <2>2, LenProperties
  <2> HIDE DEF stripped
  <2>4. Len(stripped) = Len(live)
    BY <1>3, <2>3
  <2> QED
    BY <1>3, <2>2, <2>4 DEF Messages
<1>6. Len(live) \in Nat /\ 1 \in 1..Len(live)
  BY <1>3
<1> HIDE DEF stripped
<1>7. /\ checkpoint' \in Checkpoints /\ HasSummary' /\ ~Pending'
      /\ checkpoint'.prefix = fork /\ checkpoint'.summary = checkpoint.summary
      /\ checkpoint'.epoch = 0 /\ checkpoint'.replacement = <<>>
  <2>1. checkpoint \in [status : {"summary_ready", "merged"}, prefix : Messages,
                        summary : StoredMessage, replacement : Messages, epoch : Nat]
    BY <1>1, CheckpointCases
  <2>2. /\ checkpoint' \in Checkpoints /\ checkpoint'.status = "merged"
        /\ checkpoint'.prefix = fork /\ checkpoint'.summary = checkpoint.summary
        /\ checkpoint'.epoch = 0 /\ checkpoint'.replacement = <<>>
    BY <1>1, <1>2, <2>1 DEF Checkpoints
  <2> QED
    BY <2>2 DEF HasSummary, Pending
<1>8. TypePart'
  <2>1. Loaded'
    BY <1>1 DEF Loaded
  <2> QED
    BY <1>1, <1>5, <1>7, <2>1, NothingInHand DEF TypePart
<1>9. SummaryPart'
  BY <1>2, <1>7 DEF SummaryPart, Summary, Notice, UpTo
<1>10. ForkPart'
  BY <1>1, <1>2, <1>4, <1>6, <1>7 DEF ForkPart
<1>11. LivePart' /\ FirstPart'
  BY <1>1, <1>2 DEF LivePart, FirstPart
<1>12. CoverPart'
  <2> SUFFICES ASSUME ~noticed PROVE Covering(stored) /\ Covering(stripped)
    BY <1>1 DEF CoverPart, Covering
  <2>1. Covering(live) /\ live \in Seq(StoredMessage)
    BY <1>2 DEF CoverPart, Messages
  <2> QED
    BY <1>2, <1>4, <1>5, <2>1, SameTurnsCover
<1>13. EpochPart'
  BY <1>1, <1>2, <1>7 DEF EpochPart
<1> QED
  BY <1>8, <1>9, <1>10, <1>11, <1>12, <1>13

LEMMA WriteEpochKeeps ==
  ASSUME RInv, WriteEpoch
  PROVE  RInv'
<1> USE DEF RInv
<1>1. /\ executor = "writeEpoch" /\ epoch' = checkpoint.epoch
      /\ executor' = IF kind = "conversation" THEN "writeContext" ELSE "clear"
      /\ UNCHANGED <<kind, stored, checkpoint, live, liveEpoch, fork, made, applied, forgot, noticed>>
  BY DEF WriteEpoch, Noted
<1>2. /\ Pending /\ HasSummary /\ checkpoint.epoch = liveEpoch /\ live[1].id = ReplacementId
      /\ checkpoint.epoch # 0
  BY <1>1 DEF ForkPart, Pending, HasSummary
<1>3. /\ Pending' /\ HasSummary' /\ ReplacementId' = ReplacementId
      /\ AlreadyApplied(checkpoint)' = AlreadyApplied(checkpoint)
      /\ PrefixStands(checkpoint)' = PrefixStands(checkpoint)
      /\ SummaryPart'
  BY <1>1, <1>2 DEF Pending, HasSummary, ReplacementId, AlreadyApplied, PrefixStands, SummaryPart,
                    Summary, Notice, UpTo
<1>4. Loaded /\ Loaded' /\ liveEpoch \in Nat /\ executor' \in {"writeContext", "clear"}
  BY <1>1 DEF Loaded, TypePart
<1>5. TypePart'
  BY <1>1, <1>2, <1>4 DEF TypePart
<1>6. ForkPart' /\ FirstPart' /\ CoverPart'
  BY <1>1, <1>2, <1>3, <1>4 DEF ForkPart, FirstPart, CoverPart, Covering
<1>7. LivePart'
  BY <1>1, <1>2, <1>4 DEF LivePart
<1>8. EpochPart'
  <2>1. ASSUME ~forgot, kind # "conversation" PROVE epoch' = 1 + Cardinality(applied)
    <3>1. ReplacementId \in applied /\ checkpoint.epoch = 1 + Cardinality(applied \cup {ReplacementId})
      BY <1>1, <1>2, <2>1 DEF EpochPart
    <3>2. applied \cup {ReplacementId} = applied
      BY <3>1
    <3> QED
      BY <1>1, <3>1, <3>2
  <2> QED
    BY <1>1, <1>2, <1>3, <1>4, <2>1 DEF EpochPart
<1> QED
  BY <1>3, <1>5, <1>6, <1>7, <1>8

LEMMA WriteContextKeeps ==
  ASSUME RInv, WriteContext
  PROVE  RInv'
<1> USE DEF RInv
<1>1. /\ executor = "writeContext" /\ stored' = live /\ applied' = Applied(live)
      /\ executor' = IF kind = "session" /\ checkpoint.epoch # 0 THEN "writeEpoch" ELSE "clear"
      /\ UNCHANGED <<kind, checkpoint, epoch, live, liveEpoch, fork, made, forgot, noticed>>
  BY DEF WriteContext, Noted
<1>2. HasSummary /\ live \in Messages /\ live # <<>>
  BY <1>1 DEF ForkPart, TypePart, Loaded
<1>3. /\ Pending' = Pending /\ HasSummary' /\ ReplacementId' = ReplacementId /\ SummaryPart'
  BY <1>1, <1>2 DEF Pending, HasSummary, ReplacementId, SummaryPart, Summary, Notice, UpTo
<1>4. Loaded /\ Loaded' /\ executor' \in {"writeEpoch", "clear"}
  BY <1>1 DEF Loaded
<1>5. kind \in {"conversation", "session"}
  BY ReplayAssumption DEF ReplayAssumption, TypePart
<1>6. CASE Pending
  <2>1. /\ checkpoint.epoch = liveEpoch /\ checkpoint.epoch # 0 /\ live[1].id = ReplacementId
        /\ ReplacementId \in 1..made /\ ReplacementId # 0
    BY <1>1, <1>2, <1>6, ReplacementShape DEF ForkPart, Pending, TypePart
  <2>2. applied' = applied \cup {ReplacementId}
    BY <1>1, <2>1 DEF Applied
  <2>3. AlreadyApplied(checkpoint)'
    BY <1>1, <1>6, <2>1 DEF AlreadyApplied, ReplacementId, Pending
  <2>4. TypePart'
    <3>1. applied' \subseteq 1..made'
      BY <1>1, <2>1, <2>2 DEF TypePart
    <3> QED
      BY <1>1, <1>2, <1>4, <3>1 DEF TypePart
  <2>5. ForkPart' /\ FirstPart'
    BY <1>1, <1>3, <1>4, <1>6, <2>1, <2>2 DEF ForkPart, FirstPart
  <2>6. LivePart'
    BY <1>1, <1>4, <1>5, <2>1 DEF LivePart
  <2>7. CoverPart'
    BY <1>1, <1>2 DEF CoverPart, Covering
  <2>8. EpochPart'
    <3>1. applied' \cup {ReplacementId} = applied' /\ ReplacementId \in applied'
      BY <2>2
    <3>2. ASSUME ~forgot PROVE checkpoint.epoch = 1 + Cardinality(applied')
      BY <1>6, <2>2, <3>2 DEF EpochPart
    <3>3. ASSUME ~forgot, kind = "conversation" PROVE epoch = checkpoint.epoch
      BY <1>1, <1>6, <3>3 DEF EpochPart
    <3>4. executor' = "clear" => kind = "conversation"
      BY <1>1, <1>5, <2>1
    <3> QED
      BY <1>1, <1>3, <1>4, <1>6, <2>3, <3>1, <3>2, <3>3, <3>4 DEF EpochPart
  <2> QED
    BY <1>3, <2>4, <2>5, <2>6, <2>7, <2>8
<1>7. CASE ~Pending
  <2>1. /\ checkpoint.epoch = 0 /\ checkpoint.replacement = <<>> /\ liveEpoch = epoch
        /\ live[1].id = stored[1].id /\ executor' = "clear"
    BY <1>1, <1>7 DEF ForkPart
  <2>2. applied' = applied
    BY <1>1, <2>1 DEF Applied, FirstPart
  <2>3. TypePart'
    BY <1>1, <1>2, <1>4, <2>2 DEF TypePart
  <2>4. ForkPart' /\ FirstPart' /\ LivePart'
    BY <1>1, <1>3, <2>1, <2>2 DEF ForkPart, FirstPart, LivePart
  <2>5. CoverPart'
    BY <1>1, <1>2 DEF CoverPart, Covering
  <2>6. EpochPart'
    BY <1>1, <1>2, <1>3, <1>7, <2>1, <2>2 DEF EpochPart
  <2> QED
    BY <1>3, <2>3, <2>4, <2>5, <2>6
<1> QED
  BY <1>6, <1>7

LEMMA ClearCheckpointKeeps ==
  ASSUME RInv, ClearCheckpoint
  PROVE  RInv'
<1> USE DEF RInv
<1>1. /\ executor = "clear" /\ executor' = "loop" /\ checkpoint' = NoCheckpoint
      /\ UNCHANGED <<kind, stored, epoch, live, liveEpoch, fork, made, applied, forgot, noticed>>
  BY DEF ClearCheckpoint, Noted
<1>2. TypePart'
  BY <1>1, NoneTyped DEF TypePart, Loaded
<1>3. SummaryPart' /\ ForkPart' /\ LivePart' /\ FirstPart' /\ CoverPart'
  BY <1>1, NoneTyped DEF ForkPart, LivePart, FirstPart, CoverPart, Covering
<1>4. EpochPart'
  BY <1>1, NoneTyped DEF EpochPart
<1> QED
  BY <1>2, <1>3, <1>4

LEMMA EndLoopKeeps ==
  ASSUME RInv, EndLoop
  PROVE  RInv'
<1> USE DEF RInv
<1>1. /\ executor = "loop" /\ executor' = "down" /\ live' = <<>> /\ liveEpoch' = 0 /\ fork' = <<>>
      /\ KeptStore /\ UNCHANGED <<forgot, noticed>>
  BY DEF EndLoop, Noted, NoFork, KeptStore, LivePart
<1>2. TypePart'
  <2>1. live' \in Messages /\ fork' \in Messages /\ ~Loaded' /\ liveEpoch' \in Nat
    BY <1>1, NothingInHand DEF Loaded
  <2> QED
    BY <1>1, <2>1 DEF TypePart, KeptStore
<1>3. SummaryPart' /\ FirstPart'
  BY <1>1, StoreKept
<1>4. ForkPart' /\ LivePart'
  BY <1>1 DEF ForkPart, LivePart
<1>5. CoverPart'
  BY <1>1 DEF CoverPart, Covering, KeptStore
<1>6. EpochPart'
  BY <1>1, StoreKept DEF EpochPart, KeptStore
<1> QED
  BY <1>2, <1>3, <1>4, <1>5, <1>6

LEMMA ReplayStep ==
  ASSUME RInv, [ReplayNext]_replayVars
  PROVE  RInv'
<1>1. CASE UNCHANGED replayVars
  <2>1. KeptStore /\ UNCHANGED <<live, liveEpoch, fork, executor, forgot, noticed>>
    BY <1>1 DEF replayVars, KeptStore
  <2>2. SummaryPart' = SummaryPart /\ FirstPart' = FirstPart /\ TypePart' = TypePart
    BY <2>1, StoreKept DEF TypePart, KeptStore, Loaded
  <2>3. ForkPart' = ForkPart /\ LivePart' = LivePart /\ CoverPart' = CoverPart /\ EpochPart' = EpochPart
    BY <2>1, StoreKept DEF ForkPart, LivePart, CoverPart, Covering, EpochPart, KeptStore, Starts,
                           Begun, Ready, Summary, Notice, UpTo
  <2> QED
    BY <2>2, <2>3 DEF RInv
<1> QED
  BY <1>1, ProcessDiesKeeps, StartPlainKeeps, RecoverKeeps, RecoverEpochKeeps, RecoverContextKeeps,
     DiscardKeeps, SaveTurnKeeps, StartCompactionKeeps, SummaryDoneKeeps, StripDoneKeeps,
     GiveUpKeeps, MergeKeeps, MergeStrippedKeeps, WriteEpochKeeps, WriteContextKeeps,
     ClearCheckpointKeeps, EndLoopKeeps DEF ReplayNext

LEMMA ReplayInvariant == ReplaySpec => []RInv
BY ReplayStarts, ReplayStep, PTL DEF ReplaySpec

(* Whatever crashes a compaction meets, its checkpoint and the place of the process agree, as
   recoverCompactionCheckpoint and the writes after a merge take for granted. *)
THEOREM ReplayTypeCorrect == ReplaySpec => []ReplayTypeOK
<1>1. RInv => ReplayTypeOK
  BY CheckpointCases DEF RInv, ReplayTypeOK, TypePart, ForkPart, Pending
<1> QED
  BY <1>1, ReplayInvariant, PTL

(* Every replay of a checkpoint is exact: whatever was written before the process ended, the
   context stands for every turn once and in order unless a notice has taken the place of a
   prefix, and the project context counts every replacement once. *)
THEOREM ReplayIsExact == ReplaySpec => []ReplayExact
<1>1. RInv => ReplayExact
  BY DEF RInv, ReplayExact, ReplayKeepsTurns, EpochPerReplacement, CoverPart, Covering, EpochPart,
         LivePart, Pending, NoCheckpoint
<1> QED
  BY <1>1, ReplayInvariant, PTL
-----------------------------------------------------------------------------
(* Least and greatest elements, and sums. *)

(* A non-empty set of naturals has a least element. *)
LEMMA LeastNatural ==
  ASSUME NEW T \in SUBSET Nat, T # {}
  PROVE  \E x \in T : \A y \in T : x <= y
<1> DEFINE Less == OpToRel(<, Nat)
<1>1. \A x, y \in Nat : x < y => <<x, y>> \in Less
  BY DEF OpToRel
<1>2. IsWellFoundedOn(Less, Nat)
  BY NatLessThanWellFounded
<1> HIDE DEF Less
<1>3. PICK x \in T : \A y \in T : <<y, x>> \notin Less
  BY <1>2, WFMin
<1>4. \A y \in T : x <= y
  <2> SUFFICES ASSUME NEW y \in T PROVE x <= y
    OBVIOUS
  <2>1. ~(y < x)
    BY <1>1, <1>3
  <2> QED
    BY <2>1
<1> QED
  BY <1>4

LEMMA MinOfNaturals ==
  ASSUME NEW T \in SUBSET Nat, T # {}
  PROVE  Min(T) \in T /\ \A y \in T : Min(T) <= y
BY LeastNatural DEF Min

LEMMA MinOfTwo ==
  ASSUME NEW a \in Int, NEW b \in Int
  PROVE  Min({a, b}) \in {a, b} /\ Min({a, b}) \in Int /\ Min({a, b}) <= a /\ Min({a, b}) <= b
<1>1. \E x \in {a, b} : \A y \in {a, b} : x <= y
  OBVIOUS
<1>2. Min({a, b}) \in {a, b} /\ \A y \in {a, b} : Min({a, b}) <= y
  BY <1>1 DEF Min
<1> QED
  BY <1>2

LEMMA MaxWithZero ==
  ASSUME NEW a \in Int
  PROVE  Max({0, a}) \in Nat /\ Max({0, a}) >= a
<1>1. \E x \in {0, a} : \A y \in {0, a} : x >= y
  OBVIOUS
<1>2. Max({0, a}) \in {0, a} /\ \A y \in {0, a} : Max({0, a}) >= y
  BY <1>1 DEF Max
<1> QED
  BY <1>2

(* The set that is folded is taken apart from its least element up. *)
LEMMA MinTaken ==
  ASSUME NEW n \in Nat, NEW j \in Nat, NEW s \in SUBSET (j + 1..n), s # {}
  PROVE  Min(s) \in s /\ s \ {Min(s)} \in SUBSET (j + 2..n)
<1>1. s \subseteq Nat
  OBVIOUS
<1>2. Min(s) \in s /\ \A y \in s : Min(s) <= y
  BY <1>1, MinOfNaturals
<1>3. ASSUME NEW y \in s \ {Min(s)} PROVE y \in j + 2..n
  <2>1. y \in j + 1..n /\ Min(s) \in j + 1..n /\ y # Min(s) /\ Min(s) <= y
    BY <1>2
  <2> QED
    BY <2>1
<1> QED
  BY <1>2, <1>3

(* What a fold over the sequence w adds up, by the recursion the fold is defined by. *)
Sums(g, n, w) ==
    g = [s \in SUBSET (1..n) |-> IF s = {} THEN 0 ELSE g[s \ {Min(s)}] + w[Min(s)]]

(* The recursion has a solution: on the sets of the last k indices, for every k. *)
LEMMA SumExists ==
  ASSUME NEW n \in Nat, NEW w
  PROVE  \E g : Sums(g, n, w)
<1> DEFINE Taken(g, s) == IF s = {} THEN 0 ELSE g[s \ {Min(s)}] + w[Min(s)]
           D(k) == SUBSET (n - k + 1..n)
           P(k) == \E g : g = [s \in D(k) |-> Taken(g, s)]
           Bad == {k \in 0..n : ~P(k)}
<1>1. SUFFICES Bad = {}
  <2>1. n \in 0..n
    OBVIOUS
  <2>2. n \notin Bad
    <3> HIDE DEF Bad
    <3> QED
      BY <1>1
  <2>3. P(n)
    <3> HIDE DEF P
    <3> QED
      BY <2>1, <2>2
  <2>4. D(n) = SUBSET (1..n)
    OBVIOUS
  <2> QED
    BY <2>3, <2>4 DEF Sums
<1>2. SUFFICES ASSUME Bad # {} PROVE FALSE
  OBVIOUS
<1>3. PICK k \in Bad : \A y \in Bad : k <= y
  <2>1. Bad \in SUBSET Nat
    OBVIOUS
  <2> HIDE DEF Bad
  <2> QED
    BY <1>2, <2>1, LeastNatural
<1>4. k \in 0..n /\ ~P(k)
  OBVIOUS
<1>5. k # 0
  <2>1. SUFFICES ASSUME k = 0 PROVE FALSE
    OBVIOUS
  <2> DEFINE g == [s \in D(0) |-> 0]
  <2>2. D(0) = {{}}
    OBVIOUS
  <2>3. \A h : [s \in D(0) |-> Taken(h, s)] = g
    BY <2>2
  <2>4. P(0)
    BY <2>3
  <2> QED
    BY <1>4, <2>1, <2>4
<1>6. PICK g : g = [s \in D(k - 1) |-> Taken(g, s)]
  <2>1. k - 1 \in 0..n /\ ~(k <= k - 1)
    BY <1>4, <1>5
  <2>2. k - 1 \notin Bad
    BY <1>3, <2>1
  <2> QED
    BY <2>1, <2>2
<1> DEFINE h == [s \in D(k) |-> Taken(g, s)]
<1>7. ASSUME NEW s \in D(k), s # {}
      PROVE  s \ {Min(s)} \in D(k - 1)
  <2>1. n - k \in Nat /\ n - k + 1 + 1 = n - (k - 1) + 1 /\ n - k + 2 = n - (k - 1) + 1
    BY <1>4
  <2>2. s \ {Min(s)} \in SUBSET (n - k + 2..n)
    BY <1>7, <2>1, MinTaken
  <2> QED
    BY <2>1, <2>2
<1>8. D(k - 1) \subseteq D(k)
  <2>1. n - (k - 1) + 1..n \subseteq n - k + 1..n
    BY <1>4
  <2> QED
    BY <2>1
<1> HIDE DEF Taken, D
<1>9. ASSUME NEW s \in D(k - 1) PROVE h[s] = g[s]
  BY <1>6, <1>8
<1>10. h = [s \in D(k) |-> Taken(g, s)]
  OBVIOUS
<1> HIDE DEF h
<1>11. ASSUME NEW s \in D(k) PROVE Taken(h, s) = Taken(g, s)
  <2>1. CASE s = {}
    BY <2>1 DEF Taken
  <2>2. CASE s # {}
    <3>1. h[s \ {Min(s)}] = g[s \ {Min(s)}]
      BY <1>7, <1>9, <2>2
    <3> QED
      BY <2>2, <3>1 DEF Taken
  <2> QED
    BY <2>1, <2>2
<1>12. h = [s \in D(k) |-> Taken(h, s)]
  BY <1>10, <1>11
<1>13. P(k)
  BY <1>12
<1> QED
  BY <1>4, <1>13

(* What is an integer at the end of a fold, and stays one from step to step, is one. *)
LEMMA FoldTyped ==
  ASSUME NEW n \in Nat, NEW g, g[{}] \in Int,
         \A s \in SUBSET (1..n) : s # {} /\ g[s \ {Min(s)}] \in Int => g[s] \in Int
  PROVE  \A s \in SUBSET (1..n) : g[s] \in Int
<1> DEFINE D(k) == SUBSET (n - k + 1..n)
           P(k) == \A s \in D(k) : g[s] \in Int
           Bad == {k \in 0..n : ~P(k)}
<1>1. SUFFICES Bad = {}
  <2>1. n \in 0..n
    OBVIOUS
  <2>2. n \notin Bad
    <3> HIDE DEF Bad
    <3> QED
      BY <1>1
  <2>3. P(n)
    <3> HIDE DEF P
    <3> QED
      BY <2>1, <2>2
  <2>4. D(n) = SUBSET (1..n)
    OBVIOUS
  <2> QED
    BY <2>3, <2>4
<1>2. SUFFICES ASSUME Bad # {} PROVE FALSE
  OBVIOUS
<1>3. PICK k \in Bad : \A y \in Bad : k <= y
  <2>1. Bad \in SUBSET Nat
    OBVIOUS
  <2> HIDE DEF Bad
  <2> QED
    BY <1>2, <2>1, LeastNatural
<1>4. k \in 0..n /\ ~P(k)
  OBVIOUS
<1>5. ASSUME NEW s \in D(k), s # {} PROVE g[s] \in Int
  <2>1. s \in SUBSET (1..n)
    BY <1>4
  <2>2. n - k \in Nat /\ n - k + 2 = n - (k - 1) + 1
    BY <1>4
  <2>3. s \ {Min(s)} \in D(k - 1)
    <3>1. s \in SUBSET (n - k + 1..n)
      OBVIOUS
    <3>2. s \ {Min(s)} \in SUBSET (n - k + 2..n)
      BY <1>5, <2>2, <3>1, MinTaken
    <3> QED
      BY <2>2, <3>2
  <2>4. k # 0
    <3>1. SUFFICES ASSUME k = 0 PROVE FALSE
      OBVIOUS
    <3>2. s \subseteq n + 1..n
      BY <3>1
    <3>3. PICK y \in s : TRUE
      BY <1>5
    <3> QED
      BY <3>2, <3>3
  <2>5. k - 1 \in 0..n /\ ~(k <= k - 1)
    BY <1>4, <2>4
  <2>6. P(k - 1)
    BY <1>3, <2>5
  <2>7. g[s \ {Min(s)}] \in Int
    BY <2>3, <2>6
  <2> QED
    BY <1>5, <2>1, <2>7
<1>6. \A s \in D(k) : g[s] \in Int
  <2> HIDE DEF D
  <2>1. SUFFICES ASSUME NEW s \in D(k) PROVE g[s] \in Int
    OBVIOUS
  <2>2. CASE s = {}
    BY <2>2
  <2>3. CASE s # {}
    BY <1>5, <2>3
  <2> QED
    BY <2>2, <2>3
<1> QED
  BY <1>4, <1>6

LEMMA SumTyped ==
  ASSUME NEW n \in Nat, NEW w, \A i \in 1..n : w[i] \in Int
  PROVE  \E g : Sums(g, n, w) /\ \A s \in SUBSET (1..n) : g[s] \in Int
<1>1. PICK g : Sums(g, n, w)
  BY SumExists
<1>2. ASSUME NEW s \in SUBSET (1..n), s # {}
      PROVE  g[s] = g[s \ {Min(s)}] + w[Min(s)]
  BY <1>1, <1>2 DEF Sums
<1>3. g[{}] = 0
  <2>1. \A s \in SUBSET (1..n) : g[s] = IF s = {} THEN 0 ELSE g[s \ {Min(s)}] + w[Min(s)]
    BY <1>1 DEF Sums
  <2>2. {} \in SUBSET (1..n)
    OBVIOUS
  <2> QED
    BY <2>1, <2>2
<1>4. ASSUME NEW s \in SUBSET (1..n), s # {}, g[s \ {Min(s)}] \in Int
      PROVE  g[s] \in Int
  <2>1. Min(s) \in s
    <3>1. s \in SUBSET Nat
      OBVIOUS
    <3> QED
      BY <1>4, <3>1, MinOfNaturals
  <2>2. w[Min(s)] \in Int
    BY <2>1
  <2> QED
    BY <1>2, <1>4, <2>2
<1>5. \A s \in SUBSET (1..n) : g[s] \in Int
  <2>1. g[{}] \in Int
    BY <1>3
  <2> QED
    BY <1>4, <2>1, FoldTyped
<1> QED
  BY <1>1, <1>5

(* The greatest element of a sequence of integers. *)
LEMMA MaxOfSeq ==
  ASSUME NEW s \in Seq(Int), s # <<>>
  PROVE  Max(ToSet(s)) \in Int
<1> DEFINE P(k) == \E i \in 1..k : \A j \in 1..k : s[i] >= s[j]
           Bad == {k \in 1..Len(s) : ~P(k)}
<1>1. Len(s) \in Nat \ {0} /\ \A i \in 1..Len(s) : s[i] \in Int
  BY EmptySeq, LenProperties, ElementOfSeq
<1>2. P(Len(s))
  <2>1. SUFFICES Bad = {}
    <3>1. Len(s) \in 1..Len(s)
      BY <1>1
    <3>2. Len(s) \notin Bad
      <4> HIDE DEF Bad
      <4> QED
        BY <2>1
    <3> HIDE DEF P
    <3> QED
      BY <3>1, <3>2
  <2>2. SUFFICES ASSUME Bad # {} PROVE FALSE
    OBVIOUS
  <2>3. PICK k \in Bad : \A y \in Bad : k <= y
    <3>1. Bad \in SUBSET Nat
      BY <1>1
    <3> HIDE DEF Bad
    <3> QED
      BY <2>2, <3>1, LeastNatural
  <2>4. k \in 1..Len(s) /\ ~P(k)
    OBVIOUS
  <2>5. CASE k = 1
    <3>0. s[1] \in Int /\ \A j \in 1..1 : j = 1
      BY <1>1
    <3>1. \A j \in 1..1 : s[1] >= s[j]
      <4> HIDE DEF P, Bad
      <4> QED
        BY <3>0
    <3>2. P(1)
      BY <3>1
    <3> QED
      BY <2>4, <2>5, <3>2
  <2>6. CASE k # 1
    <3>1. k - 1 \in 1..Len(s) /\ ~(k <= k - 1)
      BY <1>1, <2>4, <2>6
    <3>2. P(k - 1)
      BY <2>3, <3>1
    <3>3. PICK i \in 1..k - 1 : \A j \in 1..k - 1 : s[i] >= s[j]
      BY <3>2
    <3>4. s[i] \in Int /\ s[k] \in Int /\ i \in 1..k /\ k \in 1..k
      BY <1>1, <2>4
    <3>5. \A j \in 1..k : j \in 1..k - 1 \/ j = k
      BY <1>1, <2>4
    <3>6. \A j \in 1..k : s[j] \in Int
      BY <1>1, <2>4
    <3>7. CASE s[i] >= s[k]
      <4>1. \A j \in 1..k : s[i] >= s[j]
        BY <3>3, <3>5, <3>7
      <4> QED
        BY <2>4, <3>4, <4>1
    <3>8. CASE ~(s[i] >= s[k])
      <4>1. ASSUME NEW j \in 1..k PROVE s[k] >= s[j]
        <5>1. CASE j = k
          <6>1. s[j] = s[k]
            BY <5>1, Zenon
          <6>2. s[k] >= s[k]
            <7> HIDE DEF P, Bad
            <7> QED
              BY <3>4
          <6> HIDE DEF P, Bad
          <6> QED
            BY <6>1, <6>2
        <5>2. CASE j \in 1..k - 1
          <6>1. s[i] >= s[j] /\ s[j] \in Int
            BY <3>3, <3>6, <5>2
          <6> HIDE DEF P
          <6> QED
            BY <3>4, <3>8, <6>1
        <5> QED
          BY <3>5, <5>1, <5>2
      <4> QED
        BY <2>4, <3>4, <4>1
    <3> QED
      BY <3>7, <3>8
  <2> QED
    BY <2>5, <2>6
<1>3. PICK i \in 1..Len(s) : \A j \in 1..Len(s) : s[i] >= s[j]
  BY <1>2
<1>4. ToSet(s) = {s[j] : j \in 1..Len(s)}
  BY <1>1 DEF ToSet
<1>5. s[i] \in ToSet(s) /\ \A y \in ToSet(s) : s[i] >= y
  BY <1>3, <1>4
<1>6. Max(ToSet(s)) \in ToSet(s)
  BY <1>5 DEF Max
<1> QED
  BY <1>1, <1>4, <1>6

-----------------------------------------------------------------------------
(* The measure of a context, and the lines it is measured against. *)

LoopMessage  == [from : Nat, upto : Nat, text : Nat, media : Nat, embeds : BOOLEAN]
LoopMessages == Seq(LoopMessage)

LEMMA TokensUnfolded ==
  ASSUME NEW m, NEW c, NEW h,
         h = CHOOSE g : g = [s \in SUBSET DOMAIN m |->
                               IF s = {} THEN 0
                               ELSE g[s \ {Min(s)}] + m[Min(s)].text + m[Min(s)].media]
  PROVE  Tokens(m, c) = Max({0, Overhead(m) + c + h[DOMAIN m]})
BY DEF Tokens, FoldRight, MapThenFoldSet

LEMMA TokensTyped ==
  ASSUME NEW m \in LoopMessages, m # <<>>, NEW c \in Int
  PROVE  Tokens(m, c) \in Nat
<1> DEFINE Solves(g) == g = [s \in SUBSET DOMAIN m |->
                               IF s = {} THEN 0
                               ELSE g[s \ {Min(s)}] + m[Min(s)].text + m[Min(s)].media]
           h == CHOOSE g : Solves(g)
           w == [i \in DOMAIN m |-> m[i].text + m[i].media]
<1>1. Len(m) \in Nat \ {0} /\ DOMAIN m = 1..Len(m)
  BY EmptySeq, LenProperties DEF LoopMessages
<1>2. ASSUME NEW i \in 1..Len(m)
      PROVE  m[i].text \in Int /\ m[i].media \in Int /\ w[i] = m[i].text + m[i].media
  <2>1. m[i] \in LoopMessage
    BY ElementOfSeq DEF LoopMessages
  <2> QED
    BY <1>1, <2>1 DEF LoopMessage
<1>3. ASSUME NEW s \in SUBSET (1..Len(m)), s # {}
      PROVE  Min(s) \in 1..Len(m) /\ s \ {Min(s)} \in SUBSET (1..Len(m))
  <2>1. s \in SUBSET Nat
    OBVIOUS
  <2> QED
    BY <1>3, <2>1, MinOfNaturals
<1> HIDE DEF w
<1>4. PICK g : Sums(g, Len(m), w) /\ \A s \in SUBSET (1..Len(m)) : g[s] \in Int
  <2>1. \A i \in 1..Len(m) : w[i] \in Int
    BY <1>2
  <2> QED
    BY <1>1, <2>1, SumTyped
<1>5. Solves(g)
  <2>1. ASSUME NEW s \in SUBSET (1..Len(m)), s # {}
        PROVE  g[s \ {Min(s)}] + w[Min(s)]
                 = g[s \ {Min(s)}] + m[Min(s)].text + m[Min(s)].media
    BY <1>2, <1>3, <1>4, <2>1
  <2>2. g = [s \in SUBSET (1..Len(m)) |->
               IF s = {} THEN 0 ELSE g[s \ {Min(s)}] + m[Min(s)].text + m[Min(s)].media]
    BY <1>4, <2>1 DEF Sums
  <2> QED
    BY <1>1, <2>2
<1>6. Solves(h)
  <2> HIDE DEF Solves
  <2> QED
    BY <1>5
<1> HIDE DEF h
<1>7. ASSUME NEW s \in SUBSET (1..Len(m)), s # {}
      PROVE  h[s] = h[s \ {Min(s)}] + m[Min(s)].text + m[Min(s)].media
  BY <1>1, <1>6, <1>7
<1>8. h[{}] = 0
  <2>1. \A s \in SUBSET (1..Len(m)) :
           h[s] = IF s = {} THEN 0 ELSE h[s \ {Min(s)}] + m[Min(s)].text + m[Min(s)].media
    BY <1>1, <1>6
  <2>2. {} \in SUBSET (1..Len(m))
    OBVIOUS
  <2> QED
    BY <2>1, <2>2
<1>9. ASSUME NEW s \in SUBSET (1..Len(m)), s # {}, h[s \ {Min(s)}] \in Int
      PROVE  h[s] \in Int
  <2>1. m[Min(s)].text \in Int /\ m[Min(s)].media \in Int
    BY <1>2, <1>3, <1>9
  <2>2. h[s] = h[s \ {Min(s)}] + m[Min(s)].text + m[Min(s)].media
    BY <1>7, <1>9
  <2>3. h[s \ {Min(s)}] \in Int
    BY <1>9
  <2> HIDE DEF Solves
  <2> QED
    BY <2>1, <2>2, <2>3
<1>10. h[1..Len(m)] \in Int
  <2>0. h[{}] \in Int
    BY <1>8
  <2>1. \A s \in SUBSET (1..Len(m)) : h[s] \in Int
    BY <1>1, <1>9, <2>0, FoldTyped
  <2> QED
    BY <2>1
<1>11. Overhead(m) \in Int
  BY BackgroundAssumption DEF Overhead
<1>12. Tokens(m, c) = Max({0, Overhead(m) + c + h[DOMAIN m]})
  BY TokensUnfolded DEF h
<1> QED
  BY <1>1, <1>10, <1>11, <1>12, MaxWithZero

LEMMA GrowthTyped ==
  ASSUME telemetry.grown \in Seq(Int)
  PROVE  Growth.sum \in Int /\ Growth.of \in Nat \ {0} /\ Growth.peak \in Int
<1> DEFINE recent == telemetry.grown
<1>1. CASE recent = <<>>
  <2>1. Growth = [sum |-> DefaultGrowth, of |-> 1, peak |-> DefaultGrowth]
    BY <1>1 DEF Growth
  <2>2. DefaultGrowth \in Int
    BY BackgroundAssumption
  <2> HIDE DEF recent
  <2> QED
    BY <2>1, <2>2
<1>2. CASE recent # <<>>
  <2> DEFINE Solves(g) == g = [s \in SUBSET DOMAIN recent |->
                                 IF s = {} THEN 0 ELSE recent[Min(s)] + g[s \ {Min(s)}]]
             h == CHOOSE g : Solves(g)
  <2>1. Len(recent) \in Nat \ {0} /\ DOMAIN recent = 1..Len(recent)
    BY <1>2, EmptySeq, LenProperties
  <2>2. \A i \in 1..Len(recent) : recent[i] \in Int
    BY ElementOfSeq
  <2>3. /\ Growth.sum = FoldRight(LAMBDA g, n : g + n, recent, 0)
        /\ Growth.of = Len(recent)
        /\ Growth.peak = Max(ToSet(recent))
    BY <1>2 DEF Growth
  <2>4. FoldRight(LAMBDA g, n : g + n, recent, 0) = h[DOMAIN recent]
    BY DEF FoldRight, MapThenFoldSet
  <2>5. Growth.peak \in Int
    BY <1>2, <2>3, MaxOfSeq
  <2> HIDE DEF recent
  <2>6. PICK g : Sums(g, Len(recent), recent) /\ \A s \in SUBSET (1..Len(recent)) : g[s] \in Int
    BY <2>1, <2>2, SumTyped
  <2>7. ASSUME NEW s \in SUBSET (1..Len(recent)), s # {}
        PROVE  Min(s) \in 1..Len(recent) /\ s \ {Min(s)} \in SUBSET (1..Len(recent))
    <3>1. s \in SUBSET Nat
      OBVIOUS
    <3> QED
      BY <2>7, <3>1, MinOfNaturals
  <2>8. Solves(g)
    <3>1. ASSUME NEW s \in SUBSET (1..Len(recent)), s # {}
          PROVE  g[s \ {Min(s)}] + recent[Min(s)] = recent[Min(s)] + g[s \ {Min(s)}]
      BY <2>2, <2>6, <2>7, <3>1
    <3>2. g = [s \in SUBSET (1..Len(recent)) |->
                 IF s = {} THEN 0 ELSE recent[Min(s)] + g[s \ {Min(s)}]]
      BY <2>6, <3>1 DEF Sums
    <3> QED
      BY <2>1, <3>2
  <2>9. Solves(h)
    <3> HIDE DEF Solves
    <3> QED
      BY <2>8
  <2> HIDE DEF h
  <2>10. ASSUME NEW s \in SUBSET (1..Len(recent)), s # {}
         PROVE  h[s] = recent[Min(s)] + h[s \ {Min(s)}]
    BY <2>1, <2>9, <2>10
  <2>11. h[{}] = 0
    <3>1. \A s \in SUBSET (1..Len(recent)) :
             h[s] = IF s = {} THEN 0 ELSE recent[Min(s)] + h[s \ {Min(s)}]
      BY <2>1, <2>9
    <3>2. {} \in SUBSET (1..Len(recent))
      OBVIOUS
    <3> QED
      BY <3>1, <3>2
  <2>12. ASSUME NEW s \in SUBSET (1..Len(recent)), s # {}, h[s \ {Min(s)}] \in Int
         PROVE  h[s] \in Int
    <3>1. recent[Min(s)] \in Int
      BY <2>2, <2>7, <2>12
    <3>2. h[s] = recent[Min(s)] + h[s \ {Min(s)}]
      BY <2>10, <2>12
    <3> HIDE DEF Solves
    <3> QED
      BY <2>12, <3>1, <3>2
  <2>13. h[1..Len(recent)] \in Int
    <3>1. h[{}] \in Int
      BY <2>11
    <3>2. \A s \in SUBSET (1..Len(recent)) : h[s] \in Int
      BY <2>1, <2>12, <3>1, FoldTyped
    <3> QED
      BY <3>2
  <2> QED
    BY <2>1, <2>3, <2>4, <2>5, <2>13 DEF h
<1> QED
  BY <1>1, <1>2

(* The lines of a budget that keep a request and a fork within the window. *)
Within(b) ==
    /\ b.fork \in Int /\ b.swap \in Int
    /\ b.fork <= b.swap /\ b.swap <= InputLimit
    /\ b.fork + Instruction + SummaryRoom <= Window

LEMMA BudgetWithin ==
  ASSUME telemetry.grown \in Seq(Int), NEW pace
  PROVE  Within(BudgetOf(pace))
<1> DEFINE x == Growth.peak - Growth.sum \div Growth.of
           swap == InputLimit - Max({0, x})
           room == Window - Instruction - SummaryRoom
           line == Min({room, swap})
<1>1. x \in Int
  BY GrowthTyped
<1>2. InputLimit \in Int /\ room \in Int
  BY BackgroundAssumption DEF InputLimit
<1>3. BudgetOf(pace).swap = swap /\ BudgetOf(pace).fork = line
  BY DEF BudgetOf
<1> HIDE DEF x
<1>4. swap \in Int /\ swap <= InputLimit
  BY <1>1, <1>2, MaxWithZero
<1> HIDE DEF swap, room
<1>5. line \in Int /\ line <= room /\ line <= swap
  BY <1>2, <1>4, MinOfTwo
<1> HIDE DEF line
<1>6. line + Instruction + SummaryRoom <= Window
  BY <1>2, <1>5, BackgroundAssumption DEF room
<1> QED
  BY <1>3, <1>4, <1>5, <1>6 DEF Within

ForkTasks ==
    [phase : {"running", "failed", "cancelled", "handed_off"},
     stage : {"preparing", "calling", "offering"},
     splice : Nat, upto : Nat, tokens : Nat, prepared : BOOLEAN]
ReadyTasks == [phase : {"succeeded"}, splice : Nat, upto : Nat, size : Nat]
Announced  == [kind : {"fork"}, shape : Seq(Nat), prepared : BOOLEAN, offered : BOOLEAN]
Jobs       == [state : {"queued", "ready", "owned", "merged", "failed"}, shape : Seq(Nat)]

LoopTypePart ==
    /\ context \in LoopMessages /\ context # <<>>
    /\ correction \in Int
    /\ telemetry.input \in Int /\ telemetry.grown \in Seq(Int)
    /\ Within(budget)
    /\ task \in {NoTask} \cup ForkTasks \cup ReadyTasks
    /\ active \in {NoActive} \cup Announced
    /\ job \in {NoJob} \cup Jobs
    /\ offering \in {"no", "current", "stale"}
    /\ guard \in {"none", "held", "lost"}
    /\ loopAt \in {"boundary", "starting", "waiting", "fallback", "refused", "compacting",
                   "shrinking", "request", "exit", "draining", "done", "failed", "paused"}
    /\ ending \in {"none", "done", "failed", "paused"}
    /\ loopAt \in {"exit", "draining"} => ending # "none"
    /\ durable \in BOOLEAN

(* The prefix of that shape is still the one the context begins with. *)
Stands(shape) ==
    Len(shape) <= Len(context) /\ \A i \in DOMAIN shape : context[i].upto = shape[i]

Splicing == task.phase \in {"running", "succeeded"}

SplicePart ==
    /\ Splicing => task.splice \in 1..Len(context) /\ context[task.splice].upto = task.upto
    /\ task.phase = "running" => task.tokens + Instruction + SummaryRoom <= Window
    /\ loopAt \in {"compacting", "shrinking"} => task = NoTask /\ active = NoActive

JobActive == job.state \in {"queued", "ready", "owned"}

ShapePart ==
    /\ loopAt = "starting" => active # NoActive
    /\ active # NoActive => Stands(active.shape)
    /\ JobActive => Stands(job.shape)

(* A loop with durable jobs neither merges by itself nor gives its announced job away. *)
DurablePart ==
    /\ task.phase = "succeeded" => ~durable
    /\ task.phase = "running" /\ task.stage \in {"calling", "offering"} /\ durable => task.prepared
    /\ Alive /\ JobActive => durable /\ active # NoActive
    /\ durable /\ active # NoActive /\ Alive /\ loopAt \notin {"starting", "exit", "draining"}
         => active.prepared

FitPart == loopAt \in {"starting", "request"} => Size(context) <= InputLimit

LInv == LoopTypePart /\ TurnsCovered /\ SplicePart /\ ShapePart /\ DurablePart /\ FitPart

-----------------------------------------------------------------------------
(* The context, the fork and the decision at a boundary. *)
LEMMA ContextFacts ==
  ASSUME LoopTypePart
  PROVE  /\ Len(context) \in Nat \ {0} /\ DOMAIN context = 1..Len(context)
         /\ \A i \in 1..Len(context) :
               /\ context[i] \in LoopMessage
               /\ context[i].from \in Nat /\ context[i].upto \in Nat
         /\ LastOf(context) = context[Len(context)].upto /\ LastOf(context) \in Nat
         /\ Size(context) \in Nat
<1>1. Len(context) \in Nat \ {0} /\ DOMAIN context = 1..Len(context)
  BY EmptySeq, LenProperties DEF LoopTypePart, LoopMessages
<1>2. ASSUME NEW i \in 1..Len(context)
      PROVE  /\ context[i] \in LoopMessage
             /\ context[i].from \in Nat /\ context[i].upto \in Nat
  <2>1. context[i] \in LoopMessage
    BY ElementOfSeq DEF LoopTypePart, LoopMessages
  <2> QED
    BY <2>1 DEF LoopMessage
<1>3. LastOf(context) = context[Len(context)].upto /\ LastOf(context) \in Nat
  BY <1>1, <1>2 DEF LastOf
<1>4. Size(context) \in Nat
  BY TokensTyped DEF Size, LoopTypePart
<1> QED
  BY <1>1, <1>2, <1>3, <1>4

LEMMA InputLimitTyped == InputLimit \in Int /\ Window \in Nat /\ OutputRoom \in Nat
BY BackgroundAssumption DEF InputLimit

LEMMA TaskCases ==
  ASSUME LoopTypePart
  PROVE  /\ task = NoTask <=> task.phase = "none"
         /\ task \in ForkTasks <=> task.phase \in {"running", "failed", "cancelled", "handed_off"}
         /\ task \in ReadyTasks <=> task.phase = "succeeded"
         /\ task.phase \in {"none", "running", "failed", "cancelled", "handed_off", "succeeded"}
         /\ task \in ForkTasks =>
               /\ task.stage \in {"preparing", "calling", "offering"}
               /\ task.splice \in Nat /\ task.upto \in Nat /\ task.tokens \in Nat
               /\ task.prepared \in BOOLEAN
         /\ task \in ReadyTasks => task.splice \in Nat /\ task.upto \in Nat /\ task.size \in Nat
<1>1. CASE task = NoTask
  BY <1>1 DEF NoTask, ForkTasks, ReadyTasks
<1>2. CASE task \in ForkTasks
  BY <1>2 DEF NoTask, ForkTasks, ReadyTasks
<1>3. CASE task \in ReadyTasks
  BY <1>3 DEF NoTask, ForkTasks, ReadyTasks
<1> QED
  BY <1>1, <1>2, <1>3 DEF LoopTypePart

LEMMA ForkPhased ==
  ASSUME NEW t \in ForkTasks, NEW p \in {"running", "failed", "cancelled", "handed_off"}
  PROVE  LET u == [t EXCEPT !.phase = p]
         IN  u \in ForkTasks /\ u.phase = p /\ u.stage = t.stage /\ u.splice = t.splice
             /\ u.upto = t.upto /\ u.tokens = t.tokens /\ u.prepared = t.prepared
BY DEF ForkTasks

LEMMA ForkMoved ==
  ASSUME NEW t \in ForkTasks, NEW p \in {"running", "failed", "cancelled", "handed_off"},
         NEW st \in {"preparing", "calling", "offering"}
  PROVE  /\ LET u == [t EXCEPT !.phase = p]
            IN  u \in ForkTasks /\ u.phase = p /\ u.stage = t.stage /\ u.splice = t.splice
                /\ u.upto = t.upto /\ u.tokens = t.tokens /\ u.prepared = t.prepared
         /\ LET u == [t EXCEPT !.stage = st]
            IN  u \in ForkTasks /\ u.phase = t.phase /\ u.stage = st /\ u.splice = t.splice
                /\ u.upto = t.upto /\ u.tokens = t.tokens /\ u.prepared = t.prepared
         /\ LET u == [t EXCEPT !.stage = st, !.prepared = TRUE]
            IN  u \in ForkTasks /\ u.phase = t.phase /\ u.stage = st /\ u.splice = t.splice
                /\ u.upto = t.upto /\ u.tokens = t.tokens /\ u.prepared = TRUE
BY DEF ForkTasks

LEMMA ActiveCases ==
  ASSUME LoopTypePart
  PROVE  /\ active = NoActive <=> active \notin Announced
         /\ active \in Announced =>
               active.shape \in Seq(Nat) /\ active.prepared \in BOOLEAN /\ active.offered \in BOOLEAN
<1>1. CASE active = NoActive
  BY <1>1 DEF NoActive, Announced
<1>2. CASE active \in Announced
  BY <1>2 DEF NoActive, Announced
<1> QED
  BY <1>1, <1>2 DEF LoopTypePart

LEMMA AnnouncedMoved ==
  ASSUME NEW a \in Announced
  PROVE  /\ LET u == [a EXCEPT !.prepared = TRUE]
            IN  u \in Announced /\ u.shape = a.shape /\ u.prepared = TRUE /\ u.offered = a.offered
         /\ LET u == [a EXCEPT !.offered = TRUE]
            IN  u \in Announced /\ u.shape = a.shape /\ u.prepared = a.prepared
BY DEF Announced

LEMMA JobCases ==
  ASSUME LoopTypePart
  PROVE  /\ job = NoJob <=> job.state = "none"
         /\ job \in Jobs <=> job.state # "none"
         /\ job.state \in {"none", "queued", "ready", "owned", "merged", "failed"}
         /\ job \in Jobs => job.shape \in Seq(Nat)
<1>1. CASE job = NoJob
  BY <1>1 DEF NoJob, Jobs
<1>2. CASE job \in Jobs
  BY <1>2 DEF NoJob, Jobs
<1> QED
  BY <1>1, <1>2 DEF LoopTypePart

LEMMA JobMoved ==
  ASSUME NEW j \in Jobs, NEW state \in {"queued", "ready", "owned", "merged", "failed"}
  PROVE  LET u == [j EXCEPT !.state = state]
         IN  u \in Jobs /\ u.state = state /\ u.shape = j.shape
BY DEF Jobs

LEMMA RefreshedWithin ==
  ASSUME LoopTypePart, NEW pace
  PROVE  Within(Refreshed(pace))
BY BudgetWithin DEF Refreshed, LoopTypePart

LEMMA StandingCases ==
  ASSUME LoopTypePart
  PROVE  /\ Standing \in {NoTask, task}
         /\ Standing.phase \in {"none", "running", "handed_off", "succeeded"}
         /\ Standing = NoTask <=> Standing.phase = "none"
         /\ Standing.phase \in {"running", "handed_off", "succeeded"} => Standing = task
BY TaskCases DEF Standing, NoTask

(* What a decision says of the fork and of the room there is. *)
LEMMA Decided ==
  ASSUME LoopTypePart, NEW b, Within(b)
  PROVE  /\ Decision(b) = "none" => Size(context) <= InputLimit
         /\ Decision(b) = "start" =>
               /\ Standing = NoTask
               /\ Size(context) <= InputLimit
               /\ Size(context) + Instruction + SummaryRoom <= Window
         /\ Decision(b) = "merge" => task.phase = "succeeded"
         /\ Decision(b) = "wait" => task.phase = "running"
         /\ Decision(b) = "sync-fallback" => Standing = NoTask
         /\ Decision(b) = "durable-handoff" => task.phase = "handed_off"
<1> DEFINE size == Size(context)
<1>1. size \in Int /\ b.fork \in Int /\ b.swap \in Int /\ InputLimit \in Int
      /\ b.fork <= b.swap /\ b.swap <= InputLimit /\ b.fork + Instruction + SummaryRoom <= Window
  BY ContextFacts, InputLimitTyped DEF Within
<1>2. Instruction \in Int /\ SummaryRoom \in Int /\ Window \in Int
  BY BackgroundAssumption
<1>3. /\ Decision(b) = "none" =>
            /\ ~(Standing.phase = "handed_off")
            /\ ~(Standing.phase = "succeeded" /\ size >= b.swap)
            /\ ~(Standing = NoTask /\ size > b.fork)
            /\ ~(Standing.phase = "running" /\ size >= b.swap)
      /\ Decision(b) = "start" => Standing = NoTask /\ size <= b.fork
      /\ Decision(b) = "merge" => Standing.phase = "succeeded"
      /\ Decision(b) = "wait" => Standing.phase = "running"
      /\ Decision(b) = "sync-fallback" => Standing = NoTask
      /\ Decision(b) = "durable-handoff" => Standing.phase = "handed_off"
  BY DEF Decision
<1> HIDE DEF size
<1>4. Decision(b) = "none" => size <= InputLimit
  BY <1>1, <1>3, StandingCases
<1>5. Decision(b) = "start" => size <= InputLimit /\ size + Instruction + SummaryRoom <= Window
  BY <1>1, <1>2, <1>3
<1> QED
  BY <1>3, <1>4, <1>5, StandingCases DEF size

-----------------------------------------------------------------------------
(* The steps that leave the context as it is. *)
LEMMA QuietContext ==
  ASSUME LInv, UNCHANGED <<context, correction>>
  PROVE  /\ TurnsCovered'
         /\ Size(context)' = Size(context)
         /\ \A shape : Stands(shape)' <=> Stands(shape)
<1>1. TurnsCovered'
  BY DEF LInv, TurnsCovered
<1>2. Size(context)' = Size(context)
  BY DEF Size
<1>3. \A shape : Stands(shape)' <=> Stands(shape)
  BY DEF Stands
<1> QED
  BY <1>1, <1>2, <1>3

LEMMA ProceedKeeps ==
  ASSUME LInv, NEW p, Proceed(p)
  PROVE  LInv'
<1>1. /\ UNCHANGED <<context, correction, telemetry, offering, job, guard, rejections, durable>>
      /\ UNCHANGED <<active, ending>>
      /\ loopAt = "boundary" /\ loopAt' = "request" /\ task' = Standing
      /\ budget' = Refreshed(p) /\ Decision(Refreshed(p)) \in {"none", "start"}
  BY DEF Proceed, AtBoundary, Held
<1>2. LoopTypePart /\ Within(Refreshed(p)) /\ Size(context) <= InputLimit
  BY <1>1, RefreshedWithin, Decided DEF LInv
<1>3. Standing \in {NoTask, task}
  BY <1>2, StandingCases
<1>4. LoopTypePart'
  <2>1. task' \in {NoTask} \cup ForkTasks \cup ReadyTasks
    BY <1>1, <1>2, <1>3 DEF LoopTypePart
  <2>2. Within(budget)'
    BY <1>1, <1>2 DEF Within
  <2> QED
    BY <1>1, <1>2, <2>1, <2>2 DEF LoopTypePart
<1>5. SplicePart'
  BY <1>1, <1>2, <1>3 DEF LInv, SplicePart, Splicing, NoTask
<1>6. ShapePart' /\ TurnsCovered' /\ FitPart'
  BY <1>1, <1>2, QuietContext DEF LInv, ShapePart, JobActive, FitPart, InputLimit
<1>7. DurablePart'
  BY <1>1, <1>3 DEF LInv, DurablePart, JobActive, Alive, NoTask
<1> QED
  BY <1>4, <1>5, <1>6, <1>7 DEF LInv

(* The turns the messages of a sequence reach, and what stands of it. *)
LEMMA ShapeStands ==
  ASSUME LoopTypePart
  PROVE  Shape(context) \in Seq(Nat) /\ Stands(Shape(context))
<1>1. /\ Len(context) \in Nat \ {0} /\ DOMAIN context = 1..Len(context)
      /\ \A i \in 1..Len(context) : context[i].upto \in Nat
  BY ContextFacts
<1>2. Shape(context) = [i \in 1..Len(context) |-> context[i].upto]
  BY <1>1 DEF Shape
<1>3. Shape(context) \in [1..Len(context) -> Nat]
  BY <1>1, <1>2
<1>4. Shape(context) \in Seq(Nat) /\ Len(Shape(context)) = Len(context)
  BY <1>1, <1>3
<1> QED
  BY <1>1, <1>2, <1>4 DEF Stands

LEMMA StartForkKeeps ==
  ASSUME LInv, NEW p, StartFork(p)
  PROVE  LInv'
<1>1. /\ UNCHANGED <<context, correction, telemetry, job, guard, ending, rejections, durable>>
      /\ loopAt = "boundary" /\ loopAt' = "starting"
      /\ task' = [phase |-> "running", stage |-> "preparing", splice |-> Len(context),
                  upto |-> LastOf(context), tokens |-> Size(context), prepared |-> FALSE]
      /\ active' = [kind |-> "fork", shape |-> Shape(context), prepared |-> FALSE,
                    offered |-> FALSE]
      /\ offering' \in {"no", "stale"}
      /\ budget' = Refreshed(p) /\ Decision(Refreshed(p)) = "start"
  BY DEF StartFork, AtBoundary
<1>2. /\ LoopTypePart /\ Within(Refreshed(p)) /\ Standing = NoTask
      /\ Size(context) <= InputLimit
      /\ Size(context) + Instruction + SummaryRoom <= Window
  BY <1>1, RefreshedWithin, Decided DEF LInv
<1>3. /\ Len(context) \in Nat \ {0} /\ LastOf(context) = context[Len(context)].upto
      /\ LastOf(context) \in Nat /\ Size(context) \in Nat
  BY <1>2, ContextFacts
<1>4. Shape(context) \in Seq(Nat) /\ Stands(Shape(context))
  BY <1>2, ShapeStands
<1>5. task' \in ForkTasks /\ active' \in Announced /\ active' # NoActive
  <2>1. task' \in ForkTasks
    BY <1>1, <1>3 DEF ForkTasks
  <2>2. active' \in Announced
    BY <1>1, <1>4 DEF Announced
  <2>3. active'.kind # "none"
    BY <1>1
  <2> QED
    BY <2>1, <2>2, <2>3 DEF NoActive
<1>6. LoopTypePart'
  <2>1. Within(budget)'
    BY <1>1, <1>2 DEF Within
  <2> QED
    BY <1>1, <1>2, <1>5, <2>1 DEF LoopTypePart
<1>7. SplicePart'
  BY <1>1, <1>2, <1>3 DEF SplicePart, Splicing
<1>8. ShapePart' /\ TurnsCovered' /\ FitPart'
  BY <1>1, <1>2, <1>4, <1>5, QuietContext DEF LInv, ShapePart, JobActive, FitPart, InputLimit
<1>9. DurablePart'
  BY <1>1, <1>5 DEF LInv, DurablePart, JobActive, Alive
<1> QED
  BY <1>6, <1>7, <1>8, <1>9 DEF LInv

LEMMA PrepareShadowKeeps ==
  ASSUME LInv, PrepareShadow
  PROVE  LInv'
<1>1. /\ UNCHANGED <<context, correction, telemetry, budget, safety, offering, guard, ending,
                     rejections, durable>>
      /\ loopAt = "starting" /\ durable /\ job.state # "merged"
      /\ job' = IF job.state \in {"none", "failed"}
                THEN [state |-> "queued", shape |-> active.shape] ELSE job
      /\ active' = [active EXCEPT !.prepared = TRUE]
      /\ loopAt' \in {"request", "fallback"}
      /\ \/ task' = [task EXCEPT !.stage = "calling", !.prepared = TRUE] /\ task.phase = "running"
         \/ task' = [task EXCEPT !.phase = "failed"] /\ task.phase = "running"
         \/ task' = task /\ task.phase # "running"
  BY DEF PrepareShadow
<1>2. LoopTypePart
  BY DEF LInv
<1>3. active \in Announced /\ active.shape \in Seq(Nat) /\ Stands(active.shape)
  BY <1>1, <1>2, ActiveCases DEF LInv, ShapePart
<1>4. active' \in Announced /\ active'.shape = active.shape /\ active'.prepared = TRUE
      /\ active' # NoActive
  <2>1. active' \in Announced /\ active'.shape = active.shape /\ active'.prepared = TRUE
    BY <1>1, <1>3, AnnouncedMoved
  <2> QED
    BY <2>1 DEF Announced, NoActive
<1>5. /\ job' \in {NoJob} \cup Jobs
      /\ job'.state \in {"queued", "ready", "owned"}
      /\ (job'.shape = active.shape \/ (job' = job /\ JobActive))
  <2>1. CASE job.state \in {"none", "failed"}
    BY <1>1, <1>3, <2>1 DEF Jobs
  <2>2. CASE job.state \notin {"none", "failed"}
    BY <1>1, <1>2, <2>2, JobCases DEF JobActive
  <2> QED
    BY <2>1, <2>2
<1>6. /\ \/ task' = task /\ task.phase # "running"
         \/ /\ task \in ForkTasks /\ task' \in ForkTasks
            /\ task.phase = "running"
            /\ task'.phase \in {"running", "failed"} /\ task'.splice = task.splice
            /\ task'.upto = task.upto /\ task'.tokens = task.tokens
            /\ task'.phase = "running" => task'.prepared = TRUE
  <2>1. CASE task.phase = "running"
    <3>1. task \in ForkTasks
      BY <1>2, <2>1, TaskCases
    <3>2. CASE task' = [task EXCEPT !.stage = "calling", !.prepared = TRUE]
      <4>1. /\ task' \in ForkTasks /\ task'.phase = task.phase /\ task'.splice = task.splice
            /\ task'.upto = task.upto /\ task'.tokens = task.tokens /\ task'.prepared = TRUE
        BY <3>1, <3>2, ForkMoved
      <4> QED
        BY <2>1, <3>1, <4>1
    <3>3. CASE task' = [task EXCEPT !.phase = "failed"]
      <4>1. /\ task' \in ForkTasks /\ task'.phase = "failed" /\ task'.splice = task.splice
            /\ task'.upto = task.upto /\ task'.tokens = task.tokens
        BY <3>1, <3>3, ForkMoved
      <4> QED
        BY <2>1, <3>1, <4>1
    <3> QED
      BY <1>1, <2>1, <3>2, <3>3
  <2>2. CASE task.phase # "running"
    BY <1>1, <2>2
  <2> QED
    BY <2>1, <2>2
<1>7. LoopTypePart'
  BY <1>1, <1>2, <1>4, <1>5, <1>6 DEF LoopTypePart, Within
<1>8. SplicePart'
  BY <1>1, <1>6 DEF LInv, SplicePart, Splicing
<1>9. ShapePart' /\ TurnsCovered' /\ FitPart'
  BY <1>1, <1>2, <1>3, <1>4, <1>5, QuietContext DEF LInv, ShapePart, JobActive, FitPart, InputLimit
<1>10. DurablePart'
  BY <1>1, <1>4, <1>5, <1>6 DEF LInv, DurablePart, JobActive, Alive
<1> QED
  BY <1>7, <1>8, <1>9, <1>10 DEF LInv
LoopPlaces == {"boundary", "starting", "waiting", "fallback", "refused", "compacting",
               "shrinking", "request", "exit", "draining", "done", "failed", "paused"}
Endings    == {"none", "done", "failed", "paused"}

(* A step that at most lets the fork go, and what was announced of it. *)
LEMMA LetGo ==
  ASSUME LInv, UNCHANGED <<context, correction, telemetry, job, durable>>,
         task' \in {NoTask, task}, active' \in {NoActive, active}, Within(budget)',
         offering' \in {"no", "current", "stale"}, guard' \in {"none", "held", "lost"},
         loopAt' \in LoopPlaces, ending' \in Endings,
         loopAt' = "starting" => active' # NoActive,
         loopAt' \in {"exit", "draining"} => ending' # "none",
         loopAt' \in {"starting", "request"} => Size(context) <= InputLimit,
         loopAt' \in {"compacting", "shrinking"} => task' = NoTask /\ active' = NoActive,
         Alive' /\ JobActive => durable /\ active' # NoActive,
         durable /\ active' # NoActive /\ Alive' /\ loopAt' \notin {"starting", "exit", "draining"}
           => active.prepared
  PROVE  LInv'
<1>1. LoopTypePart
  BY DEF LInv
<1>2. LoopTypePart'
  <2>1. task' \in {NoTask} \cup ForkTasks \cup ReadyTasks
    BY <1>1 DEF LoopTypePart
  <2>2. active' \in {NoActive} \cup Announced
    BY <1>1 DEF LoopTypePart
  <2> QED
    BY <1>1, <2>1, <2>2 DEF LoopTypePart, LoopPlaces, Endings
<1>3. SplicePart'
  <2>1. (Splicing => task.splice \in 1..Len(context) /\ context[task.splice].upto = task.upto)'
    BY DEF LInv, SplicePart, Splicing, NoTask
  <2>2. (task.phase = "running" => task.tokens + Instruction + SummaryRoom <= Window)'
    BY DEF LInv, SplicePart, NoTask
  <2> QED
    BY <2>1, <2>2 DEF SplicePart
<1>4. ShapePart' /\ TurnsCovered'
  BY QuietContext DEF LInv, ShapePart, JobActive
<1>5. FitPart'
  BY QuietContext DEF FitPart, InputLimit
<1>6. DurablePart'
  <2>1. (task.phase = "succeeded" => ~durable)'
    BY DEF LInv, DurablePart, NoTask
  <2>2. (task.phase = "running" /\ task.stage \in {"calling", "offering"} /\ durable => task.prepared)'
    BY DEF LInv, DurablePart, NoTask
  <2>3. JobActive' <=> JobActive
    BY DEF JobActive
  <2>4. active' # NoActive => active' = active
    OBVIOUS
  <2> QED
    BY <2>1, <2>2, <2>3, <2>4 DEF DurablePart
<1> QED
  BY <1>2, <1>3, <1>4, <1>5, <1>6 DEF LInv

LEMMA Places ==
  ASSUME LInv
  PROVE  /\ loopAt \in LoopPlaces /\ ending \in Endings /\ Within(budget)
         /\ offering \in {"no", "current", "stale"} /\ guard \in {"none", "held", "lost"}
         /\ loopAt \in {"exit", "draining"} => ending # "none"
         /\ loopAt \in {"starting", "request"} => Size(context) <= InputLimit
         /\ loopAt \in {"compacting", "shrinking"} => task = NoTask /\ active = NoActive
         /\ loopAt = "starting" => active # NoActive
         /\ Alive /\ JobActive => durable /\ active # NoActive
         /\ durable /\ active # NoActive /\ Alive /\ loopAt \notin {"starting", "exit", "draining"}
              => active.prepared
BY DEF LInv, LoopTypePart, LoopPlaces, Endings, FitPart, SplicePart, ShapePart, DurablePart

LEMMA WaitingKeeps ==
  ASSUME LInv, NEW p,
         AwaitFork(p) \/ YieldToJob(p) \/ ForegroundDue(p)
  PROVE  LInv'
<1>1. /\ UNCHANGED <<context, correction, telemetry, job, durable, offering, guard, active>>
      /\ task' \in {Standing, task} /\ budget' = Refreshed(p)
      /\ loopAt = "boundary"
      /\ \/ loopAt' \in {"waiting", "fallback"} /\ ending' = ending
         \/ loopAt' = "exit" /\ ending' = "paused"
  BY DEF AwaitFork, YieldToJob, ForegroundDue, AtBoundary, LeaveLoop, Held
<1>2. Within(budget)'
  BY <1>1, RefreshedWithin DEF Within, LInv
<1>3. task' \in {NoTask, task}
  BY <1>1, StandingCases DEF LInv
<1>4. loopAt' \in LoopPlaces \ {"starting"} /\ ending' \in Endings
  BY <1>1, Places DEF LoopPlaces, Endings
<1> QED
  BY <1>1, <1>2, <1>3, <1>4, Places, LetGo DEF Alive

LEMMA GiveUpWaitingKeeps ==
  ASSUME LInv, GiveUpWaiting
  PROVE  LInv'
<1>1. /\ UNCHANGED <<context, correction, telemetry, job, durable, offering, guard, active,
                     budget, ending>>
      /\ task' = NoTask /\ loopAt = "waiting" /\ loopAt' = "fallback"
  BY DEF GiveUpWaiting, Held
<1>2. Within(budget)'
  BY <1>1, Places DEF Within
<1>3. loopAt' \in LoopPlaces \ {"starting"}
  BY <1>1 DEF LoopPlaces
<1> QED
  BY <1>1, <1>2, <1>3, Places, LetGo DEF Alive

LEMMA ForegroundKeeps ==
  ASSUME LInv, Foreground
  PROVE  LInv'
<1>1. /\ UNCHANGED <<context, correction, telemetry, job, durable, guard, budget>>
      /\ loopAt \in {"fallback", "refused"}
  BY DEF Foreground
<1>2. Within(budget)'
  BY <1>1, Places DEF Within
<1>3. CASE ForegroundBlocked
  <2>1. /\ UNCHANGED <<task, active, offering>>
        /\ loopAt' = "exit" /\ ending' = "paused"
    BY <1>3 DEF Foreground, LeaveLoop
  <2>2. loopAt' \in LoopPlaces \ {"starting"} /\ ending' \in Endings
    BY <2>1 DEF LoopPlaces, Endings
  <2> QED
    BY <1>1, <1>2, <2>1, <2>2, Places, LetGo DEF Alive
<1>4. CASE ~ForegroundBlocked
  <2>1. /\ task' = NoTask /\ active' = NoActive /\ offering' \in {"no", "stale"}
        /\ loopAt' \in {"shrinking", "compacting"} /\ ending' = ending
    BY <1>4 DEF Foreground
  <2>2. loopAt' \in LoopPlaces \ {"starting"}
    BY <2>1 DEF LoopPlaces
  <2>3. ~JobActive
    BY <1>1, <1>4, Places DEF ForegroundBlocked, Alive
  <2> QED
    BY <1>1, <1>2, <2>1, <2>2, <2>3, Places, LetGo
<1> QED
  BY <1>3, <1>4

(* The steps by which the loop is left, or a request refused. *)
LEMMA LeavingKeeps ==
  ASSUME LInv,
         CompactNowFails \/ AcquireGuard \/ GuardLapses \/ DropAnswer \/ Rejected \/ RequestFails
            \/ StopSeen \/ HandOffRefused
  PROVE  LInv'
<1>1. /\ UNCHANGED <<context, correction, telemetry, job, durable, budget, active, task, offering>>
      /\ guard' \in {guard, "none", "held", "lost"}
      /\ \/ loopAt' = loopAt /\ ending' = ending
         \/ loopAt' = "exit" /\ ending' \in {"failed", "paused", "done"}
            /\ loopAt \in {"compacting", "shrinking", "request", "boundary"}
         \/ loopAt' = "refused" /\ ending' = ending /\ loopAt = "request"
         \/ loopAt' = "draining" /\ ending' = ending /\ loopAt = "exit"
  BY DEF CompactNowFails, AcquireGuard, GuardLapses, DropAnswer, Rejected, RequestFails,
         StopSeen, HandOffRefused, LeaveLoop, Held, MayAsk
<1>2. Within(budget)'
  BY <1>1, Places DEF Within
<1>3. loopAt' \in LoopPlaces /\ ending' \in Endings
  BY <1>1, Places DEF LoopPlaces, Endings
<1> QED
  BY <1>1, <1>2, <1>3, Places, LetGo DEF Alive
(* A step of the fork, or of what the store knows of it. *)
LEMMA ForkStep ==
  ASSUME LInv, UNCHANGED <<context, correction, telemetry, budget, guard, durable>>,
         \/ task' = task
         \/ /\ task.phase = "running" /\ task' \in ForkTasks
            /\ task'.splice = task.splice /\ task'.upto = task.upto /\ task'.tokens = task.tokens,
         task'.phase = "running" /\ task'.stage \in {"calling", "offering"} /\ durable
           => task'.prepared,
         \/ active' = active
         \/ /\ active \in Announced /\ active' \in Announced
            /\ active'.shape = active.shape /\ active'.prepared = active.prepared,
         \/ job' = job
         \/ job' \in Jobs /\ JobActive /\ job'.shape = job.shape,
         offering' \in {"no", "current", "stale"},
         \/ loopAt' = loopAt /\ ending' = ending
         \/ /\ loopAt = "starting"
            /\ \/ loopAt' \in {"request", "fallback"} /\ ending' = ending /\ ~durable
               \/ loopAt' = "exit" /\ ending' = "failed"
  PROVE  LInv'
<1>1. LoopTypePart
  BY DEF LInv
<1>2. active' # NoActive <=> active # NoActive
  BY <1>1, ActiveCases DEF NoActive, Announced
<1>3. active # NoActive => active'.shape = active.shape /\ active'.prepared = active.prepared
  OBVIOUS
<1>4. JobActive' => JobActive /\ job'.shape = job.shape
  BY DEF JobActive
<1>5. LoopTypePart'
  <2>1. task' \in {NoTask} \cup ForkTasks \cup ReadyTasks
    BY <1>1 DEF LoopTypePart
  <2>2. active' \in {NoActive} \cup Announced
    BY <1>1 DEF LoopTypePart
  <2>3. job' \in {NoJob} \cup Jobs
    BY <1>1 DEF LoopTypePart
  <2>4. Within(budget)'
    BY <1>1 DEF LoopTypePart, Within
  <2>5. loopAt' \in LoopPlaces /\ ending' \in Endings
        /\ (loopAt' \in {"exit", "draining"} => ending' # "none")
    BY Places DEF LoopPlaces, Endings
  <2> QED
    BY <1>1, <2>1, <2>2, <2>3, <2>4, <2>5 DEF LoopTypePart, LoopPlaces, Endings
<1>6. task' # task => /\ task \in ForkTasks /\ task' \in ForkTasks
                      /\ task'.phase # "succeeded" /\ task # NoTask
  BY <1>1, TaskCases DEF ForkTasks, NoTask
<1>7. SplicePart'
  <2>1. (Splicing => task.splice \in 1..Len(context) /\ context[task.splice].upto = task.upto)'
    BY <1>6 DEF LInv, SplicePart, Splicing
  <2>2. (task.phase = "running" => task.tokens + Instruction + SummaryRoom <= Window)'
    BY DEF LInv, SplicePart
  <2>3. (loopAt \in {"compacting", "shrinking"} => task = NoTask /\ active = NoActive)'
    BY <1>2, <1>6, Places
  <2> QED
    BY <2>1, <2>2, <2>3 DEF SplicePart
<1>8. ShapePart' /\ TurnsCovered'
  BY <1>2, <1>3, <1>4, QuietContext DEF LInv, ShapePart
<1>9. FitPart'
  BY QuietContext, Places DEF FitPart, InputLimit
<1>10. DurablePart'
  <2>1. (task.phase = "succeeded" => ~durable)'
    BY <1>6 DEF LInv, DurablePart
  <2>2. Alive' => Alive
    BY DEF Alive
  <2>3. (Alive /\ JobActive => durable /\ active # NoActive)'
    BY <1>2, <1>4, <2>2, Places
  <2>4. (durable /\ active # NoActive /\ Alive /\ loopAt \notin {"starting", "exit", "draining"}
           => active.prepared)'
    BY <1>2, <1>3, <2>2, Places
  <2> QED
    BY <2>1, <2>3, <2>4 DEF DurablePart
<1> QED
  BY <1>5, <1>7, <1>8, <1>9, <1>10 DEF LInv

LEMMA RunningFork ==
  ASSUME LInv, task.phase = "running"
  PROVE  task \in ForkTasks
         /\ (task.stage \in {"calling", "offering"} /\ durable => task.prepared)
BY TaskCases DEF LInv, DurablePart

LEMMA ForkTurnsKeep ==
  ASSUME LInv, StartLocal \/ PrepareFails \/ SummaryFails \/ OfferSummary \/ ForkTimesOut
  PROVE  LInv'
<1>1. /\ UNCHANGED <<context, correction, telemetry, budget, guard, durable, active, job>>
      /\ offering' \in {offering, "current"}
      /\ \/ loopAt' = loopAt /\ ending' = ending
         \/ /\ loopAt = "starting"
            /\ \/ loopAt' \in {"request", "fallback"} /\ ending' = ending /\ ~durable
               \/ loopAt' = "exit" /\ ending' = "failed"
  BY DEF StartLocal, PrepareFails, SummaryFails, OfferSummary, ForkTimesOut, LeaveLoop, Held
<1>2. \/ task' = task
      \/ /\ task.phase = "running" /\ ~durable /\ task' = [task EXCEPT !.stage = "calling"]
      \/ /\ task.phase = "running" /\ task.prepared /\ task' = [task EXCEPT !.stage = "offering"]
      \/ /\ task.phase = "running" /\ task' = [task EXCEPT !.phase = "cancelled"]
      \/ /\ task.phase = "running" /\ task' = [task EXCEPT !.phase = "failed"]
  BY DEF StartLocal, PrepareFails, SummaryFails, OfferSummary, ForkTimesOut, Calling
<1>3. offering' \in {"no", "current", "stale"}
  BY <1>1, Places
<1>4. CASE task' = task
  <2>1. task'.phase = "running" /\ task'.stage \in {"calling", "offering"} /\ durable
          => task'.prepared
    BY <1>4, RunningFork
  <2> QED
    BY <1>1, <1>3, <1>4, <2>1, ForkStep
<1>5. CASE task.phase = "running" /\ ~durable /\ task' = [task EXCEPT !.stage = "calling"]
  <2>1. /\ task' \in ForkTasks /\ task'.splice = task.splice /\ task'.upto = task.upto
        /\ task'.tokens = task.tokens
    BY <1>5, RunningFork, ForkMoved
  <2> QED
    BY <1>1, <1>3, <1>5, <2>1, ForkStep
<1>6. CASE task.phase = "running" /\ task.prepared /\ task' = [task EXCEPT !.stage = "offering"]
  <2>1. /\ task' \in ForkTasks /\ task'.splice = task.splice /\ task'.upto = task.upto
        /\ task'.tokens = task.tokens /\ task'.prepared = task.prepared
    BY <1>6, RunningFork, ForkMoved
  <2> QED
    BY <1>1, <1>3, <1>6, <2>1, ForkStep
<1>7. CASE task.phase = "running" /\ task' = [task EXCEPT !.phase = "cancelled"]
  <2>1. /\ task' \in ForkTasks /\ task'.splice = task.splice /\ task'.upto = task.upto
        /\ task'.tokens = task.tokens /\ task'.phase = "cancelled"
    BY <1>7, RunningFork, ForkMoved
  <2> QED
    BY <1>1, <1>3, <1>7, <2>1, ForkStep
<1>8. CASE task.phase = "running" /\ task' = [task EXCEPT !.phase = "failed"]
  <2>1. /\ task' \in ForkTasks /\ task'.splice = task.splice /\ task'.upto = task.upto
        /\ task'.tokens = task.tokens /\ task'.phase = "failed"
    BY <1>8, RunningFork, ForkMoved
  <2> QED
    BY <1>1, <1>3, <1>8, <2>1, ForkStep
<1> QED
  BY <1>2, <1>4, <1>5, <1>6, <1>7, <1>8

LEMMA OfferAnsweredKeeps ==
  ASSUME LInv, OfferAnswered
  PROVE  LInv'
<1>1. /\ UNCHANGED <<context, correction, telemetry, budget, guard, durable, loopAt, ending>>
      /\ offering' = "no"
  BY DEF OfferAnswered
<1>2. /\ \/ job' = job
         \/ job.state = "queued" /\ job' = [job EXCEPT !.state = "ready"]
      /\ active' = active \/ active' = [active EXCEPT !.offered = TRUE]
      /\ \/ task' = task
         \/ /\ task.phase = "running"
            /\ \E phase \in {"handed_off", "failed"} : task' = [task EXCEPT !.phase = phase]
  BY DEF OfferAnswered
<1>3. job' = job \/ (job' \in Jobs /\ JobActive /\ job'.shape = job.shape)
  <2>1. CASE job.state = "queued" /\ job' = [job EXCEPT !.state = "ready"]
    <3>1. job \in Jobs
      BY <2>1, JobCases DEF LInv
    <3> QED
      BY <2>1, <3>1, JobMoved DEF JobActive
  <2> QED
    BY <1>2, <2>1
<1>4. \/ active' = active
      \/ /\ active \in Announced /\ active' \in Announced
         /\ active'.shape = active.shape /\ active'.prepared = active.prepared
  <2>1. CASE active = NoActive
    BY <1>2, <2>1 DEF NoActive
  <2>2. CASE active \in Announced
    BY <1>2, <2>2, AnnouncedMoved
  <2> QED
    BY <2>1, <2>2, ActiveCases DEF LInv
<1>5. CASE task' = task
  <2>1. task'.phase = "running" /\ task'.stage \in {"calling", "offering"} /\ durable
          => task'.prepared
    BY <1>5, RunningFork
  <2> QED
    BY <1>1, <1>3, <1>4, <1>5, <2>1, ForkStep
<1>6. ASSUME task.phase = "running", NEW phase \in {"handed_off", "failed"},
             task' = [task EXCEPT !.phase = phase]
      PROVE  LInv'
  <2>0. task \in ForkTasks /\ phase \in {"running", "failed", "cancelled", "handed_off"}
    BY <1>6, RunningFork
  <2>1. /\ task' \in ForkTasks /\ task'.splice = task.splice /\ task'.upto = task.upto
        /\ task'.tokens = task.tokens /\ task'.phase = phase
    BY <1>6, <2>0, ForkPhased
  <2> QED
    BY <1>1, <1>3, <1>4, <1>6, <2>1, ForkStep
<1> QED
  BY <1>2, <1>5, <1>6

LEMMA WorkerKeeps ==
  ASSUME LInv, WorkerTakes \/ WorkerEnds
  PROVE  LInv'
<1>1. /\ UNCHANGED <<context, correction, telemetry, budget, guard, durable, loopAt, ending,
                     offering, active, task>>
      /\ JobActive
      /\ \E state \in {"owned", "merged", "failed"} : job' = [job EXCEPT !.state = state]
  BY DEF WorkerTakes, WorkerEnds, JobActive
<1>2. PICK state \in {"owned", "merged", "failed"} : job' = [job EXCEPT !.state = state]
  BY <1>1
<1>3. job \in Jobs
  BY <1>1, JobCases DEF LInv, JobActive
<1>4. job' \in Jobs /\ job'.shape = job.shape
  <2>1. state \in {"queued", "ready", "owned", "merged", "failed"}
    OBVIOUS
  <2> QED
    BY <1>2, <1>3, <2>1, JobMoved
<1>5. task'.phase = "running" /\ task'.stage \in {"calling", "offering"} /\ durable
        => task'.prepared
  BY <1>1, RunningFork
<1> QED
  BY <1>1, <1>4, <1>5, Places, ForkStep

LEMMA SummaryReadyKeeps ==
  ASSUME LInv, SummaryReady
  PROVE  LInv'
<1>1. /\ UNCHANGED <<context, correction, telemetry, budget, guard, durable, loopAt, ending,
                     offering, active, job>>
      /\ task.phase = "running" /\ task.stage = "calling" /\ ~task.prepared
      /\ \E size \in 1..SummaryRoom :
           task' = [phase |-> "succeeded", splice |-> task.splice, upto |-> task.upto,
                    size |-> size]
  BY DEF SummaryReady, Calling, Held
<1>2. LoopTypePart /\ task \in ForkTasks /\ ~durable
  BY <1>1, RunningFork DEF LInv
<1>3. /\ task' \in ReadyTasks /\ task'.phase = "succeeded" /\ task'.splice = task.splice
      /\ task'.upto = task.upto
  <2>1. PICK size \in 1..SummaryRoom :
           task' = [phase |-> "succeeded", splice |-> task.splice, upto |-> task.upto,
                    size |-> size]
    BY <1>1
  <2>2. size \in Nat
    BY BackgroundAssumption
  <2>3. task.splice \in Nat /\ task.upto \in Nat
    BY <1>2, TaskCases
  <2> QED
    BY <2>1, <2>2, <2>3 DEF ReadyTasks
<1>4. LoopTypePart'
  BY <1>1, <1>2, <1>3 DEF LoopTypePart, Within
<1>5. SplicePart'
  BY <1>1, <1>2, <1>3, Places DEF LInv, SplicePart, Splicing, NoTask
<1>6. ShapePart' /\ TurnsCovered' /\ FitPart'
  BY <1>1, QuietContext DEF LInv, ShapePart, JobActive, FitPart, InputLimit
<1>7. DurablePart'
  BY <1>1, <1>2, <1>3 DEF LInv, DurablePart, JobActive, Alive
<1> QED
  BY <1>4, <1>5, <1>6, <1>7 DEF LInv

LEMMA HandOffForkKeeps ==
  ASSUME LInv, HandOffFork
  PROVE  LInv'
<1>1. /\ UNCHANGED <<context, correction, telemetry, budget, guard, durable, ending>>
      /\ loopAt = "exit" /\ active # NoActive
      /\ job' = job \/ job' = [state |-> "queued", shape |-> active.shape]
      /\ task' = NoTask /\ active' = NoActive /\ offering' \in {"no", "stale"}
      /\ loopAt' = ending
  BY DEF HandOffFork
<1>2. loopAt' \in {"done", "failed", "paused"} /\ ~Alive'
  BY <1>1, Places DEF Endings, Alive
<1>3. LoopTypePart /\ active \in Announced /\ Stands(active.shape)
  BY <1>1, ActiveCases DEF LInv, ShapePart
<1>4. job' \in {NoJob} \cup Jobs
  <2>1. [state |-> "queued", shape |-> active.shape] \in Jobs
    BY <1>3, ActiveCases DEF Jobs
  <2> QED
    BY <1>1, <1>3, <2>1 DEF LoopTypePart
<1>5. LoopTypePart'
  BY <1>1, <1>2, <1>3, <1>4 DEF LoopTypePart, Within
<1>6. SplicePart' /\ FitPart' /\ DurablePart'
  BY <1>1, <1>2 DEF SplicePart, Splicing, NoTask, FitPart, DurablePart
<1>7. ShapePart' /\ TurnsCovered'
  BY <1>1, <1>2, <1>3, QuietContext DEF LInv, ShapePart, JobActive
<1> QED
  BY <1>5, <1>6, <1>7 DEF LInv

LEMMA FinalizeIdleKeeps ==
  ASSUME LInv, FinalizeIdle
  PROVE  LInv'
<1>1. /\ UNCHANGED <<context, correction, telemetry, budget, guard, durable, job>>
      /\ loopAt \in {"exit", "draining"}
      /\ task' = NoTask /\ active' = NoActive /\ offering' \in {"no", "stale"}
      /\ \/ loopAt' = "failed" /\ ending' = "failed"
         \/ loopAt' = ending /\ ending' = ending
  BY DEF FinalizeIdle, Finalizing
<1>2. loopAt' \in {"done", "failed", "paused"} /\ ~Alive' /\ ending' \in Endings
  BY <1>1, Places DEF Endings, Alive
<1>3. Within(budget)' /\ loopAt' \in LoopPlaces
  BY <1>1, <1>2, Places DEF Within, LoopPlaces
<1> QED
  BY <1>1, <1>2, <1>3, Places, LetGo
-----------------------------------------------------------------------------
(* The steps that replace the context, or add to it. *)
LEMMA CoveredIsCovering == TurnsCovered <=> Covering(context)
BY DEF TurnsCovered, Covering

(* The new context of a step that keeps no fork and announces none. *)
LEMMA Replaced ==
  ASSUME LInv, NEW m \in LoopMessages, m # <<>>, Covering(m), context' = m,
         UNCHANGED <<correction, telemetry, job, durable, guard>>,
         task' = NoTask, active' = NoActive, Within(budget)', ~JobActive,
         offering' \in {"no", "current", "stale"},
         loopAt' \in LoopPlaces \ {"starting"}, ending' \in Endings,
         loopAt' \in {"exit", "draining"} => ending' # "none",
         loopAt' = "request" => Tokens(m, correction) <= InputLimit
  PROVE  LInv'
<1>1. LoopTypePart
  BY DEF LInv
<1>2. LoopTypePart'
  BY <1>1 DEF LoopTypePart, LoopPlaces, Endings
<1>3. SplicePart'
  BY DEF SplicePart, Splicing, NoTask
<1>4. TurnsCovered'
  BY DEF TurnsCovered, Covering
<1>5. ShapePart' /\ DurablePart'
  BY DEF ShapePart, DurablePart, JobActive, NoTask
<1>6. FitPart'
  BY DEF FitPart, Size, InputLimit
<1> QED
  BY <1>2, <1>3, <1>4, <1>5, <1>6 DEF LInv

LEMMA SplicedContext ==
  ASSUME LInv, task.phase = "succeeded", NEW size \in 1..SummaryRoom
  PROVE  Spliced(size) \in LoopMessages /\ Spliced(size) # <<>> /\ Covering(Spliced(size))
<1> DEFINE r == [from |-> 1, upto |-> task.upto, text |-> size + Guide, media |-> 0,
                 embeds |-> TRUE]
<1>1. LoopTypePart /\ task \in ReadyTasks
  BY TaskCases DEF LInv
<1>2. task.splice \in 1..Len(context) /\ context[task.splice].upto = task.upto
  BY DEF LInv, SplicePart, Splicing
<1>3. r \in LoopMessage /\ r.from = 1 /\ r.upto = task.upto
  <2>1. size \in Nat /\ size + Guide \in Nat
    BY BackgroundAssumption
  <2>2. task.upto \in Nat
    BY <1>1, TaskCases
  <2> QED
    BY <2>1, <2>2 DEF LoopMessage
<1>4. Spliced(size) = <<r>> \o SubSeq(context, task.splice + 1, Len(context))
  BY DEF Spliced
<1>5. context \in Seq(LoopMessage) /\ Covering(context)
  BY <1>1, CoveredIsCovering DEF LInv, LoopTypePart, LoopMessages
<1>6. task.splice \in Nat /\ task.splice <= Len(context)
  BY <1>2, <1>1, ContextFacts
<1> HIDE DEF r
<1>7. Spliced(size) \in Seq(LoopMessage) /\ Spliced(size) # <<>>
  BY <1>3, <1>4, <1>5, <1>6, SplicedSeq
<1>8. Covering(Spliced(size))
  BY <1>2, <1>3, <1>4, <1>5, SplicedCovers
<1> QED
  BY <1>7, <1>8 DEF LoopMessages

LEMMA ReadyIsLocal ==
  ASSUME LInv, task.phase = "succeeded", Alive
  PROVE  ~durable /\ ~JobActive
BY Places DEF LInv, DurablePart

LEMMA MergeForkKeeps ==
  ASSUME LInv, Alive, MergeFork("request"), Within(budget)',
         UNCHANGED <<correction, telemetry, offering, job, guard, durable>>
  PROVE  LInv'
<1>1. PICK size \in 1..SummaryRoom :
         /\ task.phase = "succeeded"
         /\ context' = Spliced(size) /\ task' = NoTask /\ active' = NoActive
         /\ \/ /\ Tokens(Spliced(size), correction) < InputLimit
               /\ loopAt' = "request" /\ ending' = ending
            \/ loopAt' = "exit" /\ ending' = "failed"
  BY DEF MergeFork, LeaveLoop
<1>2. Spliced(size) \in LoopMessages /\ Spliced(size) # <<>> /\ Covering(Spliced(size))
  BY <1>1, SplicedContext
<1>3. ~JobActive
  BY <1>1, ReadyIsLocal
<1>4. loopAt' \in LoopPlaces \ {"starting"} /\ ending' \in Endings /\ offering' \in {"no", "current", "stale"}
  BY <1>1, Places DEF LoopPlaces, Endings
<1>5. loopAt' = "request" => Tokens(Spliced(size), correction) <= InputLimit
  <2>1. Tokens(Spliced(size), correction) \in Nat
    BY <1>2, TokensTyped DEF LInv, LoopTypePart
  <2> QED
    BY <1>1, <2>1, InputLimitTyped
<1> QED
  BY <1>1, <1>2, <1>3, <1>4, <1>5, Replaced

LEMMA MergeRefusedKeeps ==
  ASSUME LInv, Alive, MergeRefused, Within(budget)', loopAt # "starting",
         UNCHANGED <<context, active, correction, telemetry, offering, job, guard, durable>>
  PROVE  LInv'
<1>1. task' = NoTask /\ loopAt' = "exit" /\ ending' = "failed"
  BY DEF MergeRefused, LeaveLoop
<1>2. loopAt' \in LoopPlaces /\ ending' \in Endings
  BY <1>1 DEF LoopPlaces, Endings
<1> QED
  BY <1>1, <1>2, Places, LetGo

LEMMA MergeAtBoundaryKeeps ==
  ASSUME LInv, NEW p, MergeAtBoundary(p)
  PROVE  LInv'
<1>1. /\ UNCHANGED <<correction, telemetry, offering, job, guard, durable>>
      /\ loopAt = "boundary" /\ budget' = Refreshed(p)
      /\ MergeFork("request") \/ (MergeRefused /\ UNCHANGED <<context, active>>)
  BY DEF MergeAtBoundary, AtBoundary
<1>2. Within(budget)'
  BY <1>1, RefreshedWithin DEF Within, LInv
<1>3. Alive
  BY <1>1 DEF Alive
<1> QED
  BY <1>1, <1>2, <1>3, MergeForkKeeps, MergeRefusedKeeps

LEMMA MergeAfterWaitKeeps ==
  ASSUME LInv, MergeAfterWait
  PROVE  LInv'
<1>1. /\ UNCHANGED <<correction, telemetry, offering, job, guard, durable, budget>>
      /\ loopAt = "waiting"
      /\ MergeFork("request") \/ (MergeRefused /\ UNCHANGED <<context, active>>)
  BY DEF MergeAfterWait
<1>2. Within(budget)'
  BY <1>1, Places DEF Within
<1>3. Alive
  BY <1>1 DEF Alive
<1> QED
  BY <1>1, <1>2, <1>3, MergeForkKeeps, MergeRefusedKeeps

LEMMA FinalizeReadyKeeps ==
  ASSUME LInv, FinalizeReady
  PROVE  LInv'
<1>1. PICK size \in 1..SummaryRoom :
         /\ task.phase = "succeeded"
         /\ \/ context' = Spliced(size) /\ loopAt' \in {ending, "failed"}
            \/ context' = context /\ loopAt' = "failed"
  BY DEF FinalizeReady
<1>2. /\ UNCHANGED <<correction, telemetry, budget, offering, job, guard, ending, durable>>
      /\ task' = NoTask /\ active' = NoActive /\ loopAt \in {"exit", "draining"}
  BY DEF FinalizeReady, Finalizing
<1>3. ~JobActive
  BY <1>1, <1>2, ReadyIsLocal DEF Alive
<1>4. /\ loopAt' \in {"done", "failed", "paused"} /\ loopAt' \in LoopPlaces
      /\ ending' \in Endings /\ Within(budget)' /\ offering' \in {"no", "current", "stale"}
  BY <1>1, <1>2, Places DEF Endings, LoopPlaces, Within
<1>5. PICK m \in {Spliced(size), context} : context' = m
  BY <1>1
<1>6. m \in LoopMessages /\ m # <<>> /\ Covering(m)
  BY <1>1, <1>5, SplicedContext, CoveredIsCovering DEF LInv, LoopTypePart
<1> QED
  BY <1>2, <1>3, <1>4, <1>5, <1>6, Replaced

(* Messages that stand for the same turns. *)
LEMMA SameTurns ==
  ASSUME LInv, NEW m, DOMAIN m = DOMAIN context, m = [i \in DOMAIN context |-> m[i]],
         \A i \in 1..Len(context) : /\ m[i] \in LoopMessage
                                    /\ m[i].from = context[i].from /\ m[i].upto = context[i].upto
  PROVE  m \in LoopMessages /\ m # <<>> /\ Len(m) = Len(context) /\ Covering(m)
<1>1. LoopTypePart /\ Len(context) \in Nat \ {0} /\ DOMAIN context = 1..Len(context)
  BY ContextFacts DEF LInv
<1>2. m \in [1..Len(context) -> LoopMessage]
  BY <1>1
<1>3. m \in Seq(LoopMessage) /\ Len(m) = Len(context)
  BY <1>1, <1>2
<1>4. context \in Seq(LoopMessage) /\ context # <<>> /\ Covering(context)
  BY <1>1, CoveredIsCovering DEF LInv, LoopTypePart, LoopMessages
<1>5. Covering(m)
  BY <1>3, <1>4, SameTurnsCover
<1> QED
  BY <1>1, <1>3, <1>5, EmptySeq DEF LoopMessages
LEMMA WithoutMediaSame ==
  ASSUME LInv
  PROVE  LET m == WithoutMedia(context)
         IN  m \in LoopMessages /\ m # <<>> /\ Covering(m)
<1> DEFINE m == WithoutMedia(context)
<1>1. LoopTypePart /\ DOMAIN context = 1..Len(context)
      /\ \A i \in 1..Len(context) : context[i] \in LoopMessage
  BY ContextFacts DEF LInv
<1>2. m = [i \in DOMAIN context |-> [context[i] EXCEPT !.media = 0]]
  BY DEF WithoutMedia
<1>3. ASSUME NEW i \in 1..Len(context)
      PROVE  /\ m[i] \in LoopMessage
             /\ m[i].from = context[i].from /\ m[i].upto = context[i].upto
  <2>1. context[i] \in LoopMessage /\ m[i] = [context[i] EXCEPT !.media = 0]
    BY <1>1, <1>2
  <2> HIDE DEF m
  <2> QED
    BY <2>1 DEF LoopMessage
<1>4. DOMAIN m = DOMAIN context /\ m = [i \in DOMAIN context |-> m[i]]
  BY <1>2
<1> HIDE DEF m
<1>5. m \in LoopMessages /\ m # <<>> /\ Covering(m)
  BY <1>3, <1>4, SameTurns
<1> QED
  BY <1>5 DEF m

LEMMA WholeCovers ==
  ASSUME LInv, NEW size \in 1..SummaryRoom
  PROVE  Whole(size) \in LoopMessages /\ Whole(size) # <<>> /\ Covering(Whole(size))
<1> DEFINE r == [from |-> context[1].from, upto |-> LastOf(context), text |-> size + Guide,
                 media |-> 0, embeds |-> TRUE]
<1>1. /\ Len(context) \in Nat \ {0} /\ LastOf(context) \in Nat
      /\ \A i \in 1..Len(context) : context[i].from \in Nat
  BY ContextFacts DEF LInv
<1>2. context[1].from = 1
  BY DEF LInv, TurnsCovered
<1>3. size + Guide \in Nat
  BY BackgroundAssumption
<1>4. r \in LoopMessage /\ r.from = 1
  BY <1>1, <1>2, <1>3 DEF LoopMessage
<1>5. Whole(size) = <<r>>
  BY DEF Whole
<1> HIDE DEF r
<1>6. <<r>> \in Seq(LoopMessage) /\ <<r>> # <<>> /\ Len(<<r>>) = 1 /\ <<r>>[1] = r
  BY <1>4
<1>7. Covering(<<r>>)
  BY <1>4, <1>6 DEF Covering
<1> QED
  BY <1>5, <1>6, <1>7 DEF LoopMessages

LEMMA CompactNowKeeps ==
  ASSUME LInv, CompactNow
  PROVE  LInv'
<1>1. /\ UNCHANGED <<correction, telemetry, budget, task, active, offering, job, guard, durable>>
      /\ loopAt \in {"compacting", "shrinking"}
  BY DEF CompactNow
<1>2. PICK size \in 1..SummaryRoom :
         \/ /\ Size(Compacted(size)) < Min({Size(context), InputLimit})
            /\ context' = Compacted(size) /\ loopAt' \in {"boundary", "request"}
            /\ ending' = ending
         \/ context' = context /\ loopAt' = "exit" /\ ending' = "failed"
  BY DEF CompactNow, LeaveLoop, Resumes
<1>3. task' = NoTask /\ active' = NoActive /\ ~JobActive
  BY <1>1, Places DEF Alive
<1>4. PICK m \in {Compacted(size), context} : context' = m
  BY <1>2
<1>5. Compacted(size) \in LoopMessages /\ Compacted(size) # <<>> /\ Covering(Compacted(size))
  BY WithoutMediaSame, WholeCovers DEF Compacted
<1>6. m \in LoopMessages /\ m # <<>> /\ Covering(m)
  BY <1>5, CoveredIsCovering DEF LInv, LoopTypePart
<1>7. loopAt' = "request" => Tokens(m, correction) <= InputLimit
  <2>1. Size(context) \in Int /\ InputLimit \in Int
    BY ContextFacts, InputLimitTyped DEF LInv
  <2>2. Min({Size(context), InputLimit}) \in Int /\ Min({Size(context), InputLimit}) <= InputLimit
    BY <2>1, MinOfTwo
  <2>3. Tokens(m, correction) \in Nat
    BY <1>6, TokensTyped DEF LInv, LoopTypePart
  <2>4. loopAt' = "request" => Tokens(m, correction) < Min({Size(context), InputLimit})
    BY <1>2, <1>4 DEF Size
  <2> QED
    BY <2>1, <2>2, <2>3, <2>4
<1>8. /\ loopAt' \in LoopPlaces \ {"starting"} /\ ending' \in Endings /\ Within(budget)'
      /\ offering' \in {"no", "current", "stale"}
      /\ loopAt' \in {"exit", "draining"} => ending' # "none"
  BY <1>1, <1>2, Places DEF Endings, LoopPlaces, Within
<1> QED
  BY <1>1, <1>3, <1>4, <1>6, <1>7, <1>8, Replaced

LEMMA FoldedMessage ==
  ASSUME NEW r \in LoopMessage
  PROVE  LET u == [r EXCEPT !.text = 2, !.media = 0]
         IN  u \in LoopMessage /\ u.from = r.from /\ u.upto = r.upto
BY DEF LoopMessage

LEMMA FoldResultsKeeps ==
  ASSUME LInv, FoldResults
  PROVE  LInv'
<1> DEFINE m == Folded(context)
<1>1. /\ context' = m /\ loopAt = "boundary"
      /\ UNCHANGED <<correction, telemetry, budget, task, active, offering, job, guard, loopAt,
                     ending, durable>>
  BY DEF FoldResults
<1>2. LoopTypePart /\ DOMAIN context = 1..Len(context)
      /\ \A i \in 1..Len(context) : context[i] \in LoopMessage
  BY ContextFacts DEF LInv
<1>3. m = [i \in DOMAIN context |-> IF Foldable(context[i])
                                    THEN [context[i] EXCEPT !.text = 2, !.media = 0]
                                    ELSE context[i]]
  BY DEF Folded
<1>4. ASSUME NEW i \in 1..Len(context)
      PROVE  /\ m[i] \in LoopMessage
             /\ m[i].from = context[i].from /\ m[i].upto = context[i].upto
  <2>1. /\ context[i] \in LoopMessage
        /\ m[i] = [context[i] EXCEPT !.text = 2, !.media = 0] \/ m[i] = context[i]
    BY <1>2, <1>3
  <2> HIDE DEF m
  <2>2. CASE m[i] = context[i]
    BY <2>1, <2>2
  <2>3. CASE m[i] = [context[i] EXCEPT !.text = 2, !.media = 0]
    BY <2>1, <2>3, FoldedMessage
  <2> QED
    BY <2>1, <2>2, <2>3
<1>5. DOMAIN m = DOMAIN context /\ m = [i \in DOMAIN context |-> m[i]]
  BY <1>3
<1> HIDE DEF m
<1>6. m \in LoopMessages /\ m # <<>> /\ Len(m) = Len(context) /\ Covering(m)
  BY <1>4, <1>5, SameTurns
<1>7. LoopTypePart'
  BY <1>1, <1>2, <1>6 DEF LoopTypePart, Within
<1>8. ASSUME NEW shape \in Seq(Nat), Stands(shape)
      PROVE  Len(shape) <= Len(context') /\ \A i \in DOMAIN shape : context'[i].upto = shape[i]
  <2>1. /\ DOMAIN shape = 1..Len(shape) /\ Len(shape) \in Nat /\ Len(context) \in Nat
        /\ Len(shape) <= Len(context) /\ \A i \in DOMAIN shape : context[i].upto = shape[i]
    BY <1>2, <1>8, ContextFacts, LenProperties DEF Stands
  <2>2. \A i \in DOMAIN shape : i \in 1..Len(context)
    BY <2>1
  <2>3. \A i \in DOMAIN shape : context'[i].upto = shape[i]
    BY <1>1, <1>4, <2>1, <2>2
  <2>4. Len(context') = Len(context)
    BY <1>1, <1>6
  <2> QED
    BY <2>1, <2>3, <2>4
<1>9. SplicePart'
  <2>1. Splicing => task.splice \in 1..Len(context) /\ context[task.splice].upto = task.upto
    BY DEF LInv, SplicePart
  <2>2. Splicing' => task'.splice \in 1..Len(context') /\ context'[task'.splice].upto = task'.upto
    BY <1>1, <1>4, <1>6, <2>1 DEF Splicing
  <2> QED
    BY <1>1, <2>2 DEF LInv, SplicePart
<1>10. ShapePart'
  <2>1. active # NoActive => active.shape \in Seq(Nat) /\ Stands(active.shape)
    BY <1>2, ActiveCases DEF LInv, ShapePart
  <2>2. JobActive => job.shape \in Seq(Nat) /\ Stands(job.shape)
    BY <1>2, JobCases DEF LInv, ShapePart, JobActive
  <2>3. (active # NoActive => Stands(active.shape))'
    BY <1>1, <1>8, <2>1 DEF Stands
  <2>4. (JobActive => Stands(job.shape))'
    BY <1>1, <1>8, <2>2 DEF Stands, JobActive
  <2> QED
    BY <1>1, <2>3, <2>4 DEF ShapePart
<1>11. TurnsCovered' /\ FitPart' /\ DurablePart'
  BY <1>1, <1>6 DEF LInv, TurnsCovered, Covering, FitPart, DurablePart, JobActive, Alive
<1> QED
  BY <1>7, <1>9, <1>10, <1>11 DEF LInv
LEMMA RecordedTyped ==
  ASSUME LoopTypePart, NEW counted \in Nat
  PROVE  Recorded(counted).input \in Int /\ Recorded(counted).grown \in Seq(Int)
<1> DEFINE delta == counted - telemetry.input
           grown == IF telemetry.input >= 0 /\ delta > 0
                    THEN Append(telemetry.grown, delta) ELSE telemetry.grown
<1>1. Recorded(counted) = [input |-> counted,
                           grown |-> IF Len(grown) > 3 THEN Tail(grown) ELSE grown]
  BY DEF Recorded
<1>2. telemetry.input \in Int /\ telemetry.grown \in Seq(Int) /\ delta \in Int
  BY DEF LoopTypePart
<1> HIDE DEF delta
<1>3. grown \in Seq(Int)
  BY <1>2, AppendProperties
<1> HIDE DEF grown
<1>4. Len(grown) > 3 => Tail(grown) \in Seq(Int)
  BY <1>3, EmptySeq, HeadTailProperties, LenProperties
<1> QED
  BY <1>1, <1>3, <1>4

LEMMA MeasuredTyped ==
  ASSUME LInv, Measured
  PROVE  correction' \in Int /\ telemetry'.input \in Int /\ telemetry'.grown \in Seq(Int)
<1>1. PICK c \in Corrections : correction' = c /\ telemetry' = Recorded(Tokens(context, c))
  BY DEF Measured
<1>2. c \in Int
  BY BackgroundAssumption
<1>3. Tokens(context, c) \in Nat
  BY <1>2, TokensTyped DEF LInv, LoopTypePart
<1> QED
  BY <1>1, <1>2, <1>3, RecordedTyped DEF LInv

(* One more turn, by an answer. *)
LEMMA TurnAppended ==
  ASSUME LInv, NEW e \in LoopMessage, e.from = Turn, context' = Append(context, e),
         loopAt = "request",
         UNCHANGED <<budget, task, active, offering, job, durable>>,
         correction' \in Int, telemetry'.input \in Int, telemetry'.grown \in Seq(Int),
         guard' = "none",
         \/ loopAt' = "boundary" /\ ending' = ending
         \/ loopAt' = "exit" /\ ending' \in {"paused", "done"}
  PROVE  LInv'
<1>1. /\ LoopTypePart /\ Len(context) \in Nat \ {0} /\ context \in Seq(LoopMessage)
      /\ e.from = context[Len(context)].upto + 1
      /\ Covering(context) /\ context # <<>>
  BY ContextFacts, CoveredIsCovering DEF LInv, LoopTypePart, LoopMessages, Turn
<1>2. /\ context' \in Seq(LoopMessage) /\ Len(context') = Len(context) + 1
      /\ \A i \in 1..Len(context) : context'[i] = context[i]
  BY <1>1, AppendProperties
<1>3. Covering(context')
  BY <1>1, AppendedCovers
<1>4. LoopTypePart'
  <2>1. context' \in LoopMessages /\ context' # <<>>
    BY <1>1, <1>2, EmptySeq DEF LoopMessages
  <2>2. loopAt' \in LoopPlaces /\ ending' \in Endings
        /\ (loopAt' \in {"exit", "draining"} => ending' # "none")
    BY Places DEF LoopPlaces, Endings
  <2> QED
    BY <1>1, <2>1, <2>2 DEF LoopTypePart, LoopPlaces, Endings, Within
<1>5. ASSUME NEW shape \in Seq(Nat), Stands(shape)
      PROVE  Len(shape) <= Len(context') /\ \A i \in DOMAIN shape : context'[i].upto = shape[i]
  <2>1. /\ DOMAIN shape = 1..Len(shape) /\ Len(shape) \in Nat
        /\ Len(shape) <= Len(context) /\ \A i \in DOMAIN shape : context[i].upto = shape[i]
    BY <1>5, LenProperties DEF Stands
  <2>2. \A i \in DOMAIN shape : i \in 1..Len(context)
    BY <1>1, <2>1
  <2> QED
    BY <1>1, <1>2, <2>1, <2>2
<1>6. SplicePart'
  <2>1. Splicing => task.splice \in 1..Len(context) /\ context[task.splice].upto = task.upto
    BY DEF LInv, SplicePart
  <2>2. Splicing' => task'.splice \in 1..Len(context') /\ context'[task'.splice].upto = task'.upto
    BY <1>1, <1>2, <2>1 DEF Splicing
  <2> QED
    BY <2>2 DEF LInv, SplicePart
<1>7. ShapePart'
  <2>1. active # NoActive => active.shape \in Seq(Nat) /\ Stands(active.shape)
    BY <1>1, ActiveCases DEF LInv, ShapePart
  <2>2. JobActive => job.shape \in Seq(Nat) /\ Stands(job.shape)
    BY <1>1, JobCases DEF LInv, ShapePart, JobActive
  <2>3. (active # NoActive => Stands(active.shape))'
    BY <1>5, <2>1 DEF Stands
  <2>4. (JobActive => Stands(job.shape))'
    BY <1>5, <2>2 DEF Stands, JobActive
  <2> QED
    BY <2>3, <2>4 DEF ShapePart
<1>8. TurnsCovered' /\ FitPart'
  BY <1>3 DEF TurnsCovered, Covering, FitPart
<1>9. DurablePart'
  BY DEF LInv, DurablePart, JobActive, Alive
<1> QED
  BY <1>4, <1>6, <1>7, <1>8, <1>9 DEF LInv

LEMMA AnswerTextKeeps ==
  ASSUME LInv, AnswerText
  PROVE  LInv'
<1>1. PICK said \in 1..OutputRoom : context' = Answered(said)
  BY DEF AnswerText
<1> DEFINE e == [from |-> Turn, upto |-> Turn, text |-> said, media |-> 0, embeds |-> FALSE]
<1>2. Turn \in Nat
  BY ContextFacts DEF LInv, Turn
<1>3. said \in Nat
  BY BackgroundAssumption
<1>4. e \in LoopMessage /\ e.from = Turn
  BY <1>2, <1>3 DEF LoopMessage
<1>5. context' = Append(context, e)
  BY <1>1 DEF Answered
<1>6. /\ UNCHANGED <<budget, task, active, offering, job, durable>>
      /\ guard' = "none" /\ Measured /\ loopAt = "request"
      /\ loopAt' = "exit" /\ ending' = "done"
  BY DEF AnswerText, LeaveLoop, MayAsk
<1> HIDE DEF e
<1> QED
  BY <1>4, <1>5, <1>6, MeasuredTyped, TurnAppended

(* What is admitted of a result is a text and media still. *)
LEMMA AdmittedTyped ==
  ASSUME NEW m, NEW r \in LoopMessage
  PROVE  AdmittedResult(m, r).text \in Nat /\ AdmittedResult(m, r).media \in Nat
<1> DEFINE a == AdmittedResult(m, r)
<1>1. \/ a = r
      \/ a = [r EXCEPT !.media = 0]
      \/ a = [r EXCEPT !.text = 1, !.media = 0]
  BY DEF AdmittedResult
<1>2. LET u == [r EXCEPT !.media = 0] IN u.text \in Nat /\ u.media \in Nat
  BY DEF LoopMessage
<1>3. LET u == [r EXCEPT !.text = 1, !.media = 0] IN u.text \in Nat /\ u.media \in Nat
  BY DEF LoopMessage
<1>4. r.text \in Nat /\ r.media \in Nat
  BY DEF LoopMessage
<1> HIDE DEF a
<1>5. a.text \in Nat /\ a.media \in Nat
  BY <1>1, <1>2, <1>3, <1>4
<1> QED
  BY <1>5 DEF a

LEMMA AnswerToolsKeeps ==
  ASSUME LInv, AnswerTools
  PROVE  LInv'
<1>1. PICK said \in 1..OutputRoom, text \in {0, 3}, media \in {0, 3} :
         context' = ToolTurn(said, [text |-> text, media |-> media])
  BY DEF AnswerTools
<1> DEFINE returned == [from |-> Turn, upto |-> Turn, text |-> text, media |-> media,
                        embeds |-> FALSE]
           admitted == AdmittedResult(Answered(said), returned)
           e == [from |-> Turn, upto |-> Turn, text |-> said + admitted.text,
                 media |-> admitted.media, embeds |-> FALSE]
<1>2. Turn \in Nat
  BY ContextFacts DEF LInv, Turn
<1>3. said \in Nat
  BY BackgroundAssumption
<1>4. admitted.text \in Nat /\ admitted.media \in Nat
  <2>1. returned \in LoopMessage
    BY <1>2 DEF LoopMessage
  <2> HIDE DEF returned
  <2> QED
    BY <2>1, AdmittedTyped
<1>5. context' = Append(context, e)
  BY <1>1 DEF ToolTurn
<1> HIDE DEF admitted
<1>6. e \in LoopMessage /\ e.from = Turn
  BY <1>2, <1>3, <1>4 DEF LoopMessage
<1>7. /\ UNCHANGED <<budget, task, active, offering, job, durable>>
      /\ guard' = "none" /\ Measured /\ loopAt = "request"
      /\ \/ loopAt' = "boundary" /\ ending' = ending
         \/ loopAt' = "exit" /\ ending' = "paused"
  BY DEF AnswerTools, LeaveLoop, MayAsk
<1> HIDE DEF e
<1> QED
  BY <1>5, <1>6, <1>7, MeasuredTyped, TurnAppended

-----------------------------------------------------------------------------
LEMMA LoopInitHolds ==
  ASSUME BackgroundInit
  PROVE  LInv
<1> DEFINE r == [from |-> 1, upto |-> 1, text |-> 3, media |-> 0, embeds |-> FALSE]
<1>1. r \in LoopMessage /\ r.from = 1
  BY DEF LoopMessage
<1>2. context = <<r>> /\ telemetry = [input |-> -1, grown |-> <<>>]
  BY DEF BackgroundInit
<1> HIDE DEF r
<1>3. /\ context \in Seq(LoopMessage) /\ context # <<>> /\ Len(context) = 1 /\ context[1] = r
      /\ telemetry.input \in Int /\ telemetry.grown \in Seq(Int)
  BY <1>1, <1>2
<1>4. Within(budget)
  <2>1. PICK p \in Paces : budget = BudgetOf(p)
    BY DEF BackgroundInit
  <2> QED
    BY <1>3, <2>1, BudgetWithin
<1>5. /\ task = NoTask /\ active = NoActive /\ job = NoJob /\ loopAt = "boundary"
      /\ ending = "none" /\ offering = "no" /\ guard = "none" /\ durable \in BOOLEAN
      /\ correction = 0
  BY DEF BackgroundInit
<1>6. LoopTypePart
  BY <1>3, <1>4, <1>5 DEF LoopTypePart, LoopMessages
<1>7. TurnsCovered
  BY <1>1, <1>3 DEF TurnsCovered
<1>8. SplicePart /\ ShapePart /\ DurablePart /\ FitPart
  BY <1>5 DEF SplicePart, Splicing, ShapePart, DurablePart, FitPart, JobActive, NoTask, NoJob
<1> QED
  BY <1>6, <1>7, <1>8 DEF LInv

LEMMA LoopStep ==
  ASSUME LInv, [BackgroundNext]_backgroundVars
  PROVE  LInv'
<1>1. CASE UNCHANGED backgroundVars
  <2>1. LoopTypePart' /\ TurnsCovered'
    BY <1>1 DEF backgroundVars, LInv, LoopTypePart, TurnsCovered, Within
  <2>2. SplicePart' /\ ShapePart'
    BY <1>1 DEF backgroundVars, LInv, SplicePart, Splicing, ShapePart, JobActive, Stands
  <2>3. DurablePart' /\ FitPart'
    BY <1>1 DEF backgroundVars, LInv, DurablePart, Alive, JobActive, FitPart, Size
  <2> QED
    BY <2>1, <2>2, <2>3 DEF LInv
<1>2. ASSUME NEW p \in Paces,
             Proceed(p) \/ StartFork(p) \/ AwaitFork(p) \/ MergeAtBoundary(p)
                \/ YieldToJob(p) \/ ForegroundDue(p)
      PROVE  LInv'
  BY <1>2, ProceedKeeps, StartForkKeeps, WaitingKeeps, MergeAtBoundaryKeeps
<1>3. CASE \/ PrepareShadow \/ StartLocal \/ PrepareFails \/ GiveUpWaiting \/ MergeAfterWait
           \/ Foreground \/ CompactNow \/ CompactNowFails
  BY <1>3, PrepareShadowKeeps, ForkTurnsKeep, GiveUpWaitingKeeps, MergeAfterWaitKeeps,
     ForegroundKeeps, CompactNowKeeps, LeavingKeeps
<1>4. CASE \/ AcquireGuard \/ GuardLapses \/ AnswerTools \/ AnswerText \/ DropAnswer
           \/ Rejected \/ RequestFails \/ FoldResults \/ StopSeen
  BY <1>4, LeavingKeeps, AnswerToolsKeeps, AnswerTextKeeps, FoldResultsKeeps
<1>5. CASE \/ SummaryFails \/ SummaryReady \/ OfferSummary \/ OfferAnswered \/ ForkTimesOut
           \/ WorkerTakes \/ WorkerEnds
  BY <1>5, ForkTurnsKeep, SummaryReadyKeeps, OfferAnsweredKeeps, WorkerKeeps
<1>6. CASE \/ HandOffFork \/ HandOffRefused \/ FinalizeIdle \/ FinalizeReady \/ Over
  BY <1>1, <1>6, HandOffForkKeeps, LeavingKeeps, FinalizeIdleKeeps, FinalizeReadyKeeps DEF Over
<1> QED
  BY <1>1, <1>2, <1>3, <1>4, <1>5, <1>6 DEF BackgroundNext

LEMMA LoopInvHolds == BackgroundSpec => []LInv
<1>1. BackgroundInit => LInv
  BY LoopInitHolds
<1>2. LInv /\ [BackgroundNext]_backgroundVars => LInv'
  BY LoopStep
<1> QED
  BY <1>1, <1>2, PTL DEF BackgroundSpec

(* Type correctness of the silent compaction of a loop. *)
THEOREM BackgroundTypeCorrect == BackgroundSpec => []BackgroundTypeOK
<1>1. LInv => BackgroundTypeOK
  <2> SUFFICES ASSUME LInv PROVE BackgroundTypeOK
    OBVIOUS
  <2>1. LoopTypePart
    BY DEF LInv
  <2> QED
    BY <2>1, TaskCases, JobCases DEF BackgroundTypeOK, LoopTypePart
<1> QED
  BY <1>1, LoopInvHolds, PTL

(* A request of the loop leaves room for its answer and a fork for its summary; the context
   stands for every turn once, in order, whatever was spliced, folded, stripped or compacted;
   and the loop keeps the prefix of a job that may still be merged. *)
THEOREM BackgroundIsSound == BackgroundSpec => []BackgroundSound
<1>1. LInv => BackgroundSound
  <2> SUFFICES ASSUME LInv PROVE BackgroundSound
    OBVIOUS
  <2>1. RequestsFit
    BY DEF LInv, FitPart, SplicePart, RequestsFit, Calling
  <2>2. PreparedPrefixKept
    BY DEF LInv, ShapePart, JobActive, Stands, PreparedPrefixKept
  <2> QED
    BY <2>1, <2>2 DEF BackgroundSound, LInv
<1> QED
  BY <1>1, LoopInvHolds, PTL
-----------------------------------------------------------------------------
(* The operator's repair command. *)

RepairPlaces == {"idle", "conversation", "runtime", "authority", "run", "job", "enqueue", "create",
                 "rollback", "activate", "done"}
RepairResults == {"none", "refused", "reported", "manual", "prepared", "rolled back", "activated",
                  "failed"}
RunStates == {"none", "created", "queued", "leased", "working", "ended"}

Plans    == [rev : Nat, base : Nat, who : Nat]
Sights   == [rev : Nat, base : Nat, fence : BOOLEAN, pointer : BOOLEAN, who : Nat]
GivenCommands ==
    [at : RepairPlaces, pass : {"none", "plan", "activate", "verify"},
     mode : {"none", "dry-run", "prepare", "activate"}, attempt : Attempts \cup {0},
     plan : Plans, seen : Sights, job : Nat, result : RepairResults]
JobKeys  == (Attempts \cup {0}) \X Nat \X Nat
RepairJobSet ==
    [keys : SUBSET JobKeys, status : {"queued", "leased", "merged", "failed", "cancelled"},
     active : BOOLEAN, due : BOOLEAN, rev : Nat, base : Nat, part : Nat, who : Nat]

RepairTypePart ==
    /\ conv \in [rev : 1..MaxRevision, base : Nat, fence : BOOLEAN]
    /\ authority \in Nat
    /\ agentRun \in RunStates
    /\ pointer \in BOOLEAN
    /\ repairJobs \in Seq(RepairJobSet)
    /\ op \in [Operators -> GivenCommands]

(* One job of a conversation is active at most, and none that was cancelled. *)
OneJobPart ==
    /\ \A i, j \in 1..Len(repairJobs) : repairJobs[i].active /\ repairJobs[j].active => i = j
    /\ \A j \in 1..Len(repairJobs) : repairJobs[j].active => repairJobs[j].status # "cancelled"

(* The command has seen that no run worked, after its job was there to keep one from it. *)
HasSeenQuiet(x) ==
    \/ x.result \in {"prepared", "activated"}
    \/ x.pass = "activate" /\ x.at \in {"job", "activate"}

CommandSound(x, jobs, run) ==
    /\ x.job \in 0..Len(jobs)
    /\ x.pass \in {"verify", "activate"} \/ x.result \in {"prepared", "activated", "rolled back"}
       => x.job # 0
    /\ x.at = "rollback" => x.pass = "verify"
    /\ x.at = "activate" => x.pass = "activate"
    /\ x.at # "done" => x.result = "none"
    /\ HasSeenQuiet(x) /\ jobs[x.job].active => run # "working"
    /\ x.result = "rolled back" => ~jobs[x.job].active

CommandsPart == \A o \in Operators : CommandSound(op[o], repairJobs, agentRun)

RepairInv == RepairTypePart /\ OneJobPart /\ CommandsPart

-----------------------------------------------------------------------------
LEMMA FreshTyped == Fresh \in GivenCommands /\ NoPlan \in Plans /\ Unseen \in Sights
BY DEF Fresh, GivenCommands, NoPlan, Plans, Unseen, Sights, RepairPlaces, RepairResults

(* A command that knows nothing yet, or has given up. *)
LEMMA NothingSeen ==
  ASSUME NEW x \in GivenCommands, NEW jobs \in Seq(RepairJobSet), NEW run,
         x.job \in 0..Len(jobs), x.pass \in {"none", "plan"}, x.at \notin {"rollback", "activate"},
         x.at # "done" => x.result = "none",
         x.result \in {"none", "refused", "reported", "manual", "failed"}
  PROVE  CommandSound(x, jobs, run)
BY DEF CommandSound, HasSeenQuiet

LEMMA RepairStarts == RepairInit => RepairInv
<1> SUFFICES ASSUME RepairInit PROVE RepairInv
  OBVIOUS
<1> USE DEF RepairInit
<1>1. conv \in [rev : 1..MaxRevision, base : Nat, fence : BOOLEAN]
  BY RepairAssumption
<1>2. repairJobs \in Seq(RepairJobSet) /\ Len(repairJobs) = 0
  OBVIOUS
<1>3. op \in [Operators -> GivenCommands]
  BY FreshTyped
<1>4. RepairTypePart
  BY <1>1, <1>2, <1>3 DEF RepairTypePart, RunStates
<1>5. OneJobPart
  BY <1>2 DEF OneJobPart
<1>6. ASSUME NEW o \in Operators PROVE CommandSound(op[o], repairJobs, agentRun)
  <2>1. op[o].at = "idle" /\ op[o].pass = "none" /\ op[o].job = 0 /\ op[o].result = "none"
    BY DEF Fresh
  <2>2. op[o] \in GivenCommands
    BY <1>3
  <2>3. op[o].job \in 0..Len(repairJobs)
    BY <1>2, <2>1
  <2> HIDE DEF RepairInit
  <2> QED
    BY <1>2, <2>1, <2>2, <2>3, NothingSeen
<1> QED
  BY <1>4, <1>5, <1>6 DEF RepairInv, CommandsPart

(* A step that ends jobs or adds one, and lets no run work, leaves what the commands know. *)
JobsMove ==
    /\ Len(repairJobs') \in Nat /\ Len(repairJobs) <= Len(repairJobs')
    /\ \A j \in 1..Len(repairJobs) : repairJobs'[j].active => repairJobs[j].active
    /\ agentRun' = "working" =>
          agentRun = "working" \/ \A j \in 1..Len(repairJobs) : ~repairJobs[j].active

LEMMA SoundKept ==
  ASSUME RepairTypePart, JobsMove, NEW x \in GivenCommands, CommandSound(x, repairJobs, agentRun)
  PROVE  CommandSound(x, repairJobs', agentRun')
<1>1. Len(repairJobs) \in Nat
  BY LenProperties DEF RepairTypePart
<1> DEFINE n == x.job
<1>2. n \in 0..Len(repairJobs)
  BY DEF CommandSound
<1> HIDE DEF n
<1>3. n \in 0..Len(repairJobs')
  BY <1>1, <1>2 DEF JobsMove
<1>4. x.job \in 0..Len(repairJobs')
  BY <1>3 DEF n
<1>5. CASE x.job = 0
  BY <1>4, <1>5 DEF CommandSound, HasSeenQuiet, JobsMove
<1>6. CASE x.job # 0
  <2>1. x.job \in 1..Len(repairJobs)
    BY <1>1, <1>6, <1>2 DEF n
  <2>2. repairJobs'[x.job].active => repairJobs[x.job].active
    BY <2>1 DEF JobsMove
  <2>3. HasSeenQuiet(x) /\ repairJobs'[x.job].active => agentRun' # "working"
    BY <2>1, <2>2 DEF CommandSound, JobsMove
  <2> QED
    BY <1>4, <2>2, <2>3 DEF CommandSound, HasSeenQuiet
<1> QED
  BY <1>5, <1>6

(* A command's own step. *)
LEMMA CommandKeeps ==
  ASSUME RepairInv, JobsMove, RepairTypePart', OneJobPart', NEW o \in Operators,
         NEW x \in GivenCommands, op' = [op EXCEPT ![o] = x], CommandSound(x, repairJobs', agentRun')
  PROVE  RepairInv'
<1> USE DEF RepairInv
<1>1. ASSUME NEW p \in Operators PROVE CommandSound(op'[p], repairJobs', agentRun')
  <2>1. op \in [Operators -> GivenCommands]
    BY DEF RepairTypePart
  <2>2. CASE p = o
    BY <2>1, <2>2
  <2>3. CASE p # o
    <3>1. op'[p] = op[p] /\ CommandSound(op[p], repairJobs, agentRun)
      BY <2>1, <2>3 DEF CommandsPart
    <3>2. op[p] \in GivenCommands
      BY <2>1
    <3>3. CommandSound(op[p], repairJobs', agentRun')
      BY <3>1, <3>2, SoundKept
    <3> QED
      BY <3>1, <3>3
  <2> QED
    BY <2>2, <2>3
<1> QED
  BY <1>1 DEF CommandsPart
(* A step of the runs, of the workers or of an administrator. *)
LEMMA OthersKeep ==
  ASSUME RepairInv, JobsMove, RepairTypePart', OneJobPart', UNCHANGED op
  PROVE  RepairInv'
<1> USE DEF RepairInv
<1>1. ASSUME NEW p \in Operators PROVE CommandSound(op'[p], repairJobs', agentRun')
  <2>1. op[p] \in GivenCommands
    BY DEF RepairTypePart
  <2>2. CommandSound(op[p], repairJobs, agentRun)
    BY DEF CommandsPart
  <2>3. CommandSound(op[p], repairJobs', agentRun')
    BY <2>1, <2>2, SoundKept
  <2> QED
    BY <2>3
<1> QED
  BY <1>1 DEF CommandsPart

LEMMA SameJobs ==
  ASSUME RepairInv, UNCHANGED repairJobs, agentRun' = "working" => agentRun = "working"
  PROVE  JobsMove /\ OneJobPart' /\ repairJobs' \in Seq(RepairJobSet)
<1>1. Len(repairJobs) \in Nat
  BY LenProperties DEF RepairInv, RepairTypePart
<1>2. JobsMove
  BY <1>1 DEF JobsMove
<1> QED
  BY <1>2 DEF RepairInv, RepairTypePart, OneJobPart

LEMMA JobReplaced ==
  ASSUME RepairInv, NEW j \in 1..Len(repairJobs), NEW r \in RepairJobSet,
         repairJobs' = [repairJobs EXCEPT ![j] = r],
         r.active => repairJobs[j].active /\ r.status # "cancelled",
         agentRun' = "working" => agentRun = "working"
  PROVE  JobsMove /\ OneJobPart' /\ repairJobs' \in Seq(RepairJobSet)
<1>1. repairJobs \in Seq(RepairJobSet)
  BY DEF RepairInv, RepairTypePart
<1>2. Len(repairJobs) \in Nat
  BY <1>1, LenProperties
<1>3. repairJobs' \in Seq(RepairJobSet) /\ Len(repairJobs') = Len(repairJobs)
  BY <1>1, ExceptSeq
<1>4. \A i \in 1..Len(repairJobs) : repairJobs'[i] = IF i = j THEN r ELSE repairJobs[i]
  BY <1>1, ExceptSeq
<1>5. \A i \in 1..Len(repairJobs) : repairJobs'[i].active => repairJobs[i].active
  BY <1>4
<1>6. JobsMove
  BY <1>2, <1>3, <1>5 DEF JobsMove
<1>7. OneJobPart'
  <2>1. \A i, k \in 1..Len(repairJobs') :
           repairJobs'[i].active /\ repairJobs'[k].active => i = k
    BY <1>3, <1>5 DEF RepairInv, OneJobPart
  <2>2. \A i \in 1..Len(repairJobs') :
           repairJobs'[i].active => repairJobs'[i].status # "cancelled"
    BY <1>3, <1>4 DEF RepairInv, OneJobPart
  <2> QED
    BY <2>1, <2>2 DEF OneJobPart
<1> QED
  BY <1>3, <1>6, <1>7

LEMMA JobAdded ==
  ASSUME RepairInv, NEW r \in RepairJobSet, r.status = "queued", ActiveJob = {},
         repairJobs' = Append(repairJobs, r), agentRun' = "working" => agentRun = "working"
  PROVE  /\ JobsMove /\ OneJobPart' /\ repairJobs' \in Seq(RepairJobSet)
         /\ Len(repairJobs') = Len(repairJobs) + 1
<1>1. repairJobs \in Seq(RepairJobSet)
  BY DEF RepairInv, RepairTypePart
<1>2. Len(repairJobs) \in Nat /\ DOMAIN repairJobs = 1..Len(repairJobs)
  BY <1>1, LenProperties
<1>3. /\ repairJobs' \in Seq(RepairJobSet)
      /\ Len(repairJobs') = Len(repairJobs) + 1
      /\ \A i \in 1..Len(repairJobs) : repairJobs'[i] = repairJobs[i]
      /\ repairJobs'[Len(repairJobs) + 1] = r
  BY <1>1, AppendProperties
<1>4. JobsMove
  BY <1>2, <1>3 DEF JobsMove
<1>5. \A i \in 1..Len(repairJobs) : ~repairJobs'[i].active
  BY <1>2, <1>3 DEF ActiveJob
<1>6. OneJobPart'
  BY <1>2, <1>3, <1>5 DEF OneJobPart
<1> QED
  BY <1>3, <1>4, <1>6

LEMMA OneActive ==
  ASSUME RepairInv, NEW j \in DOMAIN repairJobs
  PROVE  j \in 1..Len(repairJobs) /\ repairJobs[j] \in RepairJobSet
BY LenProperties, ElementOfSeq DEF RepairInv, RepairTypePart

LEMMA NewJobTyped ==
  ASSUME RepairInv, NEW key \in JobKeys, NEW plan \in Plans
  PROVE  /\ NewJob(key, plan) \in RepairJobSet
         /\ NewJob(key, plan).status = "queued" /\ NewJob(key, plan).active
<1>1. conv.rev \in Nat
  BY RepairAssumption DEF RepairInv, RepairTypePart
<1>2. plan.rev \in Nat /\ plan.base \in Nat /\ plan.who \in Nat
  BY DEF Plans
<1> QED
  BY <1>1, <1>2 DEF NewJob, RepairJobSet

-----------------------------------------------------------------------------
(* The runs, the workers and the administrators. *)

LEMMA RunsKeep ==
  ASSUME RepairInv, StartRun \/ NameRun \/ LeaseRun \/ EndRun \/ ClearPointer \/ ChangeAuthority
  PROVE  RepairInv'
<1>1. UNCHANGED <<conv, repairJobs, op>> /\ (agentRun' = "working" => agentRun = "working")
  BY DEF StartRun, NameRun, LeaseRun, EndRun, ClearPointer, ChangeAuthority
<1>2. JobsMove /\ OneJobPart' /\ repairJobs' \in Seq(RepairJobSet)
  BY <1>1, SameJobs
<1>3. authority' \in Nat
  <2>1. authority' = authority \/ authority' = authority + 1
    BY DEF StartRun, NameRun, LeaseRun, EndRun, ClearPointer, ChangeAuthority
  <2> QED
    BY <2>1 DEF RepairInv, RepairTypePart
<1>4. agentRun' \in RunStates
  BY DEF RepairInv, RepairTypePart, RunStates, StartRun, NameRun, LeaseRun, EndRun, ClearPointer,
         ChangeAuthority
<1>5. pointer' \in BOOLEAN
  BY DEF RepairInv, RepairTypePart, StartRun, NameRun, LeaseRun, EndRun, ClearPointer,
         ChangeAuthority
<1>6. RepairTypePart'
  BY <1>1, <1>2, <1>3, <1>4, <1>5 DEF RepairInv, RepairTypePart
<1> QED
  BY <1>1, <1>2, <1>6, OthersKeep

LEMMA InspectBarrierKeeps ==
  ASSUME RepairInv, InspectBarrier
  PROVE  RepairInv'
<1> USE DEF RepairInv
<1>1. Len(repairJobs) \in Nat /\ DOMAIN repairJobs = 1..Len(repairJobs)
  BY LenProperties DEF RepairTypePart
<1>2. agentRun' = "working" => \A j \in 1..Len(repairJobs) : ~repairJobs[j].active
  BY <1>1 DEF InspectBarrier, MayWork, ActiveJob
<1>3. JobsMove
  BY <1>1, <1>2 DEF JobsMove, InspectBarrier
<1>4. RepairTypePart' /\ OneJobPart'
  BY DEF RepairTypePart, OneJobPart, InspectBarrier, RunStates
<1>5. UNCHANGED op
  BY DEF InspectBarrier
<1> QED
  BY <1>3, <1>4, <1>5, OthersKeep

ConvSet == [rev : 1..MaxRevision, base : Nat, fence : BOOLEAN]

LEMMA ConvMoved ==
  ASSUME RepairInv, NEW n \in {0, 1}, NEW m \in {0, 1}, NEW fence \in BOOLEAN,
         n = 1 => conv.rev < MaxRevision
  PROVE  [rev |-> conv.rev + n, base |-> conv.base + m, fence |-> fence] \in ConvSet
<1>1. conv.rev \in 1..MaxRevision /\ conv.base \in Nat
  BY DEF RepairInv, RepairTypePart
<1>2. conv.rev + n \in 1..MaxRevision /\ conv.base + m \in Nat
  BY <1>1, RepairAssumption
<1> QED
  BY <1>2 DEF ConvSet

LEMMA ConvIsRecord ==
  ASSUME RepairInv
  PROVE  /\ conv = [rev |-> conv.rev + 0, base |-> conv.base + 0, fence |-> conv.fence]
         /\ conv \in ConvSet /\ conv.fence \in BOOLEAN
<1>1. conv \in ConvSet
  BY DEF RepairInv, RepairTypePart, ConvSet
<1>2. conv = [rev |-> conv.rev, base |-> conv.base, fence |-> conv.fence]
  BY <1>1 DEF ConvSet
<1>3. conv.rev + 0 = conv.rev /\ conv.base + 0 = conv.base
  BY <1>1, RepairAssumption DEF ConvSet
<1> QED
  BY <1>1, <1>2, <1>3 DEF ConvSet

LEMMA WritesKeep ==
  ASSUME RepairInv, AppendTurn \/ CompactInRun
  PROVE  RepairInv'
<1>1. UNCHANGED <<authority, pointer, repairJobs, op, agentRun>>
  BY DEF AppendTurn, CompactInRun
<1>2. JobsMove /\ OneJobPart' /\ repairJobs' \in Seq(RepairJobSet)
  BY <1>1, SameJobs
<1>3. conv' \in ConvSet
  <2>1. CASE AppendTurn
    <3>1. conv' = [conv EXCEPT !.rev = @ + 1] /\ conv.rev < MaxRevision
      BY <2>1 DEF AppendTurn
    <3>2. conv' = [rev |-> conv.rev + 1, base |-> conv.base + 0, fence |-> conv.fence]
      BY <3>1, ConvIsRecord DEF ConvSet
    <3> QED
      BY <3>1, <3>2, ConvMoved, ConvIsRecord
  <2>2. CASE CompactInRun
    <3>1. conv' = [conv EXCEPT !.rev = @ + 1, !.base = @ + 1] /\ conv.rev < MaxRevision
      BY <2>2 DEF CompactInRun
    <3>2. conv' = [rev |-> conv.rev + 1, base |-> conv.base + 1, fence |-> conv.fence]
      BY <3>1, ConvIsRecord DEF ConvSet
    <3> QED
      BY <3>1, <3>2, ConvMoved, ConvIsRecord
  <2> QED
    BY <2>1, <2>2
<1>4. RepairTypePart'
  BY <1>1, <1>2, <1>3 DEF RepairInv, RepairTypePart, ConvSet
<1> QED
  BY <1>1, <1>2, <1>4, OthersKeep

LEMMA LeaveToJobKeeps ==
  ASSUME RepairInv, LeaveToJob
  PROVE  RepairInv'
<1> DEFINE key == <<0, conv.rev, conv.base>>
           plan == [rev |-> 0, base |-> conv.base, who |-> authority]
<1>1. conv.rev \in Nat /\ conv.base \in Nat /\ authority \in Nat
  BY RepairAssumption DEF RepairInv, RepairTypePart
<1>2. key \in JobKeys /\ plan \in Plans
  BY <1>1 DEF JobKeys, Plans
<1>3. repairJobs' = Append(repairJobs, NewJob(key, plan)) /\ ActiveJob = {}
  BY DEF LeaveToJob
<1> HIDE DEF key, plan
<1>4. UNCHANGED <<conv, authority, agentRun, pointer, op>>
  BY DEF LeaveToJob
<1>5. JobsMove /\ OneJobPart' /\ repairJobs' \in Seq(RepairJobSet)
  BY <1>2, <1>3, <1>4, NewJobTyped, JobAdded
<1>6. RepairTypePart'
  BY <1>4, <1>5 DEF RepairInv, RepairTypePart
<1> QED
  BY <1>4, <1>5, <1>6, OthersKeep

(* A worker's step on a job: its status, whether it still counts, whether it is due. *)
LEMMA WorkersKeep ==
  ASSUME RepairInv, NEW j \in DOMAIN repairJobs,
         BecomeClaimable(j) \/ ClaimJob(j) \/ FenceContext(j) \/ EndJob(j)
  PROVE  RepairInv'
<1>1. j \in 1..Len(repairJobs) /\ repairJobs[j] \in RepairJobSet
  BY OneActive
<1>2. UNCHANGED <<authority, agentRun, pointer, op>>
  BY DEF BecomeClaimable, ClaimJob, FenceContext, EndJob, Elsewhere
<1>3. conv' \in ConvSet
  <2>1. CASE BecomeClaimable(j) \/ ClaimJob(j)
    BY <2>1, ConvIsRecord DEF BecomeClaimable, ClaimJob
  <2>2. CASE FenceContext(j)
    BY <2>2, ConvIsRecord DEF FenceContext, ConvSet
  <2>3. CASE EndJob(j)
    <3>1. \/ conv' = [conv EXCEPT !.fence = FALSE]
          \/ /\ conv' = [rev |-> conv.rev + 1, base |-> conv.base + 1, fence |-> FALSE]
             /\ conv.rev < MaxRevision
      BY <2>3 DEF EndJob
    <3>2. CASE conv' = [conv EXCEPT !.fence = FALSE]
      BY <3>2, ConvIsRecord DEF ConvSet
    <3> QED
      BY <3>1, <3>2, ConvMoved
  <2> QED
    BY <2>1, <2>2, <2>3
<1>4. JobsMove /\ OneJobPart' /\ repairJobs' \in Seq(RepairJobSet)
  <2>1. CASE BecomeClaimable(j)
    <3> DEFINE r == [repairJobs[j] EXCEPT !.due = TRUE]
    <3>1. r \in RepairJobSet /\ r.active = repairJobs[j].active /\ r.status = "queued"
      BY <1>1, <2>1 DEF BecomeClaimable, RepairJobSet
    <3>2. repairJobs' = [repairJobs EXCEPT ![j] = r]
      BY <2>1 DEF BecomeClaimable
    <3> HIDE DEF r
    <3> QED
      BY <1>1, <1>2, <3>1, <3>2, JobReplaced
  <2>2. CASE ClaimJob(j)
    <3> DEFINE r == [repairJobs[j] EXCEPT !.status = "leased"]
    <3>1. r \in RepairJobSet /\ r.active = repairJobs[j].active /\ r.status = "leased"
      BY <1>1 DEF RepairJobSet
    <3>2. repairJobs' = [repairJobs EXCEPT ![j] = r]
      BY <2>2 DEF ClaimJob
    <3> HIDE DEF r
    <3> QED
      BY <1>1, <1>2, <3>1, <3>2, JobReplaced
  <2>3. CASE FenceContext(j)
    BY <1>2, <2>3, SameJobs DEF FenceContext
  <2>4. CASE EndJob(j)
    <3>1. PICK status \in {"merged", "failed"} : repairJobs' = Ended(j, status)
      BY <2>4 DEF EndJob
    <3> DEFINE r == [repairJobs[j] EXCEPT !.status = status, !.active = FALSE]
    <3>2. r \in RepairJobSet /\ ~r.active
      BY <1>1 DEF RepairJobSet
    <3>3. repairJobs' = [repairJobs EXCEPT ![j] = r]
      BY <3>1 DEF Ended
    <3> HIDE DEF r
    <3> QED
      BY <1>1, <1>2, <3>2, <3>3, JobReplaced
  <2> QED
    BY <2>1, <2>2, <2>3, <2>4
<1>5. RepairTypePart'
  BY <1>2, <1>3, <1>4 DEF RepairInv, RepairTypePart, ConvSet
<1> QED
  BY <1>2, <1>4, <1>5, OthersKeep
-----------------------------------------------------------------------------
(* The steps of a command. *)

LEMMA Given ==
  ASSUME RepairInv, NEW o \in Operators
  PROVE  /\ op[o] \in GivenCommands /\ CommandSound(op[o], repairJobs, agentRun)
         /\ op[o].job \in 0..Len(repairJobs) /\ Len(repairJobs) \in Nat
         /\ op[o].plan \in Plans /\ op[o].seen \in Sights /\ op[o].attempt \in Attempts \cup {0}
         /\ conv.rev \in Nat /\ conv.base \in Nat /\ conv.fence \in BOOLEAN
         /\ authority \in Nat /\ pointer \in BOOLEAN
<1>1. op[o] \in GivenCommands /\ CommandSound(op[o], repairJobs, agentRun)
  BY DEF RepairInv, RepairTypePart, CommandsPart
<1>2. op[o].job \in 0..Len(repairJobs) /\ Len(repairJobs) \in Nat
  <2>1. op[o].job \in 0..Len(repairJobs)
    BY <1>1 DEF CommandSound
  <2>2. Len(repairJobs) \in Nat
    BY LenProperties DEF RepairInv, RepairTypePart
  <2> QED
    BY <2>1, <2>2
<1>3. op[o].plan \in Plans /\ op[o].seen \in Sights /\ op[o].attempt \in Attempts \cup {0}
  BY <1>1 DEF GivenCommands
<1>4. conv.rev \in Nat /\ conv.base \in Nat /\ conv.fence \in BOOLEAN
  BY RepairAssumption DEF RepairInv, RepairTypePart
<1> QED
  BY <1>1, <1>2, <1>3, <1>4 DEF RepairInv, RepairTypePart

(* All but the commands and the jobs. *)
Aside == <<conv, authority, agentRun, pointer>>

LEMMA MovesOn ==
  ASSUME RepairInv, JobsMove, OneJobPart', repairJobs' \in Seq(RepairJobSet), UNCHANGED Aside,
         NEW o \in Operators, NEW x \in GivenCommands, op' = [op EXCEPT ![o] = x],
         CommandSound(x, repairJobs', agentRun')
  PROVE  RepairInv'
<1>1. op \in [Operators -> GivenCommands]
  BY DEF RepairInv, RepairTypePart
<1>2. op' \in [Operators -> GivenCommands]
  BY <1>1
<1>3. UNCHANGED <<conv, authority, agentRun, pointer>>
  BY DEF Aside
<1>4. RepairTypePart'
  BY <1>2, <1>3 DEF RepairInv, RepairTypePart
<1> QED
  BY <1>4, CommandKeeps

LEMMA WorldStill ==
  ASSUME RepairInv, World' = World
  PROVE  /\ JobsMove /\ OneJobPart' /\ repairJobs' \in Seq(RepairJobSet) /\ UNCHANGED Aside
         /\ UNCHANGED <<repairJobs, agentRun>>
<1>1. UNCHANGED <<conv, authority, agentRun, pointer, repairJobs, runsMade>>
  BY DEF World
<1>2. JobsMove /\ OneJobPart' /\ repairJobs' \in Seq(RepairJobSet)
  BY <1>1, SameJobs
<1> QED
  BY <1>1, <1>2 DEF Aside

(* The world as it is, and the command goes on. *)
LEMMA GoesOn ==
  ASSUME RepairInv, World' = World, NEW o \in Operators, NEW x \in GivenCommands,
         op' = [op EXCEPT ![o] = x], CommandSound(x, repairJobs, agentRun)
  PROVE  RepairInv'
<1>1. CommandSound(x, repairJobs', agentRun')
  BY WorldStill
<1> QED
  BY <1>1, WorldStill, MovesOn

LEMMA FreshFields ==
  Fresh.at = "idle" /\ Fresh.pass = "none" /\ Fresh.job = 0 /\ Fresh.result = "none"
BY DEF Fresh

(* What becomes of a command that is given, and of one that ends. *)
Planned(f, mode, a) ==
    [f EXCEPT !.at = "conversation", !.pass = "plan", !.mode = mode, !.attempt = a]
Activating(f, n) ==
    [f EXCEPT !.at = "conversation", !.pass = "activate", !.mode = "activate", !.job = n]
Concluded(f, n, result) == [f EXCEPT !.at = "done", !.job = n, !.result = result]

LEMMA CommandPlanned ==
  ASSUME NEW f \in GivenCommands, NEW mode \in {"dry-run", "prepare"}, NEW a \in Attempts
  PROVE  LET x == Planned(f, mode, a)
         IN  /\ x \in GivenCommands
             /\ x.at = "conversation" /\ x.pass = "plan" /\ x.job = f.job /\ x.result = f.result
BY DEF GivenCommands, RepairPlaces, Planned

LEMMA CommandActivates ==
  ASSUME NEW f \in GivenCommands, NEW n \in Nat
  PROVE  LET x == Activating(f, n)
         IN  /\ x \in GivenCommands
             /\ x.at = "conversation" /\ x.pass = "activate" /\ x.job = n /\ x.result = f.result
BY DEF GivenCommands, RepairPlaces, Activating

LEMMA CommandConcluded ==
  ASSUME NEW f \in GivenCommands, NEW n \in Nat, NEW result \in RepairResults
  PROVE  LET x == Concluded(f, n, result)
         IN  /\ x \in GivenCommands
             /\ x.at = "done" /\ x.pass = f.pass /\ x.job = n /\ x.result = result
BY DEF GivenCommands, RepairPlaces, Concluded

LEMMA EndTyped ==
  ASSUME RepairInv, NEW o \in Operators, NEW result \in RepairResults
  PROVE  LET x == Concluded(Fresh, op[o].job, result)
         IN  /\ x \in GivenCommands
             /\ x.at = "done" /\ x.pass = "none" /\ x.job = op[o].job /\ x.result = result
<1> DEFINE n == op[o].job
<1>1. n \in Nat
  BY Given
<1> HIDE DEF n
<1>2. LET x == Concluded(Fresh, n, result)
      IN  /\ x \in GivenCommands
          /\ x.at = "done" /\ x.pass = Fresh.pass /\ x.job = n /\ x.result = result
  BY <1>1, FreshTyped, CommandConcluded
<1> QED
  BY <1>2, FreshFields DEF n

(* It ends without a claim. *)
LEMMA EndsPlainly ==
  ASSUME RepairInv, JobsMove, OneJobPart', repairJobs' \in Seq(RepairJobSet), UNCHANGED Aside,
         NEW o \in Operators,
         NEW result \in {"refused", "reported", "manual", "failed"}, End(o, result)
  PROVE  RepairInv'
<1> DEFINE x == Concluded(Fresh, op[o].job, result)
<1>1. /\ x \in GivenCommands
      /\ x.at = "done" /\ x.pass = "none" /\ x.job = op[o].job /\ x.result = result
  <2>1. result \in RepairResults
    BY DEF RepairResults
  <2> QED
    BY <2>1, EndTyped
<1>2. op' = [op EXCEPT ![o] = x]
  BY DEF End, Concluded
<1> HIDE DEF x
<1>3. x.job \in 0..Len(repairJobs')
  <2> DEFINE n == op[o].job
  <2>1. n \in 0..Len(repairJobs) /\ Len(repairJobs) \in Nat
    BY Given
  <2> HIDE DEF n
  <2>2. n \in 0..Len(repairJobs')
    BY <2>1 DEF JobsMove
  <2> QED
    BY <1>1, <2>2 DEF n
<1>4. CommandSound(x, repairJobs', agentRun')
  BY <1>1, <1>3, NothingSeen
<1> QED
  BY <1>1, <1>2, <1>4, MovesOn

LEMMA EndsStill ==
  ASSUME RepairInv, World' = World, NEW o \in Operators,
         NEW result \in {"refused", "reported", "manual", "failed"}, End(o, result)
  PROVE  RepairInv'
BY WorldStill, EndsPlainly

(* It goes on with nothing of its own yet. *)
LEMMA PlainlyOn ==
  ASSUME RepairInv, World' = World, NEW o \in Operators, NEW x \in GivenCommands,
         op' = [op EXCEPT ![o] = x], x.job = op[o].job, x.pass = op[o].pass,
         x.result = op[o].result, op[o].at # "done", x.at \notin {"rollback", "activate", "job"}
  PROVE  RepairInv'
<1>1. CommandSound(op[o], repairJobs, agentRun) /\ op[o] \in GivenCommands
  BY Given
<1>2. CommandSound(x, repairJobs, agentRun)
  BY <1>1 DEF CommandSound, HasSeenQuiet
<1> QED
  BY <1>2, GoesOn

LEMMA GiveCommandKeeps ==
  ASSUME RepairInv, NEW o \in Operators, GiveCommand(o)
  PROVE  RepairInv'
<1>1. World' = World
  BY DEF GiveCommand
<1>2. CASE \E mode \in {"dry-run", "prepare"}, a \in Attempts :
             op' = [op EXCEPT ![o] = [Fresh EXCEPT !.at = "conversation", !.pass = "plan",
                                                   !.mode = mode, !.attempt = a]]
  <2>1. PICK mode \in {"dry-run", "prepare"}, a \in Attempts :
             op' = [op EXCEPT ![o] = [Fresh EXCEPT !.at = "conversation", !.pass = "plan",
                                                   !.mode = mode, !.attempt = a]]
    BY <1>2
  <2> DEFINE x == Planned(Fresh, mode, a)
  <2>2. x \in GivenCommands
    BY FreshTyped, CommandPlanned
  <2>3. x.job = 0 /\ x.pass = "plan" /\ x.at = "conversation" /\ x.result = "none"
    BY FreshTyped, FreshFields, CommandPlanned
  <2>5. op' = [op EXCEPT ![o] = x]
    BY <2>1 DEF Planned
  <2> HIDE DEF x
  <2>6. repairJobs \in Seq(RepairJobSet) /\ x.job \in 0..Len(repairJobs)
    BY <2>3, Given DEF RepairInv, RepairTypePart
  <2>7. CommandSound(x, repairJobs, agentRun)
    BY <2>2, <2>3, <2>6, NothingSeen
  <2> QED
    BY <1>1, <2>2, <2>5, <2>7, GoesOn
<1>3. CASE \E j \in DOMAIN repairJobs :
             op' = [op EXCEPT ![o] = [Fresh EXCEPT !.at = "conversation", !.pass = "activate",
                                                   !.mode = "activate", !.job = j]]
  <2>1. PICK j \in DOMAIN repairJobs :
             op' = [op EXCEPT ![o] = [Fresh EXCEPT !.at = "conversation", !.pass = "activate",
                                                   !.mode = "activate", !.job = j]]
    BY <1>3
  <2> DEFINE x == Activating(Fresh, j)
  <2>2. j \in 1..Len(repairJobs) /\ Len(repairJobs) \in Nat
    BY OneActive, Given
  <2>3. j \in Nat
    BY <2>2
  <2>4. x \in GivenCommands
    BY <2>3, FreshTyped, CommandActivates
  <2>5. x.job = j /\ x.pass = "activate" /\ x.at = "conversation" /\ x.result = "none"
    <3>1. x.job = j /\ x.pass = "activate" /\ x.at = "conversation" /\ x.result = Fresh.result
      BY <2>3, FreshTyped, CommandActivates
    <3> QED
      BY <3>1, FreshFields
  <2>6. op' = [op EXCEPT ![o] = x]
    BY <2>1 DEF Activating
  <2> HIDE DEF x
  <2>7. CommandSound(x, repairJobs, agentRun)
    <3>1. x.job \in 0..Len(repairJobs) /\ x.job # 0
      BY <2>2, <2>5
    <3>2. ~HasSeenQuiet(x)
      BY <2>5 DEF HasSeenQuiet
    <3> QED
      BY <2>5, <3>1, <3>2 DEF CommandSound
  <2> QED
    BY <1>1, <2>4, <2>6, <2>7, GoesOn
<1> QED
  BY <1>2, <1>3 DEF GiveCommand

LEMMA ReadConversationKeeps ==
  ASSUME RepairInv, NEW o \in Operators, ReadConversation(o)
  PROVE  RepairInv'
<1> DEFINE y == op[o]
           x == [y EXCEPT !.at = "runtime",
                          !.seen = [@ EXCEPT !.rev = conv.rev, !.base = conv.base,
                                             !.fence = conv.fence]]
<1>1. y \in GivenCommands /\ y.seen \in Sights /\ op \in [Operators -> GivenCommands]
  BY Given DEF RepairInv, RepairTypePart
<1>2. op' = [op EXCEPT ![o] = x] /\ World' = World
  BY <1>1 DEF ReadConversation, GivenCommands, Sights
<1>3. x \in GivenCommands
  BY <1>1, Given DEF GivenCommands, Sights, RepairPlaces
<1>4. x.at = "runtime" /\ x.job = y.job /\ x.pass = y.pass /\ x.result = y.result
  BY <1>1 DEF GivenCommands
<1>5. y.at # "done"
  BY DEF ReadConversation
<1> HIDE DEF x
<1> QED
  BY <1>2, <1>3, <1>4, <1>5, PlainlyOn

LEMMA ReadRuntimeKeeps ==
  ASSUME RepairInv, NEW o \in Operators, ReadRuntime(o)
  PROVE  RepairInv'
<1> DEFINE y == op[o]
           x == [y EXCEPT !.at = "authority", !.seen = [@ EXCEPT !.pointer = pointer]]
<1>1. y \in GivenCommands /\ y.seen \in Sights /\ op \in [Operators -> GivenCommands]
  BY Given DEF RepairInv, RepairTypePart
<1>2. op' = [op EXCEPT ![o] = x] /\ World' = World
  BY <1>1 DEF ReadRuntime, GivenCommands, Sights
<1>3. x \in GivenCommands
  BY <1>1, Given DEF GivenCommands, Sights, RepairPlaces
<1>4. x.at = "authority" /\ x.job = y.job /\ x.pass = y.pass /\ x.result = y.result
  BY <1>1 DEF GivenCommands
<1>5. y.at # "done"
  BY DEF ReadRuntime
<1> HIDE DEF x
<1> QED
  BY <1>2, <1>3, <1>4, <1>5, PlainlyOn

LEMMA ReadAuthorityKeeps ==
  ASSUME RepairInv, NEW o \in Operators, ReadAuthority(o)
  PROVE  RepairInv'
<1>1. World' = World
  BY DEF ReadAuthority
<1>2. CASE End(o, "refused")
  BY <1>1, <1>2, EndsStill
<1>3. CASE op' = [op EXCEPT ![o].at = "run", ![o].seen.who = authority]
  <2> DEFINE y == op[o]
             x == [y EXCEPT !.at = "run", !.seen = [@ EXCEPT !.who = authority]]
  <2>1. y \in GivenCommands /\ y.seen \in Sights /\ op \in [Operators -> GivenCommands]
    BY Given DEF RepairInv, RepairTypePart
  <2>2. op' = [op EXCEPT ![o] = x]
    BY <1>3, <2>1 DEF GivenCommands, Sights
  <2>3. x \in GivenCommands
    BY <2>1, Given DEF GivenCommands, Sights, RepairPlaces
  <2>4. x.at = "run" /\ x.job = y.job /\ x.pass = y.pass /\ x.result = y.result
    BY <2>1 DEF GivenCommands
  <2>5. y.at # "done"
    BY DEF ReadAuthority
  <2> HIDE DEF x
  <2> QED
    BY <1>1, <2>2, <2>3, <2>4, <2>5, PlainlyOn
<1> QED
  BY <1>2, <1>3 DEF ReadAuthority

(* A command at another place. *)
Placed(f, at) == [f EXCEPT !.at = at]

LEMMA CommandPlaced ==
  ASSUME NEW f \in GivenCommands, NEW at \in RepairPlaces
  PROVE  LET x == Placed(f, at)
         IN  /\ x \in GivenCommands
             /\ x.at = at /\ x.pass = f.pass /\ x.job = f.job /\ x.result = f.result
BY DEF GivenCommands, Placed

LEMMA StepPlaces ==
  ASSUME NEW o \in Operators, NEW at, Step(o, at)
  PROVE  op' = [op EXCEPT ![o] = Placed(op[o], at)]
BY DEF Step, Placed

(* A command goes to a place, with what it has to know there. *)
LEMMA StepKeeps ==
  ASSUME RepairInv, World' = World, NEW o \in Operators, NEW at \in RepairPlaces, Step(o, at),
         at # "done", op[o].at # "done",
         at = "rollback" => op[o].pass = "verify",
         at = "activate" => op[o].pass = "activate",
         op[o].pass = "activate" /\ at \in {"job", "activate"} /\ repairJobs[op[o].job].active
         => agentRun # "working"
  PROVE  RepairInv'
<1> DEFINE x == Placed(op[o], at)
<1>1. op[o] \in GivenCommands /\ CommandSound(op[o], repairJobs, agentRun)
  BY Given
<1>2. /\ x \in GivenCommands
      /\ x.at = at /\ x.pass = op[o].pass /\ x.job = op[o].job /\ x.result = op[o].result
  BY <1>1, CommandPlaced
<1>3. op' = [op EXCEPT ![o] = x]
  BY StepPlaces
<1> HIDE DEF x
<1>4. op[o].result = "none"
  BY <1>1 DEF CommandSound
<1>5. CommandSound(x, repairJobs, agentRun)
  BY <1>1, <1>2, <1>4 DEF CommandSound, HasSeenQuiet
<1> QED
  BY <1>2, <1>3, <1>5, GoesOn

LEMMA CheckAuthorityKeeps ==
  ASSUME RepairInv, NEW o \in Operators, CheckAuthority(o)
  PROVE  RepairInv'
<1>1. World' = World /\ op[o].at = "run"
  BY DEF CheckAuthority
<1>2. Quiescent(o) => agentRun # "working"
  BY DEF Quiescent, ActiveRun
<1>3. CASE op[o].pass = "verify" /\ Quiescent(o) /\ End(o, "prepared")
  <2> DEFINE x == Concluded(Fresh, op[o].job, "prepared")
  <2>1. /\ x \in GivenCommands
        /\ x.at = "done" /\ x.pass = "none" /\ x.job = op[o].job /\ x.result = "prepared"
    <3>1. "prepared" \in RepairResults
      BY DEF RepairResults
    <3> QED
      BY <3>1, EndTyped
  <2>2. op' = [op EXCEPT ![o] = x]
    BY <1>3 DEF End, Concluded
  <2> HIDE DEF x
  <2>3. CommandSound(op[o], repairJobs, agentRun) /\ op[o] \in GivenCommands
    BY Given
  <2>4. CommandSound(x, repairJobs, agentRun)
    BY <1>2, <1>3, <2>1, <2>3 DEF CommandSound, HasSeenQuiet
  <2> QED
    BY <1>1, <2>1, <2>2, <2>4, GoesOn
<1>4. CASE op[o].pass = "verify" /\ Step(o, "rollback")
  <2>1. "rollback" \in RepairPlaces
    BY DEF RepairPlaces
  <2> QED
    BY <1>1, <1>4, <2>1, StepKeeps
<1>5. CASE Quiescent(o) /\ Step(o, "job")
  <2>1. "job" \in RepairPlaces
    BY DEF RepairPlaces
  <2> QED
    BY <1>1, <1>2, <1>5, <2>1, StepKeeps
<1>6. CASE End(o, "refused")
  BY <1>1, <1>6, EndsStill
<1>7. CASE op[o].pass = "verify"
  <2>1. IF Quiescent(o) /\ Unchanged(o) THEN End(o, "prepared") ELSE Step(o, "rollback")
    BY <1>7 DEF CheckAuthority
  <2> QED
    BY <1>3, <1>4, <1>7, <2>1
<1>8. CASE op[o].pass # "verify"
  <2>1. IF Quiescent(o) THEN Step(o, "job") ELSE End(o, "refused")
    BY <1>8 DEF CheckAuthority
  <2> QED
    BY <1>5, <1>6, <2>1
<1> QED
  BY <1>7, <1>8

LEMMA CheckActiveJobKeeps ==
  ASSUME RepairInv, NEW o \in Operators, CheckActiveJob(o)
  PROVE  RepairInv'
<1>1. World' = World /\ op[o].at = "job" /\ op[o].pass = "plan"
  BY DEF CheckActiveJob
<1>2. \/ End(o, "refused") \/ End(o, "reported")
      \/ op' = [op EXCEPT ![o].at = "enqueue", ![o].plan = Seen(o), ![o].seen = Unseen]
  BY DEF CheckActiveJob
<1>3. CASE End(o, "refused") \/ End(o, "reported")
  BY <1>1, <1>3, EndsStill
<1>4. CASE op' = [op EXCEPT ![o].at = "enqueue", ![o].plan = Seen(o), ![o].seen = Unseen]
  <2> DEFINE y == op[o]
             plan == Seen(o)
             x == [y EXCEPT !.at = "enqueue", !.plan = plan, !.seen = Unseen]
  <2>1. y \in GivenCommands /\ y.seen \in Sights /\ op \in [Operators -> GivenCommands]
    BY Given DEF RepairInv, RepairTypePart
  <2>2. plan \in Plans
    BY <2>1 DEF Seen, Plans, Sights
  <2> HIDE DEF plan
  <2>3. op' = [op EXCEPT ![o] = x]
    BY <1>4, <2>1 DEF GivenCommands, plan
  <2>4. x \in GivenCommands
    BY <2>1, <2>2, FreshTyped DEF GivenCommands, RepairPlaces
  <2>5. x.at = "enqueue" /\ x.job = y.job /\ x.pass = y.pass /\ x.result = y.result
    BY <2>1 DEF GivenCommands
  <2> HIDE DEF x
  <2> QED
    BY <1>1, <2>3, <2>4, <2>5, PlainlyOn
<1> QED
  BY <1>2, <1>3, <1>4

LEMMA CheckOwnJobKeeps ==
  ASSUME RepairInv, NEW o \in Operators, CheckOwnJob(o)
  PROVE  RepairInv'
<1>1. World' = World /\ op[o].at = "job" /\ op[o].pass = "activate"
  BY DEF CheckOwnJob
<1>2. CASE Step(o, "activate")
  <2>1. "activate" \in RepairPlaces
    BY DEF RepairPlaces
  <2>2. CommandSound(op[o], repairJobs, agentRun) /\ op[o] \in GivenCommands
    BY Given
  <2>3. repairJobs[op[o].job].active => agentRun # "working"
    BY <1>1, <2>2 DEF CommandSound, HasSeenQuiet
  <2> QED
    BY <1>1, <1>2, <2>1, <2>3, StepKeeps
<1>3. CASE End(o, "refused")
  BY <1>1, <1>3, EndsStill
<1> QED
  BY <1>2, <1>3 DEF CheckOwnJob

Verifying(f, j) == [f EXCEPT !.at = "conversation", !.pass = "verify", !.job = j, !.seen = Unseen]

LEMMA CommandVerifies ==
  ASSUME NEW f \in GivenCommands, NEW j \in Nat
  PROVE  LET x == Verifying(f, j)
         IN  /\ x \in GivenCommands
             /\ x.at = "conversation" /\ x.pass = "verify" /\ x.job = j /\ x.result = f.result
BY FreshTyped DEF GivenCommands, RepairPlaces, Verifying

(* A job is the command's own, or the command leaves it to the operator. *)
LEMMA VerifyKeeps ==
  ASSUME RepairInv, JobsMove, OneJobPart', repairJobs' \in Seq(RepairJobSet), UNCHANGED Aside,
         NEW o \in Operators, op[o].at # "done",
         NEW j \in 1..Len(repairJobs'), Verify(o, j, repairJobs')
  PROVE  RepairInv'
<1>1. CASE End(o, "manual")
  BY <1>1, EndsPlainly
<1>2. CASE op' = [op EXCEPT ![o].at = "conversation", ![o].pass = "verify", ![o].job = j,
                            ![o].seen = Unseen]
  <2> DEFINE x == Verifying(op[o], j)
  <2>1. j \in Nat
    BY DEF JobsMove
  <2>2. op[o] \in GivenCommands /\ CommandSound(op[o], repairJobs, agentRun)
    BY Given
  <2>3. /\ x \in GivenCommands
        /\ x.at = "conversation" /\ x.pass = "verify" /\ x.job = j /\ x.result = op[o].result
    BY <2>1, <2>2, CommandVerifies
  <2>4. op \in [Operators -> GivenCommands]
    BY DEF RepairInv, RepairTypePart
  <2>5. op' = [op EXCEPT ![o] = x]
    BY <1>2, <2>4 DEF Verifying, GivenCommands
  <2> HIDE DEF x
  <2>6. op[o].result = "none"
    BY <2>2 DEF CommandSound
  <2>7. x.job \in 0..Len(repairJobs') /\ x.job # 0
    BY <2>3 DEF JobsMove
  <2>8. ~HasSeenQuiet(x)
    BY <2>3, <2>6 DEF HasSeenQuiet
  <2>9. CommandSound(x, repairJobs', agentRun')
    BY <2>3, <2>6, <2>7, <2>8 DEF CommandSound
  <2> QED
    BY <2>3, <2>5, <2>9, MovesOn
<1> QED
  BY <1>1, <1>2 DEF Verify

LEMMA FindPriorKeeps ==
  ASSUME RepairInv, NEW o \in Operators, FindPrior(o)
  PROVE  RepairInv'
<1>1. World' = World /\ op[o].at = "enqueue"
  BY DEF FindPrior
<1>2. ASSUME NEW j \in Prior(o), Verify(o, j, repairJobs) PROVE RepairInv'
  <2>1. j \in 1..Len(repairJobs)
    BY OneActive DEF Prior
  <2>2. repairJobs' = repairJobs
    BY <1>1, WorldStill
  <2>3. j \in 1..Len(repairJobs') /\ Verify(o, j, repairJobs')
    BY <1>2, <2>1, <2>2
  <2>4. JobsMove /\ OneJobPart' /\ repairJobs' \in Seq(RepairJobSet) /\ UNCHANGED Aside
    BY <1>1, WorldStill
  <2> QED
    BY <1>1, <2>3, <2>4, VerifyKeeps
<1>3. CASE End(o, "refused")
  BY <1>1, <1>3, EndsStill
<1>4. CASE op' = [op EXCEPT ![o].at = "create", ![o].seen.rev = conv.rev]
  <2> DEFINE y == op[o]
             x == [y EXCEPT !.at = "create", !.seen = [@ EXCEPT !.rev = conv.rev]]
  <2>1. y \in GivenCommands /\ y.seen \in Sights /\ op \in [Operators -> GivenCommands]
    BY Given DEF RepairInv, RepairTypePart
  <2>2. op' = [op EXCEPT ![o] = x]
    BY <1>4, <2>1 DEF GivenCommands, Sights
  <2>3. x \in GivenCommands
    BY <2>1, Given DEF GivenCommands, Sights, RepairPlaces
  <2>4. x.at = "create" /\ x.job = y.job /\ x.pass = y.pass /\ x.result = y.result
    BY <2>1 DEF GivenCommands
  <2> HIDE DEF x
  <2> QED
    BY <1>1, <2>2, <2>3, <2>4, PlainlyOn
<1> QED
  BY <1>2, <1>3, <1>4 DEF FindPrior

LEMMA PlanKeyTyped ==
  ASSUME RepairInv, NEW o \in Operators
  PROVE  PlanKey(o) \in JobKeys
<1>1. op[o].plan \in Plans /\ op[o].attempt \in Attempts \cup {0}
  BY Given
<1>2. op[o].plan.rev \in Nat /\ op[o].plan.base \in Nat
  BY <1>1 DEF Plans
<1> QED
  BY <1>1, <1>2 DEF PlanKey, JobKeys

LEMMA CreateJobKeeps ==
  ASSUME RepairInv, NEW o \in Operators, CreateJob(o)
  PROVE  RepairInv'
<1>1. op[o].at = "create" /\ UNCHANGED <<conv, authority, agentRun, pointer, runsMade>>
  BY DEF CreateJob
<1>2. UNCHANGED Aside /\ agentRun' = agentRun
  BY <1>1 DEF Aside
<1>3. PlanKey(o) \in JobKeys
  BY PlanKeyTyped
<1>4. CASE ActiveJob = {} /\ Prior(o) = {}
  <2> DEFINE r == NewJob(PlanKey(o), op[o].plan)
             n == op[o].seen.rev
             s == [r EXCEPT !.rev = n]
  <2>1. r \in RepairJobSet /\ r.status = "queued"
    BY <1>3, Given, NewJobTyped
  <2>2. n \in Nat
    BY Given DEF Sights
  <2>3. /\ repairJobs' = Append(repairJobs, s)
        /\ Verify(o, Len(repairJobs) + 1, repairJobs')
    BY <1>4 DEF CreateJob
  <2> HIDE DEF r, n
  <2>4. s \in RepairJobSet /\ s.status = "queued"
    BY <2>1, <2>2 DEF RepairJobSet
  <2> HIDE DEF s
  <2>5. /\ JobsMove /\ OneJobPart' /\ repairJobs' \in Seq(RepairJobSet)
        /\ Len(repairJobs') = Len(repairJobs) + 1
    BY <1>2, <1>4, <2>3, <2>4, JobAdded
  <2>6. Len(repairJobs) + 1 \in 1..Len(repairJobs')
    BY <2>5, Given
  <2> QED
    BY <1>1, <1>2, <2>3, <2>5, <2>6, VerifyKeeps
<1>5. ASSUME NEW j \in Prior(o) \union ActiveJob,
             repairJobs' = [repairJobs EXCEPT ![j].keys = @ \union {PlanKey(o)}],
             Verify(o, j, repairJobs')
      PROVE  RepairInv'
  <2> DEFINE r == [repairJobs[j] EXCEPT !.keys = @ \union {PlanKey(o)}]
  <2>1. j \in DOMAIN repairJobs
    BY DEF Prior, ActiveJob
  <2>2. j \in 1..Len(repairJobs) /\ repairJobs[j] \in RepairJobSet
    BY <2>1, OneActive
  <2>3. /\ r \in RepairJobSet /\ r.active = repairJobs[j].active
        /\ r.status = repairJobs[j].status
    BY <1>3, <2>2 DEF RepairJobSet
  <2>4. repairJobs' = [repairJobs EXCEPT ![j] = r]
    BY <1>5
  <2> HIDE DEF r
  <2>5. r.active => repairJobs[j].active /\ r.status # "cancelled"
    BY <2>2, <2>3 DEF RepairInv, OneJobPart
  <2>6. JobsMove /\ OneJobPart' /\ repairJobs' \in Seq(RepairJobSet)
    BY <1>2, <2>2, <2>3, <2>4, <2>5, JobReplaced
  <2>7. j \in 1..Len(repairJobs')
    BY <2>2, <2>6, Given DEF JobsMove
  <2> QED
    BY <1>1, <1>2, <1>5, <2>6, <2>7, VerifyKeeps
<1> QED
  BY <1>4, <1>5 DEF CreateJob

LEMMA CreateFailsKeeps ==
  ASSUME RepairInv, NEW o \in Operators, CreateFails(o)
  PROVE  RepairInv'
BY EndsStill DEF CreateFails

(* A job that was its operator's own is cancelled. *)
LEMMA JobCancelled ==
  ASSUME RepairInv, NEW j \in 1..Len(repairJobs), repairJobs' = Ended(j, "cancelled"),
         agentRun' = agentRun
  PROVE  /\ JobsMove /\ OneJobPart' /\ repairJobs' \in Seq(RepairJobSet)
         /\ ~repairJobs'[j].active
<1> DEFINE r == [repairJobs[j] EXCEPT !.status = "cancelled", !.active = FALSE]
<1>1. repairJobs \in Seq(RepairJobSet)
  BY DEF RepairInv, RepairTypePart
<1>2. repairJobs[j] \in RepairJobSet
  BY <1>1, ElementOfSeq
<1>3. r \in RepairJobSet /\ ~r.active
  BY <1>2 DEF RepairJobSet
<1>4. repairJobs' = [repairJobs EXCEPT ![j] = r]
  BY DEF Ended
<1> HIDE DEF r
<1>5. repairJobs'[j] = r
  BY <1>1, <1>4, ExceptSeq
<1> QED
  BY <1>3, <1>4, <1>5, JobReplaced

LEMMA RollBackKeeps ==
  ASSUME RepairInv, NEW o \in Operators, RollBack(o)
  PROVE  RepairInv'
<1> DEFINE j == op[o].job
<1>1. op[o].at = "rollback" /\ UNCHANGED <<conv, authority, agentRun, pointer, runsMade>>
  BY DEF RollBack
<1>2. UNCHANGED Aside /\ agentRun' = agentRun
  BY <1>1 DEF Aside
<1>3. op[o] \in GivenCommands /\ CommandSound(op[o], repairJobs, agentRun)
  BY Given
<1>4. j \in 1..Len(repairJobs)
  <2>1. j # 0
    BY <1>1, <1>3 DEF CommandSound
  <2>2. j \in 0..Len(repairJobs) /\ Len(repairJobs) \in Nat
    BY Given
  <2> HIDE DEF j
  <2> QED
    BY <2>1, <2>2
<1>5. ASSUME End(o, "rolled back"), JobsMove, OneJobPart', repairJobs' \in Seq(RepairJobSet),
             ~repairJobs'[j].active
      PROVE  RepairInv'
  <2> DEFINE x == Concluded(Fresh, op[o].job, "rolled back")
  <2>1. /\ x \in GivenCommands
        /\ x.at = "done" /\ x.pass = "none" /\ x.job = j /\ x.result = "rolled back"
    <3>1. "rolled back" \in RepairResults
      BY DEF RepairResults
    <3> QED
      BY <3>1, EndTyped
  <2>2. op' = [op EXCEPT ![o] = x]
    BY <1>5 DEF End, Concluded
  <2> HIDE DEF x, j
  <2>3. x.job \in 0..Len(repairJobs') /\ x.job # 0
    <3>1. Len(repairJobs) \in Nat
      BY Given
    <3>2. Len(repairJobs') \in Nat /\ Len(repairJobs) <= Len(repairJobs')
      BY <1>5 DEF JobsMove
    <3>3. j \in 0..Len(repairJobs') /\ j # 0
      BY <1>4, <3>1, <3>2
    <3> QED
      BY <2>1, <3>3
  <2>4. ~HasSeenQuiet(x)
    BY <2>1 DEF HasSeenQuiet
  <2>5. ~repairJobs'[x.job].active
    BY <1>5, <2>1
  <2>6. CommandSound(x, repairJobs', agentRun')
    BY <2>1, <2>3, <2>4, <2>5 DEF CommandSound
  <2> QED
    BY <1>2, <1>5, <2>1, <2>2, <2>6, MovesOn
<1>6. CASE repairJobs' = Ended(j, "cancelled") /\ End(o, "rolled back")
  <2> HIDE DEF j
  <2>1. /\ JobsMove /\ OneJobPart' /\ repairJobs' \in Seq(RepairJobSet)
        /\ ~repairJobs'[j].active
    BY <1>2, <1>4, <1>6, JobCancelled
  <2> QED
    BY <1>5, <1>6, <2>1
<1>7. CASE UNCHANGED repairJobs /\ repairJobs[j].status = "cancelled" /\ End(o, "rolled back")
  <2> HIDE DEF j
  <2>1. ~repairJobs[j].active
    BY <1>4, <1>7 DEF RepairInv, OneJobPart
  <2>2. JobsMove /\ OneJobPart' /\ repairJobs' \in Seq(RepairJobSet)
    BY <1>2, <1>7, SameJobs
  <2>3. ~repairJobs'[j].active
    BY <1>7, <2>1
  <2> QED
    BY <1>5, <1>7, <2>2, <2>3
<1>8. CASE UNCHANGED repairJobs /\ End(o, "manual")
  <2>1. JobsMove /\ OneJobPart' /\ repairJobs' \in Seq(RepairJobSet)
    BY <1>2, <1>8, SameJobs
  <2> QED
    BY <1>2, <1>8, <2>1, EndsPlainly
<1> QED
  BY <1>6, <1>7, <1>8 DEF RollBack

LEMMA RollBackFailsKeeps ==
  ASSUME RepairInv, NEW o \in Operators, RollBackFails(o)
  PROVE  RepairInv'
<1> DEFINE j == op[o].job
<1>1. /\ op[o].at = "rollback" /\ End(o, "manual")
      /\ UNCHANGED <<conv, authority, agentRun, pointer, runsMade>>
  BY DEF RollBackFails
<1>2. UNCHANGED Aside /\ agentRun' = agentRun
  BY <1>1 DEF Aside
<1>3. op[o] \in GivenCommands /\ CommandSound(op[o], repairJobs, agentRun)
  BY Given
<1>4. j \in 1..Len(repairJobs)
  <2>1. j # 0
    BY <1>1, <1>3 DEF CommandSound
  <2>2. j \in 0..Len(repairJobs) /\ Len(repairJobs) \in Nat
    BY Given
  <2> HIDE DEF j
  <2> QED
    BY <2>1, <2>2
<1>5. CASE UNCHANGED repairJobs
  BY <1>1, <1>2, <1>5, SameJobs, EndsPlainly
<1>6. CASE repairJobs' = Ended(j, "cancelled")
  <2> HIDE DEF j
  <2> QED
    BY <1>1, <1>2, <1>4, <1>6, JobCancelled, EndsPlainly
<1> QED
  BY <1>5, <1>6 DEF RollBackFails

LEMMA ActivateKeeps ==
  ASSUME RepairInv, NEW o \in Operators, Activate(o)
  PROVE  RepairInv'
<1> DEFINE j == op[o].job
<1>1. op[o].at = "activate" /\ UNCHANGED <<conv, authority, agentRun, pointer, runsMade>>
  BY DEF Activate
<1>2. UNCHANGED Aside /\ agentRun' = agentRun
  BY <1>1 DEF Aside
<1>3. op[o] \in GivenCommands /\ CommandSound(op[o], repairJobs, agentRun)
  BY Given
<1>4. op[o].pass = "activate"
  BY <1>1, <1>3 DEF CommandSound
<1>5. j \in 1..Len(repairJobs)
  <2>1. j # 0
    BY <1>4, <1>3 DEF CommandSound
  <2>2. j \in 0..Len(repairJobs) /\ Len(repairJobs) \in Nat
    BY Given
  <2> HIDE DEF j
  <2> QED
    BY <2>1, <2>2
<1>6. repairJobs[j].active => agentRun # "working"
  BY <1>1, <1>3, <1>4 DEF CommandSound, HasSeenQuiet
<1>7. CASE End(o, "manual") /\ UNCHANGED repairJobs
  BY <1>2, <1>7, SameJobs, EndsPlainly
<1>8. CASE /\ Cancellable(repairJobs[j]) /\ repairJobs' = [repairJobs EXCEPT ![j].due = TRUE]
           /\ End(o, "activated")
  <2> DEFINE r == [repairJobs[j] EXCEPT !.due = TRUE]
             x == Concluded(Fresh, op[o].job, "activated")
  <2>1. /\ x \in GivenCommands
        /\ x.at = "done" /\ x.pass = "none" /\ x.job = j /\ x.result = "activated"
    <3>1. "activated" \in RepairResults
      BY DEF RepairResults
    <3> QED
      BY <3>1, EndTyped
  <2>2. op' = [op EXCEPT ![o] = x]
    BY <1>8 DEF End, Concluded
  <2> HIDE DEF x, j
  <2>3. repairJobs \in Seq(RepairJobSet) /\ repairJobs[j] \in RepairJobSet
    BY <1>5, ElementOfSeq DEF RepairInv, RepairTypePart
  <2>4. r \in RepairJobSet /\ r.active = repairJobs[j].active /\ r.status = repairJobs[j].status
    BY <2>3 DEF RepairJobSet
  <2>5. repairJobs' = [repairJobs EXCEPT ![j] = r]
    BY <1>8
  <2> HIDE DEF r
  <2>6. r.active => repairJobs[j].active /\ r.status # "cancelled"
    BY <1>5, <2>4 DEF RepairInv, OneJobPart
  <2>7. JobsMove /\ OneJobPart' /\ repairJobs' \in Seq(RepairJobSet)
    BY <1>2, <1>5, <2>4, <2>5, <2>6, JobReplaced
  <2>8. x.job \in 0..Len(repairJobs') /\ x.job # 0
    <3>1. Len(repairJobs) \in Nat
      BY Given
    <3>2. j \in 0..Len(repairJobs') /\ j # 0
      BY <1>5, <2>7, <3>1 DEF JobsMove
    <3> QED
      BY <2>1, <3>2
  <2>9. repairJobs'[j].active => agentRun' # "working"
    BY <1>2, <1>5, <1>6, <2>7 DEF JobsMove
  <2>10. CommandSound(x, repairJobs', agentRun')
    <3>1. repairJobs'[x.job].active => agentRun' # "working"
      BY <2>1, <2>9
    <3> QED
      BY <2>1, <2>8, <3>1 DEF CommandSound
  <2> QED
    BY <1>2, <2>1, <2>2, <2>7, <2>10, MovesOn
<1> QED
  BY <1>7, <1>8 DEF Activate

LEMMA RepairStep == RepairInv /\ [RepairNext]_repairVars => RepairInv'
<1> SUFFICES ASSUME RepairInv, [RepairNext]_repairVars PROVE RepairInv'
  OBVIOUS
<1>1. CASE UNCHANGED repairVars
  BY <1>1 DEF repairVars, RepairInv, RepairTypePart, OneJobPart, CommandsPart, CommandSound
<1>2. ASSUME NEW o \in Operators, Command(o) PROVE RepairInv'
  BY <1>2, GiveCommandKeeps, ReadConversationKeeps, ReadRuntimeKeeps, ReadAuthorityKeeps,
     CheckAuthorityKeeps, CheckActiveJobKeeps, FindPriorKeeps, CreateJobKeeps, CreateFailsKeeps,
     RollBackKeeps, RollBackFailsKeeps, CheckOwnJobKeeps, ActivateKeeps
  DEF Command
<1>3. ASSUME NEW j \in DOMAIN repairJobs,
             BecomeClaimable(j) \/ ClaimJob(j) \/ FenceContext(j) \/ EndJob(j)
      PROVE  RepairInv'
  BY <1>3, WorkersKeep
<1>4. CASE StartRun \/ NameRun \/ LeaseRun \/ EndRun \/ ClearPointer \/ ChangeAuthority
  BY <1>4, RunsKeep
<1>5. CASE InspectBarrier
  BY <1>5, InspectBarrierKeeps
<1>6. CASE AppendTurn \/ CompactInRun
  BY <1>6, WritesKeep
<1>7. CASE LeaveToJob
  BY <1>7, LeaveToJobKeeps
<1> QED
  BY <1>1, <1>2, <1>3, <1>4, <1>5, <1>6, <1>7 DEF RepairNext, RepairOver

LEMMA RepairInvariant == RepairSpec => []RepairInv
BY RepairStarts, RepairStep, PTL DEF RepairSpec

(* Type correctness of the operator's command, and one active job at most, however the          *)
(* commands of several operators, runs and workers interleave.                                 *)
THEOREM RepairTypeCorrect == RepairSpec => []RepairTypeOK
<1>1. RepairInv => RepairTypeOK
  <2> SUFFICES ASSUME RepairInv PROVE RepairTypeOK
    OBVIOUS
  <2>1. conv.rev \in 1..MaxRevision /\ conv.fence \in BOOLEAN /\ agentRun \in RunStates
    BY DEF RepairInv, RepairTypePart
  <2>2. Cardinality(ActiveJob) <= 1
    <3>1. CASE ActiveJob = {}
      BY <3>1, FS_EmptySet
    <3>2. CASE ActiveJob # {}
      <4>1. PICK j : j \in ActiveJob
        BY <3>2
      <4>2. \A i \in ActiveJob : i = j
        BY <4>1, OneActive DEF ActiveJob, RepairInv, OneJobPart
      <4>3. ActiveJob = {j}
        BY <4>1, <4>2
      <4> QED
        BY <4>3, FS_Singleton
    <3> QED
      BY <3>1, <3>2
  <2>3. \A o \in Operators : op[o].at \in RepairPlaces /\ op[o].result \in RepairResults
    BY DEF RepairInv, RepairTypePart, GivenCommands
  <2> QED
    BY <2>1, <2>2, <2>3 DEF RepairTypeOK, RunStates, RepairPlaces, RepairResults
<1> QED
  BY <1>1, RepairInvariant, PTL

(* What the repair command claims is so: while a job it has prepared or activated stands, no    *)
(* run works on the conversation, although it has read one document after the other.           *)
THEOREM PreparedIsQuiet == RepairSpec => []PreparedWhileQuiet
<1>1. RepairInv => PreparedWhileQuiet
  <2> SUFFICES ASSUME RepairInv, NEW o \in Operators,
                      op[o].result \in {"prepared", "activated"}, repairJobs[op[o].job].active
               PROVE  agentRun # "working"
    BY DEF PreparedWhileQuiet
  <2>1. op[o] \in GivenCommands /\ CommandSound(op[o], repairJobs, agentRun)
    BY Given
  <2> QED
    BY <2>1 DEF CommandSound, HasSeenQuiet
<1> QED
  BY <1>1, RepairInvariant, PTL

(* A command that reports its preparation rolled back has left no active job behind it.         *)
THEOREM RollbackLeavesNothing == RepairSpec => []RolledBackGone
<1>1. RepairInv => RolledBackGone
  <2> SUFFICES ASSUME RepairInv, NEW o \in Operators, op[o].result = "rolled back"
               PROVE  ~repairJobs[op[o].job].active
    BY DEF RolledBackGone
  <2>1. op[o] \in GivenCommands /\ CommandSound(op[o], repairJobs, agentRun)
    BY Given
  <2> QED
    BY <2>1 DEF CommandSound
<1> QED
  BY <1>1, RepairInvariant, PTL
-----------------------------------------------------------------------------
(* The prefix the repair command selects. *)

PrefixMessage == [uses : SUBSET Calls, results : SUBSET Calls, size : Nat]

(* A message uses tools or holds results. *)
OneKind(h) == \A i \in 1..Len(h) : h[i].uses = {} \/ h[i].results = {}

PrefixInv == history \in Seq(PrefixMessage) /\ OneKind(history)

FitsRequest(h, n) == EstimateOf(SubSeq(h, 1, n)) <= RequestLimit

LEMMA EstimateUnfolded ==
  ASSUME NEW m, NEW h,
         h = CHOOSE g : g = [s \in SUBSET DOMAIN m |->
                               IF s = {} THEN 0 ELSE g[s \ {Min(s)}] + m[Min(s)].size]
  PROVE  EstimateOf(m) = h[DOMAIN m]
BY DEF EstimateOf, FoldRight, MapThenFoldSet

(* The estimate of a sequence is a sum over its indices. *)
LEMMA EstimateIsSum ==
  ASSUME NEW m, NEW n \in Nat, DOMAIN m = 1..n,
         NEW w, \A i \in 1..n : w[i] = m[i].size
  PROVE  \E g : Sums(g, n, w) /\ EstimateOf(m) = g[1..n]
<1> DEFINE Solves(g) == g = [s \in SUBSET DOMAIN m |->
                               IF s = {} THEN 0 ELSE g[s \ {Min(s)}] + m[Min(s)].size]
           h == CHOOSE g : Solves(g)
<1>1. ASSUME NEW s \in SUBSET (1..n), s # {}
      PROVE  w[Min(s)] = m[Min(s)].size
  <2>1. Min(s) \in s
    <3>1. s \in SUBSET Nat
      OBVIOUS
    <3> QED
      BY <1>1, <3>1, MinOfNaturals
  <2> QED
    BY <2>1
<1>2. ASSUME NEW g PROVE Solves(g) <=> Sums(g, n, w)
  <2>1. [s \in SUBSET DOMAIN m |-> IF s = {} THEN 0 ELSE g[s \ {Min(s)}] + m[Min(s)].size]
          = [s \in SUBSET (1..n) |-> IF s = {} THEN 0 ELSE g[s \ {Min(s)}] + w[Min(s)]]
    BY <1>1
  <2> QED
    BY <2>1 DEF Sums
<1>3. PICK g : Sums(g, n, w)
  BY SumExists
<1>4. Solves(h)
  <2>1. Solves(g)
    BY <1>2, <1>3
  <2> HIDE DEF Solves
  <2> QED
    BY <2>1
<1>5. Sums(h, n, w)
  BY <1>2, <1>4
<1>6. EstimateOf(m) = h[1..n]
  BY EstimateUnfolded
<1> QED
  BY <1>5, <1>6

LEMMA LeastOfInterval ==
  ASSUME NEW a \in Nat, NEW b \in Nat, a <= b
  PROVE  Min(a..b) = a /\ (a..b) \ {a} = a + 1..b
<1>1. a..b \in SUBSET Nat /\ a \in a..b
  OBVIOUS
<1>2. Min(a..b) \in a..b /\ \A y \in a..b : Min(a..b) <= y
  BY <1>1, MinOfNaturals
<1>3. Min(a..b) = a
  BY <1>1, <1>2
<1> QED
  BY <1>3

(* One index more adds what it weighs. *)
LEMMA SumGrows ==
  ASSUME NEW n \in Nat, NEW w, \A i \in 1..n + 1 : w[i] \in Nat,
         NEW g, Sums(g, n, w), NEW f, Sums(f, n + 1, w)
  PROVE  g[1..n] \in Int /\ f[1..n + 1] = g[1..n] + w[n + 1]
<1> DEFINE P(k) == /\ g[n - k + 1..n] \in Int
                   /\ f[n - k + 1..n + 1] = g[n - k + 1..n] + w[n + 1]
           Bad == {k \in 0..n : ~P(k)}
<1>1. SUFFICES Bad = {}
  <2>1. n \in 0..n
    OBVIOUS
  <2>2. n \notin Bad
    <3> HIDE DEF Bad
    <3> QED
      BY <1>1
  <2>3. P(n)
    <3> HIDE DEF P
    <3> QED
      BY <2>1, <2>2
  <2>4. n - n + 1 = 1
    OBVIOUS
  <2> QED
    BY <2>3, <2>4
<1>2. SUFFICES ASSUME Bad # {} PROVE FALSE
  OBVIOUS
<1>3. PICK k \in Bad : \A y \in Bad : k <= y
  <2>1. Bad \in SUBSET Nat
    OBVIOUS
  <2> HIDE DEF Bad
  <2> QED
    BY <1>2, <2>1, LeastNatural
<1>4. k \in 0..n /\ ~P(k)
  OBVIOUS
<1>5. /\ \A s \in SUBSET (1..n) : g[s] = IF s = {} THEN 0 ELSE g[s \ {Min(s)}] + w[Min(s)]
      /\ \A s \in SUBSET (1..n + 1) : f[s] = IF s = {} THEN 0 ELSE f[s \ {Min(s)}] + w[Min(s)]
  BY DEF Sums
<1> HIDE DEF Bad
<1>6. CASE k = 0
  <2>1. g[{}] = 0 /\ f[{}] = 0
    BY <1>5
  <2>2. n + 1..n = {} /\ n + 1..n + 1 = {n + 1} /\ n - k + 1 = n + 1
    BY <1>6
  <2>3. Min({n + 1}) = n + 1
    <3>1. n + 1 \in Nat /\ n + 1 <= n + 1
      OBVIOUS
    <3>2. Min(n + 1..n + 1) = n + 1
      BY <3>1, LeastOfInterval
    <3> QED
      BY <2>2, <3>2
  <2>4. f[{n + 1}] = f[{n + 1} \ {n + 1}] + w[n + 1]
    <3>1. {n + 1} \in SUBSET (1..n + 1) /\ {n + 1} # {}
      OBVIOUS
    <3> QED
      BY <1>5, <2>3, <3>1
  <2>5. {n + 1} \ {n + 1} = {}
    OBVIOUS
  <2>6. w[n + 1] \in Nat
    OBVIOUS
  <2>7. f[{n + 1}] = 0 + w[n + 1]
    BY <2>1, <2>4, <2>5
  <2>8. n - k + 1..n = {} /\ n - k + 1..n + 1 = {n + 1}
    BY <2>2
  <2>9. g[{}] \in Int /\ f[{n + 1}] = g[{}] + w[n + 1]
    BY <2>1, <2>7
  <2>10. P(k)
    BY <2>8, <2>9
  <2> QED
    BY <1>4, <2>10
<1>7. CASE k # 0
  <2>1. k - 1 \in 0..n /\ ~(k <= k - 1)
    BY <1>4, <1>7
  <2>2. P(k - 1)
    BY <1>3, <2>1 DEF Bad
  <2> DEFINE a == n - k + 1
  <2>3. a \in Nat /\ a \in 1..n /\ n - (k - 1) + 1 = a + 1
    BY <1>4, <1>7
  <2>4. g[a + 1..n] \in Int /\ f[a + 1..n + 1] = g[a + 1..n] + w[n + 1]
    BY <2>2, <2>3
  <2> HIDE DEF a
  <2>5. /\ Min(a..n) = a /\ (a..n) \ {a} = a + 1..n
        /\ Min(a..n + 1) = a /\ (a..n + 1) \ {a} = a + 1..n + 1
    BY <2>3, LeastOfInterval
  <2>6. g[a..n] = g[a + 1..n] + w[a]
    <3>1. a..n \in SUBSET (1..n) /\ a..n # {}
      BY <2>3
    <3> QED
      BY <1>5, <2>5, <3>1
  <2>7. f[a..n + 1] = f[a + 1..n + 1] + w[a]
    <3>1. a..n + 1 \in SUBSET (1..n + 1) /\ a..n + 1 # {}
      BY <2>3
    <3> QED
      BY <1>5, <2>5, <3>1
  <2>8. w[a] \in Nat /\ w[n + 1] \in Nat
    BY <2>3
  <2>9. g[a..n] \in Int /\ f[a..n + 1] = g[a..n] + w[n + 1]
    BY <2>4, <2>6, <2>7, <2>8
  <2>10. P(k)
    BY <2>9 DEF a
  <2> QED
    BY <1>4, <2>10
<1> QED
  BY <1>6, <1>7

LEMMA PrefixSeq ==
  ASSUME NEW h \in Seq(PrefixMessage), NEW n \in 0..Len(h)
  PROVE  /\ Len(h) \in Nat /\ DOMAIN h = 1..Len(h)
         /\ \A i \in 1..Len(h) : h[i] \in PrefixMessage
         /\ SubSeq(h, 1, n) \in Seq(PrefixMessage) /\ Len(SubSeq(h, 1, n)) = n
         /\ DOMAIN SubSeq(h, 1, n) = 1..n
         /\ \A i \in 1..n : SubSeq(h, 1, n)[i] = h[i]
<1>1. Len(h) \in Nat /\ DOMAIN h = 1..Len(h) /\ \A i \in 1..Len(h) : h[i] \in PrefixMessage
  BY LenProperties, ElementOfSeq
<1>2. \A i \in 1..n : h[i] \in PrefixMessage
  BY <1>1
<1>3. /\ SubSeq(h, 1, n) \in Seq(PrefixMessage)
      /\ Len(SubSeq(h, 1, n)) = n
      /\ \A i \in 1..n : SubSeq(h, 1, n)[i] = h[i]
  <2>1. 1 \in Nat /\ n \in Nat /\ n - 1 + 1 = n /\ \A i \in Nat : 1 + i - 1 = i
    BY <1>1
  <2> QED
    BY <1>1, <1>2, <2>1, SubSeqProperties
<1>4. DOMAIN SubSeq(h, 1, n) = 1..n
  BY <1>3, LenProperties
<1> QED
  BY <1>1, <1>3, <1>4

LEMMA EstimateGrows ==
  ASSUME NEW h \in Seq(PrefixMessage), NEW n \in Nat, n + 1 <= Len(h)
  PROVE  /\ EstimateOf(SubSeq(h, 1, n)) \in Int
         /\ EstimateOf(SubSeq(h, 1, n + 1)) = EstimateOf(SubSeq(h, 1, n)) + h[n + 1].size
         /\ h[n + 1].size \in Nat
<1> DEFINE w == [i \in 1..Len(h) |-> h[i].size]
<1>1. n \in 0..Len(h) /\ n + 1 \in 0..Len(h) /\ Len(h) \in Nat
  BY LenProperties
<1>2. \A i \in 1..n + 1 : w[i] = h[i].size /\ h[i].size \in Nat
  <2>1. \A i \in 1..Len(h) : h[i] \in PrefixMessage
    BY ElementOfSeq
  <2> QED
    BY <1>1, <2>1 DEF PrefixMessage
<1> HIDE DEF w
<1>3. PICK g : Sums(g, n, w) /\ EstimateOf(SubSeq(h, 1, n)) = g[1..n]
  <2>1. DOMAIN SubSeq(h, 1, n) = 1..n /\ \A i \in 1..n : SubSeq(h, 1, n)[i] = h[i]
    BY <1>1, PrefixSeq
  <2>2. \A i \in 1..n : w[i] = SubSeq(h, 1, n)[i].size
    BY <1>2, <2>1
  <2> QED
    BY <2>1, <2>2, EstimateIsSum
<1>4. PICK f : Sums(f, n + 1, w) /\ EstimateOf(SubSeq(h, 1, n + 1)) = f[1..n + 1]
  <2>1. /\ DOMAIN SubSeq(h, 1, n + 1) = 1..n + 1
        /\ \A i \in 1..n + 1 : SubSeq(h, 1, n + 1)[i] = h[i]
    BY <1>1, PrefixSeq
  <2>2. \A i \in 1..n + 1 : w[i] = SubSeq(h, 1, n + 1)[i].size
    BY <1>2, <2>1
  <2>3. n + 1 \in Nat
    OBVIOUS
  <2> QED
    BY <2>1, <2>2, <2>3, EstimateIsSum
<1>5. g[1..n] \in Int /\ f[1..n + 1] = g[1..n] + w[n + 1]
  BY <1>2, <1>3, <1>4, SumGrows
<1> QED
  BY <1>2, <1>3, <1>4, <1>5

(* A longer prefix that fits leaves none shorter that does not. *)
LEMMA FitsDown ==
  ASSUME NEW h \in Seq(PrefixMessage), NEW m \in Nat, NEW n \in Nat, n <= m, m + 1 <= Len(h),
         FitsRequest(h, m)
  PROVE  FitsRequest(h, n)
<1> DEFINE Bad == {k \in 0..m - n : ~FitsRequest(h, m - k)}
<1>1. SUFFICES Bad = {}
  <2>1. m - n \in 0..m - n /\ m - (m - n) = n
    OBVIOUS
  <2>2. m - n \notin Bad
    <3> HIDE DEF Bad
    <3> QED
      BY <1>1
  <2> QED
    BY <2>1, <2>2
<1>2. SUFFICES ASSUME Bad # {} PROVE FALSE
  OBVIOUS
<1>3. PICK k \in Bad : \A y \in Bad : k <= y
  <2>1. Bad \in SUBSET Nat
    OBVIOUS
  <2> HIDE DEF Bad
  <2> QED
    BY <1>2, <2>1, LeastNatural
<1>4. k \in 0..m - n /\ ~FitsRequest(h, m - k)
  OBVIOUS
<1>5. k # 0
  <2>1. m - 0 = m
    OBVIOUS
  <2> QED
    BY <1>4, <2>1
<1>6. k - 1 \in 0..m - n /\ ~(k <= k - 1)
  BY <1>4, <1>5
<1>7. FitsRequest(h, m - (k - 1))
  BY <1>3, <1>6
<1> DEFINE a == m - k
<1>8. a \in Nat /\ m - (k - 1) = a + 1 /\ a + 1 <= Len(h)
  <2>1. Len(h) \in Nat
    BY LenProperties
  <2> QED
    BY <1>4, <1>5, <2>1
<1> HIDE DEF a
<1>9. /\ EstimateOf(SubSeq(h, 1, a)) \in Int /\ h[a + 1].size \in Nat
      /\ EstimateOf(SubSeq(h, 1, a + 1)) = EstimateOf(SubSeq(h, 1, a)) + h[a + 1].size
  BY <1>8, EstimateGrows
<1>10. EstimateOf(SubSeq(h, 1, a + 1)) <= RequestLimit
  BY <1>7, <1>8 DEF FitsRequest
<1>11. FitsRequest(h, a)
  <2> DEFINE x == EstimateOf(SubSeq(h, 1, a))
             y == EstimateOf(SubSeq(h, 1, a + 1))
             z == h[a + 1].size
  <2>1. x \in Int /\ z \in Nat /\ y = x + z /\ y <= RequestLimit
    BY <1>9, <1>10
  <2> HIDE DEF x, y, z
  <2>2. x <= RequestLimit
    BY <2>1, PrefixAssumption
  <2> QED
    BY <2>2 DEF x, FitsRequest
<1> QED
  BY <1>4, <1>11 DEF a

(* The longest prefix that fits, of those from low to high, or 0. *)
Longest(h, low, high, v) ==
    /\ v = 0 \/ (v \in low..high /\ FitsRequest(h, v))
    /\ \A n \in low..high : FitsRequest(h, n) => n <= v

LEMMA LongestUnique ==
  ASSUME NEW h, NEW low \in Nat \ {0}, NEW high \in Nat,
         NEW v, NEW w, Longest(h, low, high, v), Longest(h, low, high, w)
  PROVE  v = w
BY DEF Longest

LEMMA LongestExists ==
  ASSUME NEW h, NEW low \in Nat \ {0}, NEW high \in Nat
  PROVE  \E v : Longest(h, low, high, v)
<1> DEFINE T == {n \in 0..high : n <= high /\ high - n \in low..high /\ FitsRequest(h, high - n)}
<1>1. CASE T = {}
  <2>1. ASSUME NEW n \in low..high PROVE ~FitsRequest(h, n)
    <3>1. high - n \in 0..high /\ high - (high - n) = n
      OBVIOUS
    <3>2. high - n \notin T
      <4> HIDE DEF T
      <4> QED
        BY <1>1
    <3> QED
      BY <3>1, <3>2
  <2>2. Longest(h, low, high, 0)
    BY <2>1 DEF Longest
  <2> QED
    BY <2>2
<1>2. CASE T # {}
  <2>1. PICK x \in T : \A y \in T : x <= y
    <3>1. T \in SUBSET Nat
      OBVIOUS
    <3> HIDE DEF T
    <3> QED
      BY <1>2, <3>1, LeastNatural
  <2>2. x \in 0..high /\ high - x \in low..high /\ FitsRequest(h, high - x)
    OBVIOUS
  <2>3. ASSUME NEW n \in low..high, FitsRequest(h, n) PROVE n <= high - x
    <3>1. high - n \in 0..high /\ high - (high - n) = n
      OBVIOUS
    <3>2. high - n \in T
      BY <2>3, <3>1
    <3>3. x <= high - n
      <4> HIDE DEF T
      <4> QED
        BY <2>1, <3>2
    <3> QED
      BY <2>2, <3>3
  <2>4. Longest(h, low, high, high - x)
    BY <2>2, <2>3 DEF Longest
  <2> QED
    BY <2>4
<1> QED
  BY <1>1, <1>2

LEMMA MaxOfTwo ==
  ASSUME NEW a \in Nat, NEW b \in Nat
  PROVE  Max({a, b}) \in {a, b} /\ Max({a, b}) >= a /\ Max({a, b}) >= b
<1>1. \E x \in {a, b} : \A y \in {a, b} : x >= y
  OBVIOUS
<1>2. Max({a, b}) \in {a, b} /\ \A y \in {a, b} : Max({a, b}) >= y
  BY <1>1 DEF Max
<1> QED
  BY <1>2

(* The search, by the recursion it is defined by. *)
Ranges(h) == (1..Len(h)) \X (0..Len(h) - 1)

Halved(h, f, low, high) ==
    LET middle == (low + high) \div 2
    IN  CASE low > high -> 0
          [] low <= high /\ FitsRequest(h, middle) -> Max({middle, f[<<middle + 1, high>>]})
          [] OTHER -> f[<<low, middle - 1>>]

Searches(h, f) == f = [range \in Ranges(h) |-> Halved(h, f, range[1], range[2])]

LEMMA SearchUnfolded ==
  ASSUME NEW h
  PROVE  LargestFitting(h) = (CHOOSE f : Searches(h, f))[<<1, Len(h) - 1>>]
BY DEF LargestFitting, Searches, Halved, Ranges, FitsRequest

LEMMA HalfFinds ==
  ASSUME NEW h \in Seq(PrefixMessage), NEW f,
         NEW low \in 1..Len(h), NEW high \in 0..Len(h) - 1,
         \A a \in 1..Len(h), b \in 0..Len(h) - 1 :
            b - a < high - low => Longest(h, a, b, f[<<a, b>>])
  PROVE  Longest(h, low, high, Halved(h, f, low, high))
<1> DEFINE middle == (low + high) \div 2
<1>1. Len(h) \in Nat
  BY LenProperties
<1>2. CASE low > high
  <2>1. Halved(h, f, low, high) = 0
    BY <1>2 DEF Halved
  <2> QED
    BY <1>1, <1>2, <2>1 DEF Longest
<1>3. CASE low <= high
  <2>1. middle \in low..high /\ middle \in Nat
    BY <1>1, <1>3
  <2>2. CASE FitsRequest(h, middle)
    <3> DEFINE v == f[<<middle + 1, high>>]
    <3>1. Halved(h, f, low, high) = Max({middle, v})
      BY <1>1, <1>3, <2>2 DEF Halved
    <3> HIDE DEF middle
    <3>2. middle + 1 \in 1..Len(h) /\ high - (middle + 1) < high - low
      BY <1>1, <1>3, <2>1
    <3>3. Longest(h, middle + 1, high, v)
      BY <3>2
    <3> HIDE DEF v
    <3>4. v = 0 \/ (v \in middle + 1..high /\ FitsRequest(h, v))
      BY <3>3 DEF Longest
    <3>5. \A n \in middle + 1..high : FitsRequest(h, n) => n <= v
      BY <3>3 DEF Longest
    <3>6. v \in Nat
      BY <1>1, <2>1, <3>4
    <3> DEFINE m == Max({middle, v})
    <3>7. m \in {middle, v} /\ m >= middle /\ m >= v
      BY <2>1, <3>6, MaxOfTwo
    <3> HIDE DEF m
    <3>8. m \in low..high /\ FitsRequest(h, m)
      BY <1>1, <2>1, <2>2, <3>4, <3>6, <3>7
    <3>9. ASSUME NEW n \in low..high, FitsRequest(h, n) PROVE n <= m
      <4>1. CASE n <= middle
        BY <1>1, <2>1, <3>6, <3>7, <4>1
      <4>2. CASE n > middle
        <5>1. n \in middle + 1..high
          BY <1>1, <2>1, <4>2
        <5>2. n <= v
          BY <3>5, <3>9, <5>1
        <5> QED
          BY <1>1, <2>1, <3>6, <3>7, <5>2
      <4> QED
        BY <1>1, <2>1, <4>1, <4>2
    <3>10. Longest(h, low, high, m)
      BY <3>8, <3>9 DEF Longest
    <3> QED
      BY <3>1, <3>10 DEF m
  <2>3. CASE ~FitsRequest(h, middle)
    <3> DEFINE v == f[<<low, middle - 1>>]
    <3>1. Halved(h, f, low, high) = v
      BY <1>1, <1>3, <2>3 DEF Halved
    <3> HIDE DEF middle
    <3>2. middle - 1 \in 0..Len(h) - 1 /\ middle - 1 - low < high - low
      BY <1>1, <1>3, <2>1
    <3>3. Longest(h, low, middle - 1, v)
      BY <3>2
    <3> HIDE DEF v
    <3>4. v = 0 \/ (v \in low..middle - 1 /\ FitsRequest(h, v))
      BY <3>3 DEF Longest
    <3>5. v = 0 \/ (v \in low..high /\ FitsRequest(h, v))
      BY <1>1, <2>1, <3>4
    <3>6. ASSUME NEW n \in low..high, FitsRequest(h, n) PROVE n <= v
      <4>1. n < middle
        <5>1. SUFFICES ASSUME middle <= n PROVE FALSE
          BY <1>1, <2>1
        <5>2. n \in Nat /\ n + 1 <= Len(h)
          BY <1>1
        <5>3. FitsRequest(h, middle)
          BY <2>1, <3>6, <5>1, <5>2, FitsDown
        <5> QED
          BY <2>3, <5>3
      <4>2. n \in low..middle - 1
        BY <1>1, <2>1, <4>1
      <4> QED
        BY <3>3, <3>6, <4>2 DEF Longest
    <3>7. Longest(h, low, high, v)
      BY <3>5, <3>6 DEF Longest
    <3> QED
      BY <3>1, <3>7
  <2> QED
    BY <2>2, <2>3
<1> QED
  BY <1>1, <1>2, <1>3

LEMMA SearchExists ==
  ASSUME NEW h \in Seq(PrefixMessage)
  PROVE  \E f : Searches(h, f)
<1> DEFINE g == [range \in Ranges(h) |-> CHOOSE v : Longest(h, range[1], range[2], v)]
<1>1. Len(h) \in Nat
  BY LenProperties
<1>2. ASSUME NEW a \in 1..Len(h), NEW b \in 0..Len(h) - 1
      PROVE  Longest(h, a, b, g[<<a, b>>])
  <2>1. a \in Nat \ {0} /\ b \in Nat
    BY <1>1
  <2>2. \E v : Longest(h, a, b, v)
    BY <2>1, LongestExists
  <2>3. Longest(h, a, b, CHOOSE v : Longest(h, a, b, v))
    BY <2>2
  <2>4. g[<<a, b>>] = CHOOSE v : Longest(h, a, b, v)
    BY DEF Ranges
  <2> QED
    BY <2>3, <2>4
<1>3. ASSUME NEW range \in Ranges(h)
      PROVE  g[range] = Halved(h, g, range[1], range[2])
  <2>1. PICK a \in 1..Len(h), b \in 0..Len(h) - 1 : range = <<a, b>>
    BY DEF Ranges
  <2>2. range[1] = a /\ range[2] = b
    BY <2>1
  <2> HIDE DEF g
  <2>3. Longest(h, a, b, Halved(h, g, a, b))
    BY <1>2, HalfFinds
  <2>4. a \in Nat \ {0} /\ b \in Nat
    BY <1>1
  <2>5. Longest(h, a, b, g[<<a, b>>])
    BY <1>2
  <2>6. g[<<a, b>>] = Halved(h, g, a, b)
    BY <2>3, <2>4, <2>5, LongestUnique
  <2> QED
    BY <2>1, <2>2, <2>6
<1>4. g = [range \in Ranges(h) |-> g[range]]
  OBVIOUS
<1> HIDE DEF g
<1>5. g = [range \in Ranges(h) |-> Halved(h, g, range[1], range[2])]
  BY <1>3, <1>4
<1> QED
  BY <1>5 DEF Searches

(* Whatever solves the recursion of the search finds the longest prefix in every range. *)
LEMMA SearchFinds ==
  ASSUME NEW h \in Seq(PrefixMessage), NEW f, Searches(h, f),
         NEW low \in 1..Len(h), NEW high \in 0..Len(h) - 1
  PROVE  Longest(h, low, high, f[<<low, high>>])
<1> DEFINE P(k) == \A a \in 1..Len(h), b \in 0..Len(h) - 1 :
                      b - a + Len(h) = k => Longest(h, a, b, f[<<a, b>>])
           Bad == {k \in Nat : ~P(k)}
<1>1. Len(h) \in Nat
  BY LenProperties
<1>2. SUFFICES Bad = {}
  <2>1. high - low + Len(h) \in Nat
    BY <1>1
  <2>2. high - low + Len(h) \notin Bad
    <3> HIDE DEF Bad
    <3> QED
      BY <1>2
  <2>3. P(high - low + Len(h))
    <3> HIDE DEF P
    <3> QED
      BY <2>1, <2>2
  <2> QED
    BY <2>3
<1>3. SUFFICES ASSUME Bad # {} PROVE FALSE
  OBVIOUS
<1>4. PICK k \in Bad : \A y \in Bad : k <= y
  <2>1. Bad \in SUBSET Nat
    OBVIOUS
  <2> HIDE DEF Bad
  <2> QED
    BY <1>3, <2>1, LeastNatural
<1>5. PICK a \in 1..Len(h), b \in 0..Len(h) - 1 :
         b - a + Len(h) = k /\ ~Longest(h, a, b, f[<<a, b>>])
  OBVIOUS
<1>6. ASSUME NEW c \in 1..Len(h), NEW d \in 0..Len(h) - 1, d - c < b - a
      PROVE  Longest(h, c, d, f[<<c, d>>])
  <2>1. d - c + Len(h) \in Nat /\ ~(k <= d - c + Len(h))
    BY <1>1, <1>5, <1>6
  <2>2. d - c + Len(h) \notin Bad
    <3> HIDE DEF Bad
    <3> QED
      BY <1>4, <2>1
  <2>3. P(d - c + Len(h))
    <3> HIDE DEF P
    <3> QED
      BY <2>1, <2>2
  <2> QED
    BY <2>3
<1> HIDE DEF Bad
<1>7. Longest(h, a, b, Halved(h, f, a, b))
  BY <1>6, HalfFinds
<1>8. f[<<a, b>>] = Halved(h, f, a, b)
  <2> DEFINE range == <<a, b>>
  <2>1. range \in Ranges(h) /\ range[1] = a /\ range[2] = b
    BY DEF Ranges
  <2> HIDE DEF range
  <2>2. f[range] = Halved(h, f, range[1], range[2])
    BY <2>1 DEF Searches
  <2> QED
    BY <2>1, <2>2 DEF range
<1> QED
  BY <1>5, <1>7, <1>8

(* The prefixes that fit are those up to the one that halving finds. *)
LEMMA LargestFits ==
  ASSUME NEW h \in Seq(PrefixMessage), 2 <= Len(h)
  PROVE  /\ LargestFitting(h) \in Nat
         /\ \A n \in Nat \ {0} :
               n <= LargestFitting(h) <=> n <= Len(h) - 1 /\ FitsRequest(h, n)
<1> DEFINE f == CHOOSE g : Searches(h, g)
           v == LargestFitting(h)
           high == Len(h) - 1
<1>1. Len(h) \in Nat
  BY LenProperties
<1>2. Searches(h, f)
  BY SearchExists
<1>3. v = f[<<1, high>>]
  BY SearchUnfolded
<1> HIDE DEF f, v
<1>4. 1 \in 1..Len(h) /\ high \in 0..Len(h) - 1
  BY <1>1
<1>5. Longest(h, 1, high, v)
  BY <1>2, <1>3, <1>4, SearchFinds
<1>6. v = 0 \/ (v \in 1..high /\ FitsRequest(h, v))
  BY <1>5 DEF Longest
<1>7. v \in Nat
  BY <1>1, <1>6
<1>8. ASSUME NEW n \in Nat \ {0}, n <= v PROVE n <= high /\ FitsRequest(h, n)
  <2>1. v \in 1..high /\ FitsRequest(h, v)
    BY <1>6, <1>8
  <2>2. n <= high /\ v + 1 <= Len(h)
    BY <1>1, <1>8, <2>1
  <2>3. FitsRequest(h, n)
    BY <1>7, <1>8, <2>1, <2>2, FitsDown
  <2> QED
    BY <2>2, <2>3
<1>9. ASSUME NEW n \in Nat \ {0}, n <= high, FitsRequest(h, n) PROVE n <= v
  <2>1. n \in 1..high
    BY <1>1, <1>9
  <2> QED
    BY <1>5, <1>9, <2>1 DEF Longest
<1> QED
  BY <1>7, <1>8, <1>9 DEF v

-----------------------------------------------------------------------------
(* Calls and their results. *)

LEMMA PrefixUses ==
  ASSUME NEW h \in Seq(PrefixMessage), NEW n \in 0..Len(h), NEW c
  PROVE  /\ c \in UsesOf(SubSeq(h, 1, n)) <=> \E i \in 1..n : c \in h[i].uses
         /\ c \in ResultsOf(SubSeq(h, 1, n)) <=> \E i \in 1..n : c \in h[i].results
<1> DEFINE p == SubSeq(h, 1, n)
<1>1. DOMAIN p = 1..n /\ \A i \in 1..n : p[i] = h[i]
  BY PrefixSeq
<1> HIDE DEF p
<1>2. c \in UsesOf(p) <=> \E i \in 1..n : c \in h[i].uses
  BY <1>1 DEF UsesOf
<1>3. c \in ResultsOf(p) <=> \E i \in 1..n : c \in h[i].results
  BY <1>1 DEF ResultsOf
<1> QED
  BY <1>2, <1>3 DEF p

LEMMA TailResults ==
  ASSUME NEW h \in Seq(PrefixMessage), NEW n \in 0..Len(h), NEW c
  PROVE  c \in ResultsOf(SubSeq(h, n + 1, Len(h))) <=> \E i \in n + 1..Len(h) : c \in h[i].results
<1> DEFINE p == SubSeq(h, n + 1, Len(h))
<1>1. Len(h) \in Nat /\ n \in Nat /\ \A i \in 1..Len(h) : h[i] \in PrefixMessage
  BY LenProperties, ElementOfSeq
<1>2. \A i \in n + 1..Len(h) : h[i] \in PrefixMessage
  BY <1>1
<1>3. /\ p \in Seq(PrefixMessage) /\ Len(p) = Len(h) - n
      /\ \A i \in 1..Len(h) - n : p[i] = h[n + i]
  <2>1. Len(h) - (n + 1) + 1 = Len(h) - n /\ n + 1 <= Len(h) + 1 /\ n + 1 \in Nat
    BY <1>1
  <2>2. /\ p \in Seq(PrefixMessage)
        /\ Len(p) = IF n + 1 <= Len(h) THEN Len(h) - (n + 1) + 1 ELSE 0
        /\ \A i \in 1..Len(h) - (n + 1) + 1 : p[i] = h[n + 1 + i - 1]
    BY <1>1, <1>2, <2>1, SubSeqProperties
  <2> HIDE DEF p
  <2>3. Len(p) = Len(h) - n
    <3>1. CASE n + 1 <= Len(h)
      <4>1. Len(p) = Len(h) - (n + 1) + 1
        BY <2>2, <3>1
      <4> QED
        BY <2>1, <4>1
    <3>2. CASE ~(n + 1 <= Len(h))
      <4>1. Len(p) = 0
        BY <2>2, <3>2
      <4>2. Len(h) - n = 0
        BY <1>1, <3>2
      <4> QED
        BY <4>1, <4>2
    <3> QED
      BY <3>1, <3>2
  <2>4. ASSUME NEW i \in 1..Len(h) - n PROVE p[i] = h[n + i]
    <3>1. i \in 1..Len(h) - (n + 1) + 1 /\ n + 1 + i - 1 = n + i
      BY <1>1
    <3> QED
      BY <2>2, <3>1
  <2> QED
    BY <2>2, <2>3, <2>4
<1> HIDE DEF p
<1>4. DOMAIN p = 1..Len(h) - n
  BY <1>3, LenProperties
<1>5. ASSUME c \in ResultsOf(p) PROVE \E i \in n + 1..Len(h) : c \in h[i].results
  <2>1. PICK i \in 1..Len(h) - n : c \in h[n + i].results
    BY <1>3, <1>4, <1>5 DEF ResultsOf
  <2>2. n + i \in n + 1..Len(h)
    BY <1>1
  <2> QED
    BY <2>1, <2>2
<1>6. ASSUME NEW i \in n + 1..Len(h), c \in h[i].results PROVE c \in ResultsOf(p)
  <2>1. i - n \in 1..Len(h) - n /\ n + (i - n) = i
    BY <1>1
  <2>2. c \in p[i - n].results
    BY <1>3, <1>6, <2>1
  <2> QED
    BY <1>4, <2>1, <2>2 DEF ResultsOf
<1> QED
  BY <1>5, <1>6 DEF p

LEMMA WholeUses ==
  ASSUME NEW h \in Seq(PrefixMessage), NEW c
  PROVE  /\ c \in UsesOf(h) <=> \E i \in 1..Len(h) : c \in h[i].uses
         /\ c \in ResultsOf(h) <=> \E i \in 1..Len(h) : c \in h[i].results
<1>1. DOMAIN h = 1..Len(h)
  BY LenProperties
<1> QED
  BY <1>1 DEF UsesOf, ResultsOf

(* A history is well formed if every call has one use and one result, in this order. *)
PairedIn(h) ==
    \A c \in Calls :
       \/ \A i \in 1..Len(h) : c \notin h[i].uses /\ c \notin h[i].results
       \/ \E i, j \in 1..Len(h) :
             /\ i < j
             /\ \A k \in 1..Len(h) : c \in h[k].uses <=> k = i
             /\ \A k \in 1..Len(h) : c \in h[k].results <=> k = j

LEMMA WellFormedUses ==
  ASSUME NEW h \in Seq(PrefixMessage), WellFormed(h),
         NEW i \in 1..Len(h), NEW j \in 1..Len(h), NEW c, c \in h[i].uses, c \in h[j].uses
  PROVE  i = j
<1>1. Len(h) \in Nat /\ DOMAIN h = 1..Len(h)
  BY LenProperties
<1>2. ASSUME NEW a \in 1..Len(h), NEW b \in 1..Len(h), a < b, c \in h[a].uses, c \in h[b].uses
      PROVE  FALSE
  <2>1. b - 1 \in 0..Len(h) /\ a \in 1..b - 1
    BY <1>1, <1>2
  <2>2. c \in UsesOf(SubSeq(h, 1, b - 1))
    BY <1>2, <2>1, PrefixUses
  <2>3. h[b].uses \intersect UsesOf(SubSeq(h, 1, b - 1)) = {}
    BY <1>1 DEF WellFormed
  <2> QED
    BY <1>2, <2>2, <2>3
<1>3. ~(i < j) /\ ~(j < i)
  BY <1>2
<1> QED
  BY <1>1, <1>3

LEMMA WellFormedResults ==
  ASSUME NEW h \in Seq(PrefixMessage), WellFormed(h), OneKind(h),
         NEW j \in 1..Len(h), NEW c, c \in h[j].results
  PROVE  /\ \E i \in 1..Len(h) : i < j /\ c \in h[i].uses
         /\ \A i \in 1..Len(h) : c \in h[i].results => i = j
<1>1. Len(h) \in Nat /\ DOMAIN h = 1..Len(h)
  BY LenProperties
<1>2. ASSUME NEW k \in 1..Len(h)
      PROVE  h[k].results \subseteq UsesOf(SubSeq(h, 1, k)) \ ResultsOf(SubSeq(h, 1, k - 1))
  BY <1>1 DEF WellFormed
<1>3. PICK i \in 1..j : c \in h[i].uses
  <2>1. j \in 0..Len(h)
    BY <1>1
  <2>2. c \in UsesOf(SubSeq(h, 1, j))
    BY <1>2
  <2> QED
    BY <2>1, <2>2, PrefixUses
<1>4. i # j
  <2>1. h[j].uses = {} \/ h[j].results = {}
    BY DEF OneKind
  <2> QED
    BY <1>3, <2>1
<1>5. i \in 1..Len(h) /\ i < j
  BY <1>1, <1>3, <1>4
<1>6. ASSUME NEW a \in 1..Len(h), NEW b \in 1..Len(h), a < b,
             c \in h[a].results, c \in h[b].results
      PROVE  FALSE
  <2>1. b - 1 \in 0..Len(h) /\ a \in 1..b - 1
    BY <1>1, <1>6
  <2>2. c \in ResultsOf(SubSeq(h, 1, b - 1))
    BY <1>6, <2>1, PrefixUses
  <2> QED
    BY <1>2, <1>6, <2>2
<1>7. \A k \in 1..Len(h) : c \in h[k].results => k = j
  <2> SUFFICES ASSUME NEW k \in 1..Len(h), c \in h[k].results PROVE k = j
    OBVIOUS
  <2>1. ~(k < j) /\ ~(j < k)
    BY <1>6
  <2> QED
    BY <1>1, <2>1
<1> QED
  BY <1>3, <1>5, <1>7

LEMMA WellFormedIsPaired ==
  ASSUME NEW h \in Seq(PrefixMessage), OneKind(h), WellFormed(h)
  PROVE  PairedIn(h)
<1> SUFFICES ASSUME NEW c \in Calls,
                    \E i \in 1..Len(h) : c \in h[i].uses \/ c \in h[i].results
             PROVE  \E i, j \in 1..Len(h) :
                       /\ i < j
                       /\ \A k \in 1..Len(h) : c \in h[k].uses <=> k = i
                       /\ \A k \in 1..Len(h) : c \in h[k].results <=> k = j
  BY DEF PairedIn
<1>1. PICK j \in 1..Len(h) : c \in h[j].results
  <2>1. ASSUME NEW i \in 1..Len(h), c \in h[i].uses
        PROVE  \E j \in 1..Len(h) : c \in h[j].results
    <3>1. c \in UsesOf(h)
      BY <2>1, WholeUses
    <3>2. c \in ResultsOf(h)
      BY <3>1 DEF WellFormed
    <3> QED
      BY <3>2, WholeUses
  <2> QED
    BY <2>1
<1>2. PICK i \in 1..Len(h) : i < j /\ c \in h[i].uses
  BY <1>1, WellFormedResults
<1>3. \A k \in 1..Len(h) : c \in h[k].uses <=> k = i
  BY <1>2, WellFormedUses
<1>4. \A k \in 1..Len(h) : c \in h[k].results <=> k = j
  BY <1>1, WellFormedResults
<1> QED
  BY <1>2, <1>3, <1>4

LEMMA PairedIsWellFormed ==
  ASSUME NEW h \in Seq(PrefixMessage), PairedIn(h)
  PROVE  WellFormed(h)
<1>1. Len(h) \in Nat /\ DOMAIN h = 1..Len(h) /\ \A i \in 1..Len(h) : h[i] \in PrefixMessage
  BY LenProperties, ElementOfSeq
<1>2. \A k \in 1..Len(h) : h[k].uses \subseteq Calls /\ h[k].results \subseteq Calls
  BY <1>1 DEF PrefixMessage
<1>3. ASSUME NEW k \in 1..Len(h), NEW c, c \in h[k].uses, c \in UsesOf(SubSeq(h, 1, k - 1))
      PROVE  FALSE
  <2>1. k - 1 \in 0..Len(h)
    BY <1>1
  <2>2. PICK a \in 1..k - 1 : c \in h[a].uses
    BY <1>3, <2>1, PrefixUses
  <2>3. c \in Calls /\ a \in 1..Len(h) /\ a # k
    BY <1>1, <1>2, <1>3, <2>2
  <2> QED
    BY <1>3, <2>2, <2>3 DEF PairedIn
<1>4. ASSUME NEW j \in 1..Len(h), NEW c, c \in h[j].results
      PROVE  c \in UsesOf(SubSeq(h, 1, j)) /\ c \notin ResultsOf(SubSeq(h, 1, j - 1))
  <2>1. j - 1 \in 0..Len(h) /\ j \in 0..Len(h)
    BY <1>1
  <2>2. c \in Calls
    BY <1>2, <1>4
  <2>3. PICK i \in 1..Len(h), l \in 1..Len(h) :
           /\ i < l
           /\ \A k \in 1..Len(h) : c \in h[k].uses <=> k = i
           /\ \A k \in 1..Len(h) : c \in h[k].results <=> k = l
    BY <1>4, <2>2 DEF PairedIn
  <2>4. l = j
    BY <1>4, <2>3
  <2>5. i \in 1..j /\ c \in h[i].uses
    BY <1>1, <2>3, <2>4
  <2>6. c \in UsesOf(SubSeq(h, 1, j))
    BY <2>1, <2>5, PrefixUses
  <2>7. ASSUME c \in ResultsOf(SubSeq(h, 1, j - 1)) PROVE FALSE
    <3>1. PICK a \in 1..j - 1 : c \in h[a].results
      BY <2>1, <2>7, PrefixUses
    <3>2. a \in 1..Len(h) /\ a # j
      BY <1>1
    <3> QED
      BY <2>3, <2>4, <3>1, <3>2
  <2> QED
    BY <2>6, <2>7
<1>5. ASSUME NEW c, c \in UsesOf(h) PROVE c \in ResultsOf(h)
  <2>1. PICK k \in 1..Len(h) : c \in h[k].uses
    BY <1>5, WholeUses
  <2>2. c \in Calls
    BY <1>2, <2>1
  <2>3. PICK j \in 1..Len(h) : c \in h[j].results
    BY <2>1, <2>2 DEF PairedIn
  <2> QED
    BY <2>3, WholeUses
<1>6. \A i \in DOMAIN h :
         /\ h[i].uses \intersect UsesOf(SubSeq(h, 1, i - 1)) = {}
         /\ h[i].results \subseteq UsesOf(SubSeq(h, 1, i)) \ ResultsOf(SubSeq(h, 1, i - 1))
  BY <1>1, <1>3, <1>4
<1> QED
  BY <1>5, <1>6 DEF WellFormed

(* Where every call has one result, a boundary is safe if no call and its result are parted. *)
Uncut(h, n) ==
    \A i, j \in 1..Len(h) : h[i].uses \intersect h[j].results # {} => (i <= n <=> j <= n)

LEMMA SafeIsUncut ==
  ASSUME NEW h \in Seq(PrefixMessage), PairedIn(h), NEW n \in 1..Len(h) - 1
  PROVE  IsSafeBoundary(h, n) <=> Uncut(h, n)
<1> DEFINE prefix == SubSeq(h, 1, n)
           tail   == SubSeq(h, n + 1, Len(h))
<1>1. Len(h) \in Nat /\ n \in 0..Len(h) /\ \A i \in 1..Len(h) : h[i] \in PrefixMessage
  BY LenProperties, ElementOfSeq
<1>2. \A k \in 1..Len(h) : h[k].uses \subseteq Calls /\ h[k].results \subseteq Calls
  BY <1>1 DEF PrefixMessage
<1>3. \A c : /\ c \in UsesOf(prefix) <=> \E i \in 1..n : c \in h[i].uses
             /\ c \in ResultsOf(prefix) <=> \E i \in 1..n : c \in h[i].results
             /\ c \in ResultsOf(tail) <=> \E i \in n + 1..Len(h) : c \in h[i].results
  BY <1>1, PrefixUses, TailResults
<1>4. IsSafeBoundary(h, n) <=> /\ UsesOf(prefix) \subseteq ResultsOf(prefix) \ ResultsOf(tail)
                               /\ ResultsOf(prefix) \subseteq UsesOf(prefix)
  BY DEF IsSafeBoundary
<1> HIDE DEF prefix, tail
<1>5. ASSUME IsSafeBoundary(h, n), NEW i \in 1..Len(h), NEW j \in 1..Len(h),
             NEW c, c \in h[i].uses, c \in h[j].results
      PROVE  i <= n <=> j <= n
  <2>1. c \in Calls
    BY <1>2, <1>5
  <2>2. \A a \in 1..Len(h) : c \in h[a].uses => a = i
    BY <1>5, <2>1 DEF PairedIn
  <2>3. CASE i <= n /\ ~(j <= n)
    <3>1. i \in 1..n /\ j \in n + 1..Len(h)
      BY <1>1, <2>3
    <3>2. c \in UsesOf(prefix) /\ c \in ResultsOf(tail)
      BY <1>3, <1>5, <3>1
    <3> QED
      BY <1>4, <1>5, <3>2
  <2>4. CASE j <= n /\ ~(i <= n)
    <3>1. j \in 1..n
      BY <1>1, <2>4
    <3>2. c \in UsesOf(prefix)
      BY <1>3, <1>4, <1>5, <3>1
    <3>3. PICK a \in 1..n : c \in h[a].uses
      BY <1>3, <3>2
    <3>4. a \in 1..Len(h) /\ a # i
      BY <1>1, <2>4
    <3> QED
      BY <2>2, <3>3, <3>4
  <2> QED
    BY <2>3, <2>4
<1>6. ASSUME Uncut(h, n), NEW c, c \in UsesOf(prefix)
      PROVE  c \in ResultsOf(prefix) /\ c \notin ResultsOf(tail)
  <2>1. PICK i \in 1..n : c \in h[i].uses
    BY <1>3, <1>6
  <2>2. i \in 1..Len(h) /\ c \in Calls
    BY <1>1, <1>2, <2>1
  <2>3. PICK j \in 1..Len(h) : \A k \in 1..Len(h) : c \in h[k].results <=> k = j
    BY <2>1, <2>2 DEF PairedIn
  <2>4. c \in h[j].results
    BY <2>3
  <2>5. j <= n
    BY <1>1, <1>6, <2>1, <2>2, <2>4 DEF Uncut
  <2>6. c \in ResultsOf(prefix)
    BY <1>1, <1>3, <2>4, <2>5
  <2>7. c \notin ResultsOf(tail)
    <3>1. SUFFICES ASSUME c \in ResultsOf(tail) PROVE FALSE
      OBVIOUS
    <3>2. PICK k \in n + 1..Len(h) : c \in h[k].results
      BY <1>3, <3>1
    <3>3. k \in 1..Len(h) /\ k # j
      BY <1>1, <2>5
    <3> QED
      BY <2>3, <3>2, <3>3
  <2> QED
    BY <2>6, <2>7
<1>7. ASSUME Uncut(h, n), NEW c, c \in ResultsOf(prefix)
      PROVE  c \in UsesOf(prefix)
  <2>1. PICK j \in 1..n : c \in h[j].results
    BY <1>3, <1>7
  <2>2. j \in 1..Len(h) /\ c \in Calls
    BY <1>1, <1>2, <2>1
  <2>3. PICK i \in 1..Len(h) : c \in h[i].uses
    BY <2>1, <2>2 DEF PairedIn
  <2>4. i <= n
    BY <1>1, <1>7, <2>1, <2>2, <2>3 DEF Uncut
  <2> QED
    BY <1>1, <1>3, <2>3, <2>4
<1>8. IsSafeBoundary(h, n) => Uncut(h, n)
  BY <1>5 DEF Uncut
<1>9. Uncut(h, n) => IsSafeBoundary(h, n)
  BY <1>4, <1>6, <1>7
<1> QED
  BY <1>8, <1>9

LEMMA PairedIsPaired ==
  ASSUME history \in Seq(PrefixMessage)
  PROVE  Paired <=> PairedIn(history)
<1> DEFINE used(c) == {i \in DOMAIN history : c \in history[i].uses}
           held(c) == {i \in DOMAIN history : c \in history[i].results}
           one(c) == \/ used(c) = {} /\ held(c) = {}
                     \/ \E i, j \in 1..Len(history) :
                           used(c) = {i} /\ held(c) = {j} /\ i < j
           two(c) == \/ \A i \in 1..Len(history) :
                           c \notin history[i].uses /\ c \notin history[i].results
                     \/ \E i, j \in 1..Len(history) :
                           /\ i < j
                           /\ \A k \in 1..Len(history) : c \in history[k].uses <=> k = i
                           /\ \A k \in 1..Len(history) : c \in history[k].results <=> k = j
<1>1. DOMAIN history = 1..Len(history)
  BY LenProperties
<1>2. ASSUME NEW c
      PROVE  /\ used(c) = {} <=> \A i \in 1..Len(history) : c \notin history[i].uses
             /\ held(c) = {} <=> \A i \in 1..Len(history) : c \notin history[i].results
  BY <1>1
<1>3. ASSUME NEW c, NEW i \in 1..Len(history)
      PROVE  /\ used(c) = {i} <=> \A k \in 1..Len(history) : c \in history[k].uses <=> k = i
             /\ held(c) = {i} <=> \A k \in 1..Len(history) : c \in history[k].results <=> k = i
  BY <1>1
<1>4. Paired <=> \A c \in Calls : one(c)
  BY <1>1 DEF Paired
<1>5. PairedIn(history) <=> \A c \in Calls : two(c)
  BY DEF PairedIn
<1> HIDE DEF used, held
<1>6. ASSUME NEW c, one(c) PROVE two(c)
  <2>1. CASE used(c) = {} /\ held(c) = {}
    BY <1>2, <2>1
  <2>2. ASSUME NEW i \in 1..Len(history), NEW j \in 1..Len(history),
               used(c) = {i}, held(c) = {j}, i < j
        PROVE  two(c)
    <3>1. /\ \A k \in 1..Len(history) : c \in history[k].uses <=> k = i
          /\ \A k \in 1..Len(history) : c \in history[k].results <=> k = j
      BY <1>3, <2>2
    <3> QED
      BY <2>2, <3>1
  <2> QED
    BY <1>6, <2>1, <2>2
<1>7. ASSUME NEW c, two(c) PROVE one(c)
  <2>1. CASE \A i \in 1..Len(history) :
                c \notin history[i].uses /\ c \notin history[i].results
    BY <1>2, <2>1
  <2>2. ASSUME NEW i \in 1..Len(history), NEW j \in 1..Len(history), i < j,
               \A k \in 1..Len(history) : c \in history[k].uses <=> k = i,
               \A k \in 1..Len(history) : c \in history[k].results <=> k = j
        PROVE  one(c)
    <3>1. used(c) = {i} /\ held(c) = {j}
      BY <1>3, <2>2
    <3> QED
      BY <2>2, <3>1
  <2> QED
    BY <1>7, <2>1, <2>2
<1> HIDE DEF one, two
<1> QED
  BY <1>4, <1>5, <1>6, <1>7

LEMMA PrefixSelects == PrefixInv => PrefixSelected
<1> SUFFICES ASSUME PrefixInv PROVE PrefixSelected
  OBVIOUS
<1> DEFINE h == history
           candidates == {n \in DOMAIN h : Summarisable(n)}
           closed == {n \in 1..LargestFitting(h) : IsSafeBoundary(h, n)}
<1>1. h \in Seq(PrefixMessage) /\ OneKind(h)
  BY DEF PrefixInv
<1>2. Len(h) \in Nat /\ DOMAIN h = 1..Len(h)
  BY <1>1, LenProperties
<1>3. WellFormed(h) <=> Paired
  BY <1>1, WellFormedIsPaired, PairedIsWellFormed, PairedIsPaired
<1>4. ASSUME NEW n
      PROVE  Summarisable(n) <=> n \in 1..Len(h) - 1 /\ FitsRequest(h, n) /\ Uncut(h, n)
  BY <1>2 DEF Summarisable, FitsRequest, Uncut
<1>5. Select(h) = IF Len(h) < 2 \/ ~WellFormed(h) \/ closed = {} THEN None ELSE Max(closed)
  BY DEF Select
<1>6. PrefixSelected
        <=> Select(h) = IF Paired /\ candidates # {} THEN Max(candidates) ELSE None
  BY DEF PrefixSelected
<1> HIDE DEF h, candidates, closed
<1>7. CASE Len(h) < 2
  <2>1. ASSUME NEW n \in candidates PROVE FALSE
    <3>1. n \in 1..Len(h) - 1
      BY <1>4, <2>1 DEF candidates
    <3> QED
      BY <1>2, <1>7, <3>1
  <2>2. candidates = {}
    BY <2>1
  <2> QED
    BY <1>5, <1>6, <1>7, <2>2
<1>8. CASE ~WellFormed(h)
  BY <1>3, <1>5, <1>6, <1>8
<1>9. CASE ~(Len(h) < 2) /\ WellFormed(h)
  <2>1. PairedIn(h) /\ Paired
    BY <1>1, <1>3, <1>9, WellFormedIsPaired
  <2>2. 2 <= Len(h)
    BY <1>2, <1>9
  <2>3. /\ LargestFitting(h) \in Nat
        /\ \A n \in Nat \ {0} :
              n <= LargestFitting(h) <=> n <= Len(h) - 1 /\ FitsRequest(h, n)
    BY <1>1, <2>2, LargestFits
  <2>4. ASSUME NEW n \in closed PROVE n \in candidates
    <3>1. n \in 1..LargestFitting(h) /\ IsSafeBoundary(h, n)
      BY DEF closed
    <3>2. n \in Nat \ {0} /\ n <= LargestFitting(h)
      BY <2>3, <3>1
    <3>3. n <= Len(h) - 1 /\ FitsRequest(h, n)
      BY <2>3, <3>2
    <3>4. n \in 1..Len(h) - 1 /\ n \in DOMAIN h
      BY <1>2, <3>2, <3>3
    <3>5. Uncut(h, n)
      BY <1>1, <2>1, <3>1, <3>4, SafeIsUncut
    <3> QED
      BY <1>4, <3>3, <3>4, <3>5 DEF candidates
  <2>5. ASSUME NEW n \in candidates PROVE n \in closed
    <3>1. n \in 1..Len(h) - 1 /\ FitsRequest(h, n) /\ Uncut(h, n)
      BY <1>4 DEF candidates
    <3>2. n \in Nat \ {0} /\ n <= Len(h) - 1
      BY <1>2, <3>1
    <3>3. n <= LargestFitting(h)
      BY <2>3, <3>1, <3>2
    <3>4. n \in 1..LargestFitting(h)
      BY <2>3, <3>2, <3>3
    <3>5. IsSafeBoundary(h, n)
      BY <1>1, <2>1, <3>1, SafeIsUncut
    <3> QED
      BY <3>4, <3>5 DEF closed
  <2>6. closed = candidates
    BY <2>4, <2>5
  <2> QED
    BY <1>5, <1>6, <1>9, <2>1, <2>6
<1> QED
  BY <1>7, <1>8, <1>9

LEMMA WriteKeeps ==
  ASSUME PrefixInv, NEW uses \in SUBSET Calls, NEW results \in SUBSET Calls, NEW size \in Sizes,
         uses = {} \/ results = {}, Write(uses, results, size)
  PROVE  PrefixInv'
<1> DEFINE m == [uses |-> uses, results |-> results, size |-> size]
<1>1. m \in PrefixMessage /\ m.uses = uses /\ m.results = results
  BY PrefixAssumption DEF PrefixMessage
<1>2. history' = Append(history, m) /\ history \in Seq(PrefixMessage)
  BY DEF Write, PrefixInv
<1> HIDE DEF m
<1>3. /\ history' \in Seq(PrefixMessage) /\ Len(history') = Len(history) + 1
      /\ \A i \in 1..Len(history) : history'[i] = history[i]
      /\ history'[Len(history) + 1] = m /\ Len(history) \in Nat
  BY <1>1, <1>2, AppendProperties, LenProperties
<1>4. ASSUME NEW i \in 1..Len(history')
      PROVE  history'[i].uses = {} \/ history'[i].results = {}
  <2>1. CASE i \in 1..Len(history)
    BY <1>3, <2>1 DEF PrefixInv, OneKind
  <2>2. CASE i = Len(history) + 1
    BY <1>1, <1>3, <2>2
  <2> QED
    BY <1>3, <2>1, <2>2
<1> QED
  BY <1>3, <1>4 DEF PrefixInv, OneKind

LEMMA PrefixInvariant == PrefixSpec => []PrefixInv
<1>1. PrefixInit => PrefixInv
  <2> SUFFICES ASSUME PrefixInit PROVE PrefixInv
    OBVIOUS
  <2>1. history = <<>> /\ Len(history) = 0 /\ history \in Seq(PrefixMessage)
    BY DEF PrefixInit
  <2>2. OneKind(history)
    BY <2>1 DEF OneKind
  <2> QED
    BY <2>1, <2>2 DEF PrefixInv
<1>2. PrefixInv /\ [PrefixNext]_history => PrefixInv'
  <2> SUFFICES ASSUME PrefixInv, [PrefixNext]_history PROVE PrefixInv'
    OBVIOUS
  <2>1. CASE UNCHANGED history
    BY <2>1 DEF PrefixInv, OneKind
  <2>2. ASSUME NEW uses \in SUBSET Calls, NEW size \in Sizes, Write(uses, {}, size)
        PROVE  PrefixInv'
    BY <2>2, WriteKeeps
  <2>3. ASSUME NEW results \in SUBSET Calls \ {{}}, NEW size \in Sizes, Write({}, results, size)
        PROVE  PrefixInv'
    BY <2>3, WriteKeeps
  <2> QED
    BY <2>1, <2>2, <2>3 DEF PrefixNext
<1> QED
  BY <1>1, <1>2, PTL DEF PrefixSpec

(* For every history, with calls that are open, answered twice or without a use as well, the   *)
(* repair command selects the longest prefix that fits a request and parts no call from its    *)
(* result, and none exactly when there is none: halving and the tests of a boundary meet the   *)
(* definition of what may be summarised.                                                       *)
THEOREM PrefixIsSelected == PrefixSpec => []PrefixSelected
BY PrefixInvariant, PrefixSelects, PTL

-----------------------------------------------------------------------------
(* What surrounds one run, together: each component moves by its own steps or not at all. *)

LEMMA RuntimeComponents == RuntimeSpec => BackgroundSpec /\ ReplaySpec /\ RepairSpec /\ PrefixSpec
<1>1. RuntimeInit => BackgroundInit /\ ReplayInit /\ RepairInit /\ PrefixInit
  BY DEF RuntimeInit
<1>2. [RuntimeNext]_runtimeVars => [BackgroundNext]_backgroundVars
  BY DEF RuntimeNext, runtimeVars
<1>3. [RuntimeNext]_runtimeVars => [ReplayNext]_replayVars
  BY DEF RuntimeNext, runtimeVars
<1>4. [RuntimeNext]_runtimeVars => [RepairNext]_repairVars
  BY DEF RuntimeNext, runtimeVars
<1>5. [RuntimeNext]_runtimeVars => [PrefixNext]_history
  BY DEF RuntimeNext, runtimeVars
<1> QED
  BY <1>1, <1>2, <1>3, <1>4, <1>5, PTL
  DEF RuntimeSpec, BackgroundSpec, ReplaySpec, RepairSpec, PrefixSpec

(* Type correctness of what surrounds one run. *)
THEOREM RuntimeTypeCorrect == RuntimeSpec => []RuntimeTypeOK
<1>1. BackgroundTypeOK /\ ReplayTypeOK /\ RepairTypeOK => RuntimeTypeOK
  BY DEF RuntimeTypeOK
<1> QED
  BY <1>1, RuntimeComponents, BackgroundTypeCorrect, ReplayTypeCorrect, RepairTypeCorrect, PTL

(* The repair command, whatever else surrounds the run: what it prepares stands on a quiet     *)
(* conversation and on a prefix that can be summarised, and goes when it is rolled back.       *)
THEOREM RepairIsSound == RuntimeSpec => []RepairSound
<1>1. PreparedWhileQuiet /\ RolledBackGone /\ PrefixSelected => RepairSound
  BY DEF RepairSound
<1> QED
  BY <1>1, RuntimeComponents, PreparedIsQuiet, RollbackLeavesNothing, PrefixIsSelected, PTL
=============================================================================
