------------------------- MODULE ContextReplacement -------------------------
(***************************************************************************)
(* What durable compaction promises to whoever reads a context: the active *)
(* context shows every turn of the transcript exactly once and in order,   *)
(* as segments of consecutive turns.  It changes in two ways only: a turn  *)
(* is added at its end, or, once per job, its first segments become one.   *)
(* Workers, leases, fences, retries and crashes are not to be seen.        *)
(***************************************************************************)
EXTENDS Integers, Sequences

CONSTANT Jobs       \* the compaction jobs of the context

VARIABLES
  turns,            \* number of turns in the transcript
  view,             \* the active context: a sequence of segments
  folded,           \* the jobs that have replaced their prefix
  exists            \* whether the context has not been deleted

absvars == <<turns, view, folded, exists>>

Segment(lo, hi) == [lo |-> lo, hi |-> hi]

AbsInit ==
  /\ turns = 0
  /\ view = <<>>
  /\ folded = {}
  /\ exists = TRUE

AddTurn ==
  /\ exists
  /\ turns' = turns + 1
  /\ view' = Append(view, Segment(turns + 1, turns + 1))
  /\ UNCHANGED <<folded, exists>>

(* a job replaces a prefix, and no job does so twice                       *)
Fold(j, n) ==
  /\ exists
  /\ j \notin folded
  /\ n \in 1 .. Len(view)
  /\ view' = <<Segment(view[1].lo, view[n].hi)>> \o SubSeq(view, n + 1, Len(view))
  /\ folded' = folded \cup {j}
  /\ UNCHANGED <<turns, exists>>

Delete ==
  /\ exists
  /\ exists' = FALSE
  /\ view' = <<>>
  /\ UNCHANGED <<turns, folded>>

AbsNext ==
  \/ AddTurn
  \/ \E j \in Jobs, n \in 1 .. Len(view) : Fold(j, n)
  \/ Delete

AbsSpec == AbsInit /\ [][AbsNext]_absvars
=============================================================================
