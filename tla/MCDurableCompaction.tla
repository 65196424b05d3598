------------------------ MODULE MCDurableCompaction ------------------------
(* Instances of DurableCompaction for TLC.                                 *)
EXTENDS DurableCompaction, TLC

CONSTANTS w1, w2

WorkerSymmetry == Permutations(Workers)
=============================================================================
