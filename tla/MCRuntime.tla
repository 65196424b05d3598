------------------------------ MODULE MCRuntime ------------------------------
(* What surrounds one run, on small instances: its lease, the compactions    *)
(* its loop makes in memory, the checkpoint those leave, and the operator's  *)
(* repair command with the prefix it selects. They share no state here, so   *)
(* one of those in Scopes moves, as chosen at the start, and the others stay *)
(* where they begin.                                                         *)
EXTENDS AgentRunLease, BackgroundCompaction, CheckpointReplay, OperatorRepair, RepairPrefix

CONSTANTS p1, p2, Lease, Loop, Replay, Repair, Prefix, Scopes

VARIABLE scope

BothModes == BOOLEAN
RuntimeSymmetry == Permutations(Processes) \union Permutations(Operators)

runtimeVars == <<scope, vars, backgroundVars, replayVars, repairVars, history>>

Some(S) == CHOOSE s \in S : TRUE

(* A component that does not move begins in one of its initial states.       *)
RuntimeInit ==
    /\ scope \in Scopes
    /\ Init /\ BackgroundInit /\ ReplayInit /\ RepairInit /\ PrefixInit
    /\ scope # Lease => background = TRUE
    /\ scope # Loop =>
          durable = TRUE /\ budget = Some({b \in {BudgetOf(p) : p \in Paces} : Feasible(b)})
    /\ scope # Replay => /\ kind = Some(Kinds) /\ checkpoint = NoCheckpoint
                         /\ ~stored[1].media

RuntimeNext ==
    /\ UNCHANGED scope
    /\ \/ /\ scope = Lease /\ Next
          /\ UNCHANGED <<backgroundVars, replayVars, repairVars, history>>
       \/ /\ scope = Loop /\ BackgroundNext
          /\ UNCHANGED <<vars, replayVars, repairVars, history>>
       \/ /\ scope = Replay /\ ReplayNext
          /\ UNCHANGED <<vars, backgroundVars, repairVars, history>>
       \/ /\ scope = Repair /\ RepairNext
          /\ UNCHANGED <<vars, backgroundVars, replayVars, history>>
       \/ /\ scope = Prefix /\ PrefixNext
          /\ UNCHANGED <<vars, backgroundVars, replayVars, repairVars>>

RuntimeSpec == RuntimeInit /\ [][RuntimeNext]_runtimeVars

RuntimeTypeOK ==
    CASE scope = Loop   -> BackgroundTypeOK
      [] scope = Replay -> ReplayTypeOK
      [] scope = Repair -> RepairTypeOK
      [] OTHER          -> TRUE

(* What the operator's command prepares stands on a quiet conversation, on a *)
(* prefix that can be summarised, and goes when it is rolled back.           *)
RepairSound == PreparedWhileQuiet /\ RolledBackGone /\ PrefixSelected
=============================================================================
