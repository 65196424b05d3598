--------------------------- MODULE MCAgentRunLease ---------------------------
(* AgentRunLease on small instances: processes are interchangeable, owner  *)
(* ids are not.                                                            *)
EXTENDS AgentRunLease, TLC

CONSTANTS p1, p2

TwoProcesses == {p1, p2}

ProcessSymmetry == Permutations(Processes)

BackgroundOnly == {TRUE}
BothModes == BOOLEAN
=============================================================================
