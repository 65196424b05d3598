------------------------------ MODULE MCStores ------------------------------
(* What a run keeps beside the context, on small instances: the message      *)
(* queue, the files of the workspace, the memory pipeline and the journal of *)
(* the turn share no state here, so one of those in Scopes moves, as chosen  *)
(* at the start, and the others stay where they begin.                       *)
EXTENDS MessageQueue, WorkspaceCapacity, MemoryPipeline, TurnJournal

CONSTANTS Queue, Workspace, Memory, Journal, Scopes

VARIABLE scope

storesVars == <<scope, queueVars, workspaceVars, memoryVars, journalVars>>

StoresInit ==
    /\ scope \in Scopes
    /\ QueueInit /\ WorkspaceInit /\ MemoryInit /\ JournalInit
    /\ scope # Journal => keeper = "session"

StoresNext ==
    /\ UNCHANGED scope
    /\ \/ scope = Queue /\ QueueNext /\ UNCHANGED <<workspaceVars, memoryVars, journalVars>>
       \/ scope = Workspace /\ WorkspaceNext /\ UNCHANGED <<queueVars, memoryVars, journalVars>>
       \/ scope = Memory /\ MemoryNext /\ UNCHANGED <<queueVars, workspaceVars, journalVars>>
       \/ scope = Journal /\ JournalNext /\ UNCHANGED <<queueVars, workspaceVars, memoryVars>>

(* The fairness of the components, of the one that moves. *)
QueueFair ==
    /\ \A r \in Runs :
          /\ WF_queueVars(scope = Queue /\ RepairReceipts(r))
          /\ WF_queueVars(scope = Queue /\ ReleaseRows(r))
    /\ \A m \in Messages : WF_queueVars(scope = Queue /\ ReleaseStaleClaim(m))

WorkspaceFair ==
    \A w \in Writers :
       /\ WF_workspaceVars(scope = Workspace /\ RecoverStale(w))
       /\ WF_workspaceVars(scope = Workspace /\ Discard(w))
       /\ WF_workspaceVars(scope = Workspace /\ ReadCapacity(w))
       /\ WF_workspaceVars(scope = Workspace /\ SwapCapacity(w))
       /\ WF_workspaceVars(scope = Workspace /\ \E p \in Paths : ReadHead(w, p))

MemoryFair ==
    /\ \A w \in MemoryWorkers : WF_memoryVars(scope = Memory /\ MemoryWork(w))
    /\ \A r \in MemoryRuns :
          SF_memoryVars(scope = Memory /\ \E w \in MemoryWorkers : LeaseMemory(w, r))

JournalFair == WF_journalVars(scope = Journal /\ JournalProgress)

StoresSpec == StoresInit /\ [][StoresNext]_storesVars
InputsSpec == StoresSpec /\ QueueFair /\ MemoryFair
TurnSpec   == StoresSpec /\ WorkspaceFair /\ JournalFair

StoresTypeOK == QueueTypeOK /\ WorkspaceTypeOK /\ MemoryTypeOK /\ JournalTypeOK

(* What was put by for later is worked off: an update of the team reaches a  *)
(* run, and the memory run of a turn ends.                                   *)
PutByIsWorkedOff == UpdateNotStranded /\ MemoryRunSettles

(* What a dead server or writer has begun is brought to an end: its calls    *)
(* are answered, and its set of files is published or given up.              *)
BegunIsEnded == CallsAnswered /\ StaleSetSettled
=============================================================================
