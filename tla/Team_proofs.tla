----------------------------- MODULE Team_proofs -----------------------------
(***************************************************************************)
(* Proofs about a Team: its leases and Root's commands (TeamLeases), its   *)
(* tasks and their scheduling (TeamTasks), the supervision of its events   *)
(* (TeamSupervision), and what they are together with the execution budget *)
(* (MCTeam).  The components share no state, and each has an inductive     *)
(* invariant of its own.                                                   *)
(***************************************************************************)
EXTENDS MCTeam, ExecutionBudget_proofs, WellFoundedInduction

(***************************************************************************)
(* Theorems about TeamLeases: a session that Root has revoked is           *)
(* not written again by an execution, and a stopped agent becomes runnable *)
(* only by a Reopen, however claims, releases, sweeps and commands of      *)
(* several writes interleave.  The invariant says that Root's command      *)
(* keeps the agent stopped from its first write to its last, and that a    *)
(* revoked session is an old one or one of a stopped agent.                *)
(***************************************************************************)

Places   == {"free", "leased", "slot", "slotted", "session", "claimed", "verify",
             "executing", "checked", "mark", "release", "dead"}
States   == {"none", "queued", "running", "recoverable", "over"}
Commands == [action : {"none", "interrupt", "close", "reopen"},
             step : {"none", "set", "session", "slots", "cancel"}]

\* Old: of an earlier generation, or of a stopped agent.
StoppedOrOld(s) ==
    /\ s[2] <= generation[s[1]]
    /\ Current(s) => agentStatus[s[1]] \in Stopped

AgentPart ==
    /\ agentStatus \in [Agents -> Runnable \cup Stopped]
    /\ generation \in [Agents -> 1..Generations]

CommandPart ==
    /\ command \in [Agents -> Commands]
    /\ revoked \subseteq Sessions
    /\ \A a \in Agents :
          /\ command[a].step \in {"session", "slots", "cancel"} => agentStatus[a] \in Stopped
          /\ command[a].action = "reopen" => generation[a] < Generations
    /\ \A s \in revoked : StoppedOrOld(s)

MemberRunPart ==
    /\ runState \in [TeamRuns -> States]
    /\ runSession \in [TeamRuns -> Sessions \cup {NoSession}]
    /\ runTicket \in [TeamRuns -> Tickets \cup {NoTicket}]
    /\ cancelled \subseteq TeamRuns
    /\ \A r \in TeamRuns : runState[r] # "none" => runSession[r] \in Sessions

\* A worker that has not gone serves a run that exists.
WorkerPart ==
    /\ at \in [Tickets -> Places]
    /\ ticketRun \in [Tickets -> TeamRuns \cup {0}]
    /\ todo \in [Tickets -> SUBSET {"session", "status", "slot"}]
    /\ verdict \in [Tickets -> {"idle", "failed", "paused"}]
    /\ \A t \in Tickets :
          /\ ~Gone(t) => ticketRun[t] \in TeamRuns /\ runState[ticketRun[t]] # "none"
          /\ at[t] = "mark" => verdict[t] # "idle"

SlotPart ==
    /\ slotTicket \in [Slots -> Tickets \cup {NoTicket}]
    /\ slotRun \in [Slots -> TeamRuns \cup {0}]
    /\ slotLive \in [Slots -> BOOLEAN]
    /\ \A s \in Slots : slotTicket[s] = NoTicket => slotRun[s] = 0 /\ ~slotLive[s]
    /\ \A s, q \in Slots : slotRun[s] = slotRun[q] => slotRun[s] = 0 \/ s = q

SessionPart ==
    /\ sessTicket \in [Sessions -> Tickets \cup {NoTicket}]
    /\ sessLive \in [Sessions -> BOOLEAN]
    /\ owedIdle \subseteq Sessions
    /\ RevokedNotWritten

FaultPart == lapses \in 0..MaxLapses /\ torn \in 0..MaxTorn

LInv ==
    /\ AgentPart /\ CommandPart /\ MemberRunPart /\ WorkerPart /\ SlotPart /\ SessionPart
    /\ FaultPart

LEMMA LInvImplies == LInv => LeaseTypeOK /\ RevokedNotWritten
  BY DEF LInv, AgentPart, CommandPart, MemberRunPart, WorkerPart, SlotPart, SessionPart, FaultPart,
         LeaseTypeOK, Places, States, Commands

LEMMA LInvInit == LeaseInit => LInv
  <1> SUFFICES ASSUME LeaseInit PROVE LInv OBVIOUS
  <1> USE TeamLeasesAssumption DEF LeaseInit
  <1>1. AgentPart BY DEF AgentPart, Runnable
  <1>2. CommandPart BY DEF CommandPart, NoCommand, Commands
  <1>3. MemberRunPart BY DEF MemberRunPart, States
  <1>4. WorkerPart BY DEF WorkerPart, Places, Gone
  <1>5. SlotPart BY DEF SlotPart
  <1>6. SessionPart BY DEF SessionPart, RevokedNotWritten
  <1>7. FaultPart BY DEF FaultPart
  <1> QED BY <1>1, <1>2, <1>3, <1>4, <1>5, <1>6, <1>7 DEF LInv

\* A worker at work has a run, the session of an agent, and the agent.
LEMMA AtWork ==
  ASSUME LInv, NEW t \in Tickets, ~Gone(t)
  PROVE  /\ ticketRun[t] \in TeamRuns /\ runState[ticketRun[t]] # "none"
         /\ SessionOf(t) \in Sessions /\ AgentOf(t) \in Agents
  BY DEF LInv, WorkerPart, MemberRunPart, SessionOf, AgentOf, Sessions

-----------------------------------------------------------------------------
(* What may happen to the status of an agent. *)

StatusWritten ==
    \E a \in Agents, v \in Runnable \cup Stopped :
       /\ agentStatus[a] \in Stopped => v \in Stopped
       /\ agentStatus' = [agentStatus EXCEPT ![a] = v]
       /\ UNCHANGED generation

AgentReopened ==
    \E a \in Agents :
       /\ command[a] = [action |-> "reopen", step |-> "set"]
       /\ agentStatus[a] \in Stopped
       /\ agentStatus' = [agentStatus EXCEPT ![a] = "idle"]
       /\ generation' = [generation EXCEPT ![a] = @ + 1]

LEMMA AfterRunWrites ==
  ASSUME LInv, NEW s \in Sessions, NEW status \in {"idle", "failed"}, AfterRun(s, status),
         UNCHANGED generation
  PROVE  StatusWritten
  <1>1. s[1] \in Agents BY DEF Sessions
  <1>2. agentStatus[s[1]] \in Runnable \cup Stopped BY <1>1 DEF LInv, AgentPart
  <1>3. CASE agentStatus[s[1]] = "running" /\ Current(s)
    BY <1>1, <1>3 DEF AfterRun, StatusWritten, Runnable, Stopped
  <1>4. CASE ~(agentStatus[s[1]] = "running" /\ Current(s))
    BY <1>1, <1>2, <1>4 DEF AfterRun, StatusWritten
  <1> QED BY <1>3, <1>4

LEMMA StatusMoves ==
  ASSUME LInv, LeaseNext PROVE StatusWritten \/ AgentReopened \/ UNCHANGED agentVars
  <1> DEFINE Goal == StatusWritten \/ AgentReopened \/ UNCHANGED agentVars
  <1>1. ASSUME NEW r \in TeamRuns, NEW a \in Agents, CreateMemberRun(r, a) PROVE Goal
    BY <1>1 DEF CreateMemberRun
  <1>2. ASSUME NEW t \in Tickets, AcquireStep(t) PROVE Goal
    <2>1. CASE SetRunning(t)
      <3>1. AgentOf(t) \in Agents BY <2>1, AtWork DEF SetRunning, Gone
      <3>2. agentStatus[AgentOf(t)] \in Runnable \cup Stopped BY <3>1 DEF LInv, AgentPart
      <3>3. CASE agentStatus[AgentOf(t)] = "idle" /\ Current(SessionOf(t))
        BY <2>1, <3>1, <3>3 DEF SetRunning, StatusWritten, Runnable, Stopped
      <3>4. CASE ~(agentStatus[AgentOf(t)] = "idle" /\ Current(SessionOf(t)))
        BY <2>1, <3>1, <3>2, <3>4 DEF SetRunning, StatusWritten
      <3> QED BY <3>3, <3>4
    <2>2. CASE ~SetRunning(t)
      BY <1>2, <2>2 DEF AcquireStep, LeaseRun, Eligible, Ineligible, ClaimSlot, SlotRefused, SlotChecked,
                   ClaimSession, SessionRefused, VerifySession
    <2> QED BY <2>1, <2>2
  <1>3. ASSUME NEW t \in Tickets, ExecuteStep(t) PROVE Goal
    <2>1. CASE MarkAgent(t)
      <3>1. AgentOf(t) \in Agents BY <2>1, AtWork DEF MarkAgent, Gone
      <3>2. verdict[t] \in Stopped BY <2>1 DEF MarkAgent, LInv, WorkerPart, Stopped
      <3> QED BY <2>1, <3>1, <3>2 DEF MarkAgent, StatusWritten
    <2>2. CASE ~MarkAgent(t)
      BY <1>3, <2>2 DEF ExecuteStep, Undispatched, CheckFences, Detached, Finish
    <2> QED BY <2>1, <2>2
  <1>4. ASSUME NEW t \in Tickets, ReleaseStep(t) PROVE Goal
    <2>1. CASE ReleaseAgent(t)
      <3>1. SessionOf(t) \in Sessions BY <2>1, AtWork DEF ReleaseAgent, Gone
      <3>2. PICK status \in {"idle", "failed"} : AfterRun(SessionOf(t), status)
        BY <2>1 DEF ReleaseAgent
      <3>3. UNCHANGED generation BY <2>1 DEF ReleaseAgent
      <3> QED BY <3>1, <3>2, <3>3, AfterRunWrites
    <2>2. CASE ~ReleaseAgent(t)
      BY <1>4, <2>2 DEF ReleaseStep, ReleaseSlot, ReleaseSession, Released
    <2> QED BY <2>1, <2>2
  <1>5. ASSUME NEW t \in Tickets, WorkerDies(t) PROVE Goal BY <1>5 DEF WorkerDies
  <1>6. ASSUME SweepStep PROVE Goal
    <2>1. ASSUME NEW r \in TeamRuns, ExpireRunLease(r) \/ RequeueMemberRun(r) PROVE Goal
      BY <2>1 DEF ExpireRunLease, RequeueMemberRun
    <2>2. ASSUME NEW s \in Slots, ExpireSlot(s) \/ RecoverSlot(s) PROVE Goal
      BY <2>2 DEF ExpireSlot, RecoverSlot
    <2>3. ASSUME NEW s \in Sessions, ExpireSession(s) \/ RecoverSession(s) PROVE Goal
      BY <2>3 DEF ExpireSession, RecoverSession
    <2>4. ASSUME NEW s \in Sessions, RecoverAgent(s) PROVE Goal
      BY <2>4, AfterRunWrites DEF RecoverAgent
    <2> QED BY <1>6, <2>1, <2>2, <2>3, <2>4 DEF SweepStep
  <1>7. ASSUME NEW a \in Agents, ManageStep(a) PROVE Goal
    <2>1. CASE Stop(a) BY <2>1 DEF Stop, StatusWritten, Stopped
    <2>2. CASE Reopen(a) BY <2>2 DEF Reopen, AgentReopened
    <2>3. CASE ~Stop(a) /\ ~Reopen(a)
      BY <1>7, <2>3 DEF ManageStep, StartCommand, RevokeSession, RevokeSlots, CancelSessionRun
    <2> QED BY <2>1, <2>2, <2>3
  <1> QED BY <1>1, <1>2, <1>3, <1>4, <1>5, <1>6, <1>7 DEF LeaseNext

LEMMA AgentsEvolve ==
  ASSUME LInv, LeaseNext PROVE AgentPart'
  <1> USE TeamLeasesAssumption DEF LInv
  <1>1. CASE StatusWritten BY <1>1 DEF StatusWritten, AgentPart
  <1>2. CASE AgentReopened
    <2>1. PICK a \in Agents :
             /\ command[a] = [action |-> "reopen", step |-> "set"]
             /\ agentStatus' = [agentStatus EXCEPT ![a] = "idle"]
             /\ generation' = [generation EXCEPT ![a] = @ + 1]
      BY <1>2 DEF AgentReopened
    <2>2. generation[a] < Generations BY <2>1 DEF CommandPart
    <2> QED BY <2>1, <2>2 DEF AgentPart, Runnable
  <1>3. CASE UNCHANGED agentVars BY <1>3 DEF agentVars, AgentPart
  <1> QED BY <1>1, <1>2, <1>3, StatusMoves

\* No step makes a stopped agent runnable but one that raises its generation.
LEMMA StoppedStays ==
  ASSUME LInv, LeaseNext, NEW a \in Agents
  PROVE  /\ generation'[a] \in {generation[a], generation[a] + 1}
         /\ agentStatus[a] \in Stopped /\ agentStatus'[a] \in Runnable =>
               generation'[a] = generation[a] + 1 /\ command[a] = [action |-> "reopen", step |-> "set"]
         /\ generation'[a] # generation[a] => command[a] = [action |-> "reopen", step |-> "set"]
  <1> USE DEF LInv, AgentPart
  <1>1. CASE StatusWritten BY <1>1 DEF StatusWritten, Runnable, Stopped
  <1>2. CASE AgentReopened BY <1>2 DEF AgentReopened, Runnable, Stopped
  <1>3. CASE UNCHANGED agentVars BY <1>3 DEF agentVars, Runnable, Stopped
  <1> QED BY <1>1, <1>2, <1>3, StatusMoves

-----------------------------------------------------------------------------
(* Root's command and the sessions it has revoked. *)

LEMMA CommandsMove ==
  ASSUME LInv, LeaseNext
  PROVE  UNCHANGED <<command, revoked, generation>> \/ \E a \in Agents : ManageStep(a)
  <1> DEFINE Goal == UNCHANGED <<command, revoked, generation>>
  <1> USE DEF rootVars, agentVars
  <1>1. ASSUME NEW r \in TeamRuns, NEW a \in Agents, CreateMemberRun(r, a) PROVE Goal
    BY <1>1 DEF CreateMemberRun
  <1>2. ASSUME NEW t \in Tickets, AcquireStep(t) PROVE Goal
    BY <1>2 DEF AcquireStep, LeaseRun, Eligible, Ineligible, ClaimSlot, SlotRefused, SlotChecked,
                ClaimSession, SessionRefused, SetRunning, VerifySession
  <1>3. ASSUME NEW t \in Tickets, ExecuteStep(t) PROVE Goal
    BY <1>3 DEF ExecuteStep, Undispatched, CheckFences, Detached, Finish, MarkAgent
  <1>4. ASSUME NEW t \in Tickets, ReleaseStep(t) \/ WorkerDies(t) PROVE Goal
    BY <1>4 DEF ReleaseStep, ReleaseSlot, ReleaseSession, ReleaseAgent, Released, WorkerDies
  <1>5. ASSUME SweepStep PROVE Goal
    BY <1>5 DEF SweepStep, ExpireRunLease, RequeueMemberRun, ExpireSlot, RecoverSlot, ExpireSession,
                RecoverSession, RecoverAgent
  <1> QED BY <1>1, <1>2, <1>3, <1>4, <1>5 DEF LeaseNext

\* An old session stays one, and so does one of a stopped agent.
LEMMA OldStaysOld ==
  ASSUME LInv, LeaseNext, NEW s \in Sessions, StoppedOrOld(s) PROVE StoppedOrOld(s)'
  <1>1. s[1] \in Agents /\ s[2] \in 1..Generations BY DEF Sessions
  <1>2. AgentPart /\ AgentPart' BY AgentsEvolve DEF LInv
  <1>3. generation[s[1]] \in Int /\ s[2] \in Int BY <1>1, <1>2, TeamLeasesAssumption DEF AgentPart
  <1>4. agentStatus'[s[1]] \in Runnable \cup Stopped BY <1>1, <1>2 DEF AgentPart
  <1> QED BY <1>1, <1>3, <1>4, StoppedStays DEF StoppedOrOld, Current

LEMMA CommandsEvolve ==
  ASSUME LInv, LeaseNext PROVE CommandPart'
  <1> USE TeamLeasesAssumption DEF LInv
  <1>a. AgentPart /\ AgentPart' BY AgentsEvolve
  <1>o. \A s \in revoked : StoppedOrOld(s)' BY OldStaysOld DEF CommandPart
  <1>1. CASE UNCHANGED <<command, revoked, generation>>
    <2>1. \A a \in Agents : command[a].step \in {"session", "slots", "cancel"} => agentStatus'[a] \in Stopped
      <3> SUFFICES ASSUME NEW a \in Agents, command[a].step \in {"session", "slots", "cancel"}
                   PROVE  agentStatus'[a] \in Stopped
        OBVIOUS
      <3>1. agentStatus[a] \in Stopped BY DEF CommandPart
      <3>2. agentStatus'[a] \in Runnable \cup Stopped BY <1>a DEF AgentPart
      <3> QED BY <3>1, <3>2, StoppedStays
    <2> QED BY <1>1, <1>o, <2>1 DEF CommandPart
  <1>2. ASSUME NEW a \in Agents, ManageStep(a) PROVE CommandPart'
    <2>0. command[a] \in Commands BY DEF CommandPart
    <2>1. ASSUME NEW action \in {"interrupt", "close", "reopen"}, StartCommand(a, action)
          PROVE  CommandPart'
      <3>1. command' = [command EXCEPT ![a] = [action |-> action, step |-> "set"]]
            /\ UNCHANGED <<agentStatus, generation, revoked>>
        BY <2>1 DEF StartCommand, SetCommand, agentVars
      <3>2. action = "reopen" => generation[a] < Generations BY <2>1 DEF StartCommand
      <3> QED BY <1>o, <3>1, <3>2 DEF CommandPart, Commands
    <2>2. CASE Stop(a)
      <3>1. PICK action \in {"interrupt", "close"} :
               command' = [command EXCEPT ![a] = [action |-> action, step |-> "session"]]
        BY <2>2 DEF Stop, SetCommand
      <3>2. agentStatus'[a] \in Stopped /\ UNCHANGED <<generation, revoked>>
            /\ \A b \in Agents \ {a} : agentStatus'[b] = agentStatus[b]
        BY <2>2, <1>a DEF Stop, Stopped, AgentPart
      <3> QED BY <1>o, <3>1, <3>2 DEF CommandPart, Commands
    <2>3. CASE RevokeSession(a)
      <3>1. command' = [command EXCEPT ![a] = [action |-> command[a].action, step |-> "slots"]]
            /\ revoked' = revoked \cup {<<a, generation[a]>>}
            /\ UNCHANGED <<agentStatus, generation>>
            /\ command[a].step = "session"
        BY <2>3 DEF RevokeSession, SetCommand, agentVars
      <3>2. agentStatus[a] \in Stopped BY <3>1 DEF CommandPart
      <3>3. <<a, generation[a]>> \in Sessions /\ generation[a] \in Int
        BY <1>a DEF Sessions, AgentPart
      <3>4. StoppedOrOld(<<a, generation[a]>>)'
        BY <3>1, <3>2, <3>3 DEF StoppedOrOld, Current
      <3> QED BY <1>o, <2>0, <3>1, <3>2, <3>3, <3>4 DEF CommandPart, Commands
    <2>4. CASE RevokeSlots(a)
      <3>1. command' = [command EXCEPT ![a] = [action |-> command[a].action, step |-> "cancel"]]
            /\ UNCHANGED <<agentStatus, generation, revoked>> /\ command[a].step = "slots"
        BY <2>4 DEF RevokeSlots, SetCommand, agentVars
      <3> QED BY <1>o, <2>0, <3>1 DEF CommandPart, Commands
    <2>5. CASE CancelSessionRun(a)
      <3>1. command' = [command EXCEPT ![a] = NoCommand] /\ UNCHANGED <<agentStatus, generation, revoked>>
        BY <2>5 DEF CancelSessionRun, agentVars
      <3> QED BY <1>o, <3>1 DEF CommandPart, Commands, NoCommand
    <2>6. CASE Reopen(a)
      <3>1. command' = [command EXCEPT ![a] = NoCommand] /\ UNCHANGED revoked
            /\ \A b \in Agents \ {a} :
                  agentStatus'[b] = agentStatus[b] /\ generation'[b] = generation[b]
        BY <2>6, <1>a DEF Reopen, agentVars, AgentPart
      <3> QED BY <1>o, <3>1 DEF CommandPart, Commands, NoCommand
    <2> QED BY <1>2, <2>1, <2>2, <2>3, <2>4, <2>5, <2>6 DEF ManageStep
  <1> QED BY <1>1, <1>2, CommandsMove

-----------------------------------------------------------------------------
(* The runs. *)

\* A run that exists goes on to exist, for the session it was created for.
RunsKept ==
    \A r \in TeamRuns : runState[r] # "none" =>
       runState'[r] # "none" /\ runSession'[r] = runSession[r]

LEMMA RunWriteKeeps ==
  ASSUME LInv, NEW t \in Tickets, ~Gone(t), NEW status \in {"queued", "recoverable", "over"},
         RunWrite(t, status)
  PROVE  MemberRunPart' /\ RunsKept
  <1>1. ticketRun[t] \in TeamRuns /\ runState[ticketRun[t]] # "none" BY AtWork
  <1> QED BY <1>1 DEF RunWrite, LInv, MemberRunPart, RunsKept, States, teamRunVars

LEMMA RunsEvolve ==
  ASSUME LInv, LeaseNext PROVE MemberRunPart' /\ RunsKept
  <1> DEFINE Goal == MemberRunPart' /\ RunsKept
  <1>0. ASSUME UNCHANGED teamRunVars PROVE Goal
    BY <1>0 DEF LInv, MemberRunPart, RunsKept, teamRunVars
  <1>1. ASSUME NEW r \in TeamRuns, NEW a \in Agents, CreateMemberRun(r, a) PROVE Goal
    <2>1. <<a, generation[a]>> \in Sessions BY DEF LInv, AgentPart, Sessions
    <2> QED BY <1>1, <2>1 DEF CreateMemberRun, LInv, MemberRunPart, RunsKept, States
  <1>2. ASSUME NEW t \in Tickets, AcquireStep(t) PROVE Goal
    <2>1. ASSUME NEW r \in TeamRuns, LeaseRun(t, r) PROVE Goal
      BY <2>1 DEF LeaseRun, LInv, MemberRunPart, RunsKept, States
    <2>2. CASE Eligible(t) \/ ClaimSession(t) \/ SetRunning(t) \/ \E s \in Slots : ClaimSlot(t, s)
      BY <1>0, <2>2 DEF Eligible, ClaimSession, SetRunning, ClaimSlot
    <2>3. ASSUME NEW status \in {"queued", "over"}, ~Gone(t), Give(t, status) PROVE Goal
      BY <2>3, RunWriteKeeps DEF Give
    <2>4. CASE Ineligible(t) BY <2>3, <2>4 DEF Ineligible, Gone
    <2>5. CASE SlotRefused(t) BY <2>3, <2>5 DEF SlotRefused, Gone
    <2>6. CASE SlotChecked(t) BY <1>0, <2>3, <2>6 DEF SlotChecked, Gone
    <2>7. CASE SessionRefused(t) BY <2>3, <2>7 DEF SessionRefused, Gone
    <2>8. CASE VerifySession(t) BY <1>0, <2>3, <2>8 DEF VerifySession, Gone
    <2> QED BY <1>2, <2>1, <2>2, <2>4, <2>5, <2>6, <2>7, <2>8 DEF AcquireStep
  <1>3. ASSUME NEW t \in Tickets, ExecuteStep(t) PROVE Goal
    <2>1. CASE Undispatched(t) BY <2>1, RunWriteKeeps DEF Undispatched, Gone
    <2>2. CASE CheckFences(t) \/ Detached(t) \/ MarkAgent(t)
      BY <1>0, <2>2 DEF CheckFences, Detached, MarkAgent
    <2>3. CASE Finish(t, "over", "idle") \/ Finish(t, "recoverable", "idle")
               \/ Finish(t, "over", "failed") \/ Finish(t, "over", "paused")
      BY <2>3, RunWriteKeeps DEF Finish, Gone
    <2> QED BY <1>3, <2>1, <2>2, <2>3 DEF ExecuteStep
  <1>4. ASSUME NEW t \in Tickets, ReleaseStep(t) \/ WorkerDies(t) PROVE Goal
    BY <1>0, <1>4 DEF ReleaseStep, ReleaseSlot, ReleaseSession, ReleaseAgent, Released, WorkerDies
  <1>5. ASSUME SweepStep PROVE Goal
    <2>1. ASSUME NEW r \in TeamRuns, ExpireRunLease(r) PROVE Goal
      BY <2>1 DEF ExpireRunLease, LInv, MemberRunPart, RunsKept, States
    <2>2. ASSUME NEW r \in TeamRuns, RequeueMemberRun(r) PROVE Goal
      BY <2>2 DEF RequeueMemberRun, LInv, MemberRunPart, RunsKept, States
    <2>3. CASE \/ \E s \in Slots : ExpireSlot(s) \/ RecoverSlot(s)
               \/ \E s \in Sessions : ExpireSession(s) \/ RecoverSession(s) \/ RecoverAgent(s)
      BY <1>0, <2>3 DEF ExpireSlot, RecoverSlot, ExpireSession, RecoverSession, RecoverAgent
    <2> QED BY <1>5, <2>1, <2>2, <2>3 DEF SweepStep
  <1>6. ASSUME NEW a \in Agents, ManageStep(a) PROVE Goal
    <2>1. CASE CancelSessionRun(a)
      BY <2>1 DEF CancelSessionRun, LInv, MemberRunPart, RunsKept, States
    <2>2. CASE ~CancelSessionRun(a)
      BY <1>0, <1>6, <2>2 DEF ManageStep, StartCommand, Stop, RevokeSession, RevokeSlots, Reopen
    <2> QED BY <2>1, <2>2
  <1> QED BY <1>1, <1>2, <1>3, <1>4, <1>5, <1>6 DEF LeaseNext

-----------------------------------------------------------------------------
(* The workers. *)

LEMMA WorkerActs ==
  ASSUME LInv, RunsKept, NEW t \in Tickets,
         NEW p \in Places, NEW r \in TeamRuns \cup {0},
         NEW d \in SUBSET {"session", "status", "slot"}, NEW v \in {"idle", "failed", "paused"},
         at' = [at EXCEPT ![t] = p], ticketRun' = [ticketRun EXCEPT ![t] = r],
         todo' = [todo EXCEPT ![t] = d], verdict' = [verdict EXCEPT ![t] = v],
         p \notin {"free", "dead"} => r \in TeamRuns /\ runState'[r] # "none",
         p = "mark" => v # "idle"
  PROVE  WorkerPart'
  <1> USE DEF LInv
  <1>1. /\ at' \in [Tickets -> Places] /\ ticketRun' \in [Tickets -> TeamRuns \cup {0}]
        /\ todo' \in [Tickets -> SUBSET {"session", "status", "slot"}]
        /\ verdict' \in [Tickets -> {"idle", "failed", "paused"}]
    BY DEF WorkerPart
  <1>2. ASSUME NEW u \in Tickets
        PROVE  /\ ~Gone(u)' => ticketRun'[u] \in TeamRuns /\ runState'[ticketRun'[u]] # "none"
               /\ at'[u] = "mark" => verdict'[u] # "idle"
    <2>1. CASE u = t BY <2>1 DEF WorkerPart, Gone
    <2>2. CASE u # t
      <3>1. at'[u] = at[u] /\ ticketRun'[u] = ticketRun[u] /\ verdict'[u] = verdict[u]
        BY <2>2 DEF WorkerPart
      <3> QED BY <3>1 DEF WorkerPart, Gone, RunsKept
    <2> QED BY <2>1, <2>2
  <1> QED BY <1>1, <1>2 DEF WorkerPart

\* The worker goes on with its run, ends, or dies.
LEMMA WorkerGoesOn ==
  ASSUME LInv, RunsKept, NEW t \in Tickets, NEW p \in Places \ {"mark"},
         NEW d \in SUBSET {"session", "status", "slot"}, ~Gone(t),
         at' = [at EXCEPT ![t] = p], todo' = [todo EXCEPT ![t] = d], UNCHANGED <<ticketRun, verdict>>
  PROVE  WorkerPart'
  <1>1. ticketRun' = [ticketRun EXCEPT ![t] = ticketRun[t]] /\ verdict' = [verdict EXCEPT ![t] = verdict[t]]
    BY DEF LInv, WorkerPart
  <1>2. PICK r \in TeamRuns : r = ticketRun[t] /\ runState'[r] # "none" BY AtWork DEF RunsKept
  <1>3. PICK v \in {"idle", "failed", "paused"} : v = verdict[t] BY DEF LInv, WorkerPart
  <1>4. ticketRun' = [ticketRun EXCEPT ![t] = r] /\ verdict' = [verdict EXCEPT ![t] = v]
    BY <1>1, <1>2, <1>3
  <1> QED BY <1>2, <1>4, WorkerActs

LEMMA GoOnKeeps ==
  ASSUME LInv, RunsKept, NEW t \in Tickets, NEW p \in Places \ {"mark"}, ~Gone(t), GoOn(t, p)
  PROVE  WorkerPart'
  <1>1. PICK d \in SUBSET {"session", "status", "slot"} : d = todo[t] BY DEF LInv, WorkerPart
  <1>2. todo' = [todo EXCEPT ![t] = d] BY <1>1 DEF GoOn, LInv, WorkerPart
  <1> QED BY <1>2, WorkerGoesOn DEF GoOn

LEMMA GiveKeeps ==
  ASSUME LInv, RunsKept, NEW t \in Tickets, NEW status, Give(t, status)
  PROVE  WorkerPart'
  <1>1. PICK d \in SUBSET {"session", "status", "slot"} : d = todo[t] BY DEF LInv, WorkerPart
  <1>2. PICK v \in {"idle", "failed", "paused"} : v = verdict[t] BY DEF LInv, WorkerPart
  <1>3. todo' = [todo EXCEPT ![t] = d] /\ verdict' = [verdict EXCEPT ![t] = v]
    BY <1>1, <1>2 DEF Give, LInv, WorkerPart
  <1>4. at' = [at EXCEPT ![t] = "free"] /\ ticketRun' = [ticketRun EXCEPT ![t] = 0] BY DEF Give
  <1> QED BY <1>3, <1>4, WorkerActs DEF Places

LEMMA WorkersEvolve ==
  ASSUME LInv, LeaseNext PROVE WorkerPart'
  <1>k. RunsKept BY RunsEvolve
  <1>t. WorkerPart BY DEF LInv
  <1>0. ASSUME UNCHANGED workerVars PROVE WorkerPart'
    BY <1>0, <1>k, <1>t DEF WorkerPart, workerVars, Gone, RunsKept
  <1>1. ASSUME NEW r \in TeamRuns, NEW a \in Agents, CreateMemberRun(r, a) PROVE WorkerPart'
    BY <1>0, <1>1 DEF CreateMemberRun
  <1>2. ASSUME NEW t \in Tickets, AcquireStep(t) PROVE WorkerPart'
    <2>1. ASSUME NEW r \in TeamRuns, LeaseRun(t, r) PROVE WorkerPart'
      <3>1. PICK d \in SUBSET {"session", "status", "slot"} : d = todo[t] BY <1>t DEF WorkerPart
      <3>2. PICK v \in {"idle", "failed", "paused"} : v = verdict[t] BY <1>t DEF WorkerPart
      <3>3. todo' = [todo EXCEPT ![t] = d] /\ verdict' = [verdict EXCEPT ![t] = v]
        BY <1>t, <2>1, <3>1, <3>2 DEF LeaseRun, WorkerPart
      <3>4. /\ at' = [at EXCEPT ![t] = "leased"] /\ ticketRun' = [ticketRun EXCEPT ![t] = r]
            /\ runState[r] # "none"
        BY <2>1 DEF LeaseRun
      <3>5. runState'[r] # "none" BY <1>k, <3>4 DEF RunsKept
      <3> QED BY <1>k, <3>3, <3>4, <3>5, WorkerActs DEF Places
    <2>2. CASE Eligible(t) BY <1>k, <2>2, GoOnKeeps DEF Eligible, Gone, Places
    <2>3. CASE Ineligible(t) BY <1>k, <2>3, GiveKeeps DEF Ineligible
    <2>4. ASSUME NEW s \in Slots, ClaimSlot(t, s) PROVE WorkerPart'
      BY <1>k, <2>4, GoOnKeeps DEF ClaimSlot, Gone, Places
    <2>5. CASE SlotRefused(t) BY <1>k, <2>5, GiveKeeps DEF SlotRefused
    <2>6. CASE SlotChecked(t) BY <1>k, <2>6, GiveKeeps, GoOnKeeps DEF SlotChecked, Gone, Places
    <2>7. CASE ClaimSession(t) BY <1>k, <2>7, GoOnKeeps DEF ClaimSession, Gone, Places
    <2>8. CASE SessionRefused(t) BY <1>k, <2>8, GiveKeeps DEF SessionRefused
    <2>9. CASE SetRunning(t) BY <1>k, <2>9, GoOnKeeps DEF SetRunning, Gone, Places
    <2>10. CASE VerifySession(t) BY <1>k, <2>10, GiveKeeps, GoOnKeeps DEF VerifySession, Gone, Places
    <2> QED BY <1>2, <2>1, <2>2, <2>3, <2>4, <2>5, <2>6, <2>7, <2>8, <2>9, <2>10 DEF AcquireStep
  <1>3. ASSUME NEW t \in Tickets, ExecuteStep(t) PROVE WorkerPart'
    <2>0. ~Gone(t)
      BY <1>3 DEF ExecuteStep, Undispatched, CheckFences, Detached, Finish, MarkAgent, Gone
    <2>1. PICK r \in TeamRuns : r = ticketRun[t] /\ runState'[r] # "none"
      BY <1>k, <2>0, AtWork DEF RunsKept
    <2>2. ASSUME UNCHANGED ticketRun PROVE ticketRun' = [ticketRun EXCEPT ![t] = r]
      BY <1>t, <2>1, <2>2 DEF WorkerPart
    <2>3. CASE Undispatched(t) \/ Detached(t)
      <3>1. /\ at' = [at EXCEPT ![t] = "release"] /\ ticketRun' = ticketRun
            /\ todo' = [todo EXCEPT ![t] = {"session", "slot"}]
            /\ verdict' = [verdict EXCEPT ![t] = "idle"]
        BY <2>3 DEF Undispatched, Detached
      <3> QED BY <1>k, <2>1, <2>2, <3>1, WorkerActs DEF Places
    <2>4. CASE CheckFences(t) BY <1>k, <2>0, <2>4, GoOnKeeps DEF CheckFences, Places
    <2>5. CASE MarkAgent(t) BY <1>k, <2>0, <2>5, GoOnKeeps DEF MarkAgent, Places
    <2>6. ASSUME NEW status, NEW mark \in {"idle", "failed", "paused"}, Finish(t, status, mark)
          PROVE  WorkerPart'
      <3>1. PICK p \in {"release", "mark"} :
               at' = [at EXCEPT ![t] = p] /\ (p = "mark" => mark # "idle")
        BY <2>6 DEF Finish
      <3>2. /\ ticketRun' = ticketRun /\ todo' = [todo EXCEPT ![t] = {"session", "slot"}]
            /\ verdict' = [verdict EXCEPT ![t] = mark]
        BY <2>6 DEF Finish
      <3> QED BY <1>k, <2>1, <2>2, <3>1, <3>2, WorkerActs DEF Places
    <2> QED BY <1>3, <2>3, <2>4, <2>5, <2>6 DEF ExecuteStep
  <1>4. ASSUME NEW t \in Tickets, ReleaseStep(t) PROVE WorkerPart'
    <2>0. at[t] = "release" /\ ~Gone(t) /\ at = [at EXCEPT ![t] = "release"]
      BY <1>4, <1>t DEF ReleaseStep, ReleaseSlot, ReleaseSession, ReleaseAgent, Released, Gone, WorkerPart
    <2>1. todo[t] \in SUBSET {"session", "status", "slot"} BY <1>t DEF WorkerPart
    <2>2. CASE ReleaseSlot(t) \/ ReleaseAgent(t) \/ ReleaseSession(t)
      <3>1. UNCHANGED <<at, ticketRun, verdict>> BY <2>2 DEF ReleaseSlot, ReleaseAgent, ReleaseSession
      <3>2. PICK d \in SUBSET {"session", "status", "slot"} : todo' = [todo EXCEPT ![t] = d]
        <4>1. CASE todo' = [todo EXCEPT ![t] = (@ \ {"session"}) \cup {"status"}]
          <5>1. ((todo[t] \ {"session"}) \cup {"status"}) \in SUBSET {"session", "status", "slot"} BY <2>1
          <5> QED BY <4>1, <5>1
        <4>2. ASSUME NEW what, Done(t, what)
              PROVE  \E d \in SUBSET {"session", "status", "slot"} : todo' = [todo EXCEPT ![t] = d]
          <5>1. (todo[t] \ {what}) \in SUBSET {"session", "status", "slot"} BY <2>1
          <5> QED BY <4>2, <5>1 DEF Done
        <4> QED BY <2>2, <4>1, <4>2 DEF ReleaseSlot, ReleaseAgent, ReleaseSession
      <3> QED BY <1>k, <2>0, <3>1, <3>2, WorkerGoesOn DEF Places
    <2>3. CASE Released(t)
      <3>1. PICK d \in SUBSET {"session", "status", "slot"} : todo' = [todo EXCEPT ![t] = d]
        BY <2>1, <2>3, <1>t DEF Released, WorkerPart
      <3>2. PICK v \in {"idle", "failed", "paused"} : verdict' = [verdict EXCEPT ![t] = v]
        BY <2>3, <1>t DEF Released, WorkerPart
      <3>3. at' = [at EXCEPT ![t] = "free"] /\ ticketRun' = [ticketRun EXCEPT ![t] = 0]
        BY <2>3 DEF Released
      <3> QED BY <1>k, <3>1, <3>2, <3>3, WorkerActs DEF Places
    <2> QED BY <1>4, <2>2, <2>3 DEF ReleaseStep
  <1>5. ASSUME NEW t \in Tickets, WorkerDies(t) PROVE WorkerPart'
    BY <1>k, <1>5, WorkerGoesOn DEF WorkerDies, Places
  <1>6. ASSUME SweepStep PROVE WorkerPart'
    BY <1>0, <1>6 DEF SweepStep, ExpireRunLease, RequeueMemberRun, ExpireSlot, RecoverSlot,
                ExpireSession, RecoverSession, RecoverAgent
  <1>7. ASSUME NEW a \in Agents, ManageStep(a) PROVE WorkerPart'
    BY <1>0, <1>7 DEF ManageStep, StartCommand, Stop, RevokeSession, RevokeSlots, CancelSessionRun, Reopen
  <1> QED BY <1>1, <1>2, <1>3, <1>4, <1>5, <1>6, <1>7 DEF LeaseNext

-----------------------------------------------------------------------------
(* The slots. *)

LEMMA FreeSlotsKeeps ==
  ASSUME SlotPart, NEW S, FreeSlots(S) PROVE SlotPart'
  <1>1. /\ slotTicket' \in [Slots -> Tickets \cup {NoTicket}]
        /\ slotRun' \in [Slots -> TeamRuns \cup {0}]
        /\ slotLive' \in [Slots -> BOOLEAN]
    BY DEF SlotPart, FreeSlots
  <1>2. \A s \in Slots : slotTicket'[s] = NoTicket => slotRun'[s] = 0 /\ ~slotLive'[s]
    BY DEF SlotPart, FreeSlots
  <1>3. \A s \in Slots : slotRun'[s] \in {0, slotRun[s]} BY DEF FreeSlots
  <1>4. \A s, q \in Slots : slotRun'[s] = slotRun'[q] => slotRun'[s] = 0 \/ s = q
    BY <1>3 DEF SlotPart
  <1> QED BY <1>1, <1>2, <1>4 DEF SlotPart

\* No run has two slots: what it held is removed before it claims another.
LEMMA ClaimSlotKeeps ==
  ASSUME LInv, NEW t \in Tickets, NEW s \in Slots, ClaimSlot(t, s) PROVE SlotPart'
  <1> USE DEF LInv
  <1>1. ticketRun[t] \in TeamRuns BY AtWork DEF ClaimSlot, Gone
  <1>2. /\ slotTicket' \in [Slots -> Tickets \cup {NoTicket}]
        /\ slotRun' \in [Slots -> TeamRuns \cup {0}]
        /\ slotLive' \in [Slots -> BOOLEAN]
    BY <1>1 DEF SlotPart, ClaimSlot
  <1>3. \A q \in Slots : q # s => /\ slotRun'[q] \in {0, slotRun[q]}
                                  /\ slotRun'[q] # 0 => q \notin ExpiredSlots
    BY DEF ClaimSlot
  <1>4. \A q \in Slots : q # s => slotRun'[q] # ticketRun[t]
    <2> SUFFICES ASSUME NEW q \in Slots, q # s, slotRun'[q] = ticketRun[t] PROVE FALSE OBVIOUS
    <2>1. ticketRun[t] # 0 BY <1>1 DEF TeamRuns
    <2>2. slotRun[q] = ticketRun[t] /\ q \notin ExpiredSlots BY <1>3, <2>1
    <2>3. ~slotLive[q] BY <2>2 DEF ClaimSlot
    <2>4. slotTicket[q] # NoTicket BY <2>1, <2>2 DEF SlotPart
    <2> QED BY <2>2, <2>3, <2>4 DEF ExpiredSlots
  <1>5. slotRun'[s] = ticketRun[t] /\ slotTicket'[s] = t BY DEF ClaimSlot, SlotPart
  <1>6. \A q \in Slots : slotTicket'[q] = NoTicket => slotRun'[q] = 0 /\ ~slotLive'[q]
    BY TeamLeasesAssumption DEF SlotPart, ClaimSlot, ExpiredSlots
  <1>7. \A p, q \in Slots : slotRun'[p] = slotRun'[q] => slotRun'[p] = 0 \/ p = q
    <2> SUFFICES ASSUME NEW p \in Slots, NEW q \in Slots, slotRun'[p] = slotRun'[q], slotRun'[p] # 0
                 PROVE  p = q
      OBVIOUS
    <2>1. CASE p = s \/ q = s BY <2>1, <1>4, <1>5
    <2>2. CASE p # s /\ q # s BY <2>2, <1>3 DEF SlotPart
    <2> QED BY <2>1, <2>2
  <1> QED BY <1>2, <1>6, <1>7 DEF SlotPart

LEMMA SlotsEvolve ==
  ASSUME LInv, LeaseNext PROVE SlotPart'
  <1>0. ASSUME UNCHANGED slotVars PROVE SlotPart' BY <1>0 DEF LInv, SlotPart, slotVars
  <1>f. ASSUME NEW S, FreeSlots(S) PROVE SlotPart' BY <1>f, FreeSlotsKeeps DEF LInv
  <1>1. ASSUME NEW r \in TeamRuns, NEW a \in Agents, CreateMemberRun(r, a) PROVE SlotPart'
    BY <1>0, <1>1 DEF CreateMemberRun
  <1>2. ASSUME NEW t \in Tickets, AcquireStep(t) PROVE SlotPart'
    <2>1. ASSUME NEW s \in Slots, ClaimSlot(t, s) PROVE SlotPart' BY <2>1, ClaimSlotKeeps
    <2>2. CASE SlotChecked(t) \/ SessionRefused(t) \/ VerifySession(t)
      BY <1>0, <1>f, <2>2 DEF SlotChecked, SessionRefused, VerifySession
    <2>3. CASE \/ \E r \in TeamRuns : LeaseRun(t, r)
               \/ Eligible(t) \/ Ineligible(t) \/ SlotRefused(t) \/ ClaimSession(t) \/ SetRunning(t)
      BY <1>0, <2>3 DEF LeaseRun, Eligible, Ineligible, SlotRefused, ClaimSession, SetRunning
    <2> QED BY <1>2, <2>1, <2>2, <2>3 DEF AcquireStep
  <1>3. ASSUME NEW t \in Tickets, ExecuteStep(t) PROVE SlotPart'
    BY <1>0, <1>3 DEF ExecuteStep, Undispatched, CheckFences, Detached, Finish, MarkAgent
  <1>4. ASSUME NEW t \in Tickets, ReleaseStep(t) \/ WorkerDies(t) PROVE SlotPart'
    BY <1>0, <1>f, <1>4 DEF ReleaseStep, ReleaseSlot, ReleaseSession, ReleaseAgent, Released, WorkerDies
  <1>5. ASSUME SweepStep PROVE SlotPart'
    <2>1. ASSUME NEW s \in Slots, ExpireSlot(s) PROVE SlotPart'
      BY <2>1 DEF ExpireSlot, LInv, SlotPart
    <2>2. CASE \/ \E r \in TeamRuns : ExpireRunLease(r) \/ RequeueMemberRun(r)
               \/ \E s \in Slots : RecoverSlot(s)
               \/ \E s \in Sessions : ExpireSession(s) \/ RecoverSession(s) \/ RecoverAgent(s)
      BY <1>0, <1>f, <2>2 DEF ExpireRunLease, RequeueMemberRun, RecoverSlot, ExpireSession,
                              RecoverSession, RecoverAgent
    <2> QED BY <1>5, <2>1, <2>2 DEF SweepStep
  <1>6. ASSUME NEW a \in Agents, ManageStep(a) PROVE SlotPart'
    BY <1>0, <1>f, <1>6 DEF ManageStep, StartCommand, Stop, RevokeSession, RevokeSlots,
                            CancelSessionRun, Reopen
  <1> QED BY <1>1, <1>2, <1>3, <1>4, <1>5, <1>6 DEF LeaseNext

-----------------------------------------------------------------------------
(* The sessions, and who may write them. *)

\* A live claim of a session is made by a worker that is claiming it.
ClaimsKept ==
    \A s \in Sessions, t \in Tickets :
       sessTicket'[s] = t /\ sessLive'[s] =>
          \/ sessTicket[s] = t /\ sessLive[s]
          \/ at'[t] = "claimed"

SessionType ==
    /\ sessTicket \in [Sessions -> Tickets \cup {NoTicket}]
    /\ sessLive \in [Sessions -> BOOLEAN]
    /\ owedIdle \subseteq Sessions

LEMMA FreeSessionKeeps ==
  ASSUME SessionType, NEW s \in Sessions, FreeSession(s), owedIdle' \subseteq Sessions
  PROVE  SessionType' /\ ClaimsKept /\ sessLive'[s] = FALSE
  BY DEF SessionType, FreeSession, ClaimsKept

LEMMA ClaimsEvolve ==
  ASSUME LInv, LeaseNext PROVE SessionType' /\ ClaimsKept
  <1> DEFINE Goal == SessionType' /\ ClaimsKept
  <1>t. SessionType BY DEF LInv, SessionPart, SessionType
  <1>0. ASSUME UNCHANGED <<sessVars, owedIdle>> PROVE Goal
    BY <1>0, <1>t DEF SessionType, ClaimsKept, sessVars
  <1>f. ASSUME NEW s \in Sessions, FreeSession(s), owedIdle' \subseteq Sessions PROVE Goal
    BY <1>f, <1>t, FreeSessionKeeps
  <1>1. ASSUME NEW r \in TeamRuns, NEW a \in Agents, CreateMemberRun(r, a) PROVE Goal
    BY <1>0, <1>1 DEF CreateMemberRun
  <1>2. ASSUME NEW t \in Tickets, AcquireStep(t) PROVE Goal
    <2>1. CASE ClaimSession(t)
      <3>1. SessionOf(t) \in Sessions BY <2>1, AtWork DEF ClaimSession, Gone
      <3>2. at'[t] = "claimed" BY <2>1 DEF ClaimSession, GoOn, LInv, WorkerPart
      <3> QED BY <2>1, <3>1, <3>2, <1>t DEF ClaimSession, SessionType, ClaimsKept
    <2>2. CASE VerifySession(t)
      <3>1. SessionOf(t) \in Sessions BY <2>2, AtWork DEF VerifySession, Gone
      <3>2. UNCHANGED owedIdle BY <2>2 DEF VerifySession
      <3> QED BY <1>0, <1>f, <1>t, <2>2, <3>1, <3>2 DEF VerifySession, SessionType
    <2>3. CASE ~ClaimSession(t) /\ ~VerifySession(t)
      BY <1>0, <1>2, <2>3 DEF AcquireStep, LeaseRun, Eligible, Ineligible, ClaimSlot, SlotRefused,
                              SlotChecked, SessionRefused, SetRunning
    <2> QED BY <2>1, <2>2, <2>3
  <1>3. ASSUME NEW t \in Tickets, ExecuteStep(t) PROVE Goal
    BY <1>0, <1>3 DEF ExecuteStep, Undispatched, CheckFences, Detached, Finish, MarkAgent
  <1>4. ASSUME NEW t \in Tickets, ReleaseStep(t) PROVE Goal
    <2>1. CASE ReleaseSession(t)
      <3>1. SessionOf(t) \in Sessions BY <2>1, AtWork DEF ReleaseSession, Gone
      <3>2. UNCHANGED owedIdle BY <2>1 DEF ReleaseSession
      <3> QED BY <1>0, <1>f, <1>t, <2>1, <3>1, <3>2 DEF ReleaseSession, SessionType
    <2>2. CASE ~ReleaseSession(t)
      BY <1>0, <1>4, <2>2 DEF ReleaseStep, ReleaseSlot, ReleaseAgent, Released
    <2> QED BY <2>1, <2>2
  <1>5. ASSUME NEW t \in Tickets, WorkerDies(t) PROVE Goal BY <1>0, <1>5 DEF WorkerDies
  <1>6. ASSUME SweepStep PROVE Goal
    <2>1. CASE \/ \E r \in TeamRuns : ExpireRunLease(r) \/ RequeueMemberRun(r)
               \/ \E s \in Slots : ExpireSlot(s) \/ RecoverSlot(s)
      BY <1>0, <2>1 DEF ExpireRunLease, RequeueMemberRun, ExpireSlot, RecoverSlot
    <2>2. ASSUME NEW s \in Sessions, ExpireSession(s) PROVE Goal
      BY <1>t, <2>2 DEF ExpireSession, SessionType, ClaimsKept
    <2>3. ASSUME NEW s \in Sessions, RecoverSession(s) PROVE Goal
      BY <1>t, <1>f, <2>3 DEF RecoverSession, SessionType
    <2>4. ASSUME NEW s \in Sessions, RecoverAgent(s) PROVE Goal
      BY <1>t, <2>4 DEF RecoverAgent, SessionType, ClaimsKept, sessVars
    <2> QED BY <1>6, <2>1, <2>2, <2>3, <2>4 DEF SweepStep
  <1>7. ASSUME NEW a \in Agents, ManageStep(a) PROVE Goal
    <2>1. CASE RevokeSession(a)
      <3>1. <<a, generation[a]>> \in Sessions BY DEF LInv, AgentPart, Sessions
      <3>2. UNCHANGED owedIdle BY <2>1 DEF RevokeSession
      <3> QED BY <1>t, <1>f, <2>1, <3>1, <3>2 DEF RevokeSession, SessionType
    <2>2. CASE ~RevokeSession(a)
      BY <1>0, <1>7, <2>2 DEF ManageStep, StartCommand, Stop, RevokeSlots, CancelSessionRun, Reopen
    <2> QED BY <2>1, <2>2
  <1> QED BY <1>1, <1>2, <1>3, <1>4, <1>5, <1>6, <1>7 DEF LeaseNext

\* An execution begins where its claim is verified against the agent.
LEMMA ExecutionStarts ==
  ASSUME LInv, LeaseNext, NEW t \in Tickets, at'[t] \in {"executing", "checked"}
  PROVE  /\ ticketRun'[t] = ticketRun[t]
         /\ \/ at[t] \in {"executing", "checked"}
            \/ at[t] = "verify" /\ StillRunning(t) /\ UNCHANGED rootVars
  <1> DEFINE Goal == /\ ticketRun'[t] = ticketRun[t]
                     /\ \/ at[t] \in {"executing", "checked"}
                        \/ at[t] = "verify" /\ StillRunning(t) /\ UNCHANGED rootVars
  <1>t. WorkerPart BY DEF LInv
  <1>0. ASSUME UNCHANGED <<at, ticketRun>> PROVE Goal BY <1>0
  <1>o. ASSUME NEW u \in Tickets, u # t, NEW p, NEW r,
               at' = [at EXCEPT ![u] = p], ticketRun' = [ticketRun EXCEPT ![u] = r] \/ ticketRun' = ticketRun
        PROVE  Goal
    BY <1>o, <1>t DEF WorkerPart
  <1>p. ASSUME NEW p \in Places \ {"executing", "checked"}, at' = [at EXCEPT ![t] = p] PROVE FALSE
    BY <1>p, <1>t DEF WorkerPart
  <1>1. ASSUME NEW r \in TeamRuns, NEW a \in Agents, CreateMemberRun(r, a) PROVE Goal
    BY <1>0, <1>1 DEF CreateMemberRun, workerVars
  <1>2. ASSUME NEW u \in Tickets, AcquireStep(u) PROVE Goal
    <2>1. ASSUME NEW p \in Places \ {"executing", "checked"}, GoOn(u, p) PROVE Goal
      BY <1>o, <1>p, <2>1 DEF GoOn
    <2>2. ASSUME NEW status, Give(u, status) PROVE Goal BY <1>o, <1>p, <2>2 DEF Give, Places
    <2>3. ASSUME NEW r \in TeamRuns, LeaseRun(u, r) PROVE Goal BY <1>o, <1>p, <2>3 DEF LeaseRun, Places
    <2>4. CASE Eligible(u) \/ ClaimSession(u) \/ SetRunning(u) \/ \E s \in Slots : ClaimSlot(u, s)
      BY <2>1, <2>4 DEF Eligible, ClaimSession, SetRunning, ClaimSlot, Places
    <2>5. CASE Ineligible(u) \/ SlotRefused(u) \/ SessionRefused(u)
      BY <2>2, <2>5 DEF Ineligible, SlotRefused, SessionRefused
    <2>6. CASE SlotChecked(u) BY <2>1, <2>2, <2>6 DEF SlotChecked, Places
    <2>7. CASE VerifySession(u)
      <3>1. CASE Verified(u)
        <4>1. CASE u # t BY <1>o, <2>7, <3>1, <4>1 DEF VerifySession, GoOn
        <4>2. CASE u = t BY <2>7, <3>1, <4>2 DEF VerifySession, GoOn, Verified
        <4> QED BY <4>1, <4>2
      <3>2. CASE ~Verified(u) BY <2>2, <2>7, <3>2 DEF VerifySession
      <3> QED BY <3>1, <3>2
    <2> QED BY <1>2, <2>3, <2>4, <2>5, <2>6, <2>7 DEF AcquireStep
  <1>3. ASSUME NEW u \in Tickets, ExecuteStep(u) PROVE Goal
    <2>1. PICK p \in {"release", "mark", "checked"} :
             /\ at' = [at EXCEPT ![u] = p] /\ ticketRun' = ticketRun
             /\ p = "checked" => at[u] = "executing"
      <3>1. CASE Undispatched(u) BY <3>1 DEF Undispatched
      <3>2. CASE CheckFences(u) BY <3>2 DEF CheckFences, GoOn
      <3>3. CASE Detached(u) BY <3>3 DEF Detached
      <3>4. CASE MarkAgent(u) BY <3>4 DEF MarkAgent, GoOn
      <3>5. ASSUME NEW status, NEW mark, Finish(u, status, mark)
            PROVE  \E p \in {"release", "mark", "checked"} :
                      /\ at' = [at EXCEPT ![u] = p] /\ ticketRun' = ticketRun
                      /\ p = "checked" => at[u] = "executing"
        BY <3>5 DEF Finish
      <3> QED BY <1>3, <3>1, <3>2, <3>3, <3>4, <3>5 DEF ExecuteStep
    <2>2. CASE u # t BY <1>o, <2>1, <2>2
    <2>3. CASE u = t BY <1>p, <2>1, <2>3 DEF Places
    <2> QED BY <2>2, <2>3
  <1>4. ASSUME NEW u \in Tickets, ReleaseStep(u) \/ WorkerDies(u) PROVE Goal
    <2>1. CASE ReleaseSlot(u) \/ ReleaseSession(u) \/ ReleaseAgent(u)
      BY <1>0, <2>1 DEF ReleaseSlot, ReleaseSession, ReleaseAgent
    <2>2. CASE Released(u) BY <1>o, <1>p, <2>2 DEF Released, Places
    <2>3. CASE WorkerDies(u) BY <1>o, <1>p, <2>3 DEF WorkerDies, Places
    <2> QED BY <1>4, <2>1, <2>2, <2>3 DEF ReleaseStep
  <1>5. ASSUME SweepStep PROVE Goal
    BY <1>0, <1>5 DEF SweepStep, ExpireRunLease, RequeueMemberRun, ExpireSlot, RecoverSlot,
                ExpireSession, RecoverSession, RecoverAgent, workerVars
  <1>6. ASSUME NEW a \in Agents, ManageStep(a) PROVE Goal
    BY <1>0, <1>6 DEF ManageStep, StartCommand, Stop, RevokeSession, RevokeSlots, CancelSessionRun,
                Reopen, workerVars
  <1> QED BY <1>1, <1>2, <1>3, <1>4, <1>5, <1>6 DEF LeaseNext

\* A session is revoked by a step that clears it.
LEMMA RevokedCleared ==
  ASSUME LInv, LeaseNext, NEW s \in revoked' PROVE s \in revoked \/ ~sessLive'[s]
  <1>1. CASE UNCHANGED <<command, revoked, generation>> BY <1>1
  <1>2. ASSUME NEW a \in Agents, ManageStep(a) PROVE s \in revoked \/ ~sessLive'[s]
    <2>1. CASE RevokeSession(a)
      <3>1. <<a, generation[a]>> \in Sessions BY DEF LInv, AgentPart, Sessions
      <3>2. ~sessLive'[<<a, generation[a]>>]
        BY <2>1, <3>1 DEF RevokeSession, FreeSession, LInv, SessionPart
      <3> QED BY <2>1, <3>2 DEF RevokeSession
    <2>2. CASE ~RevokeSession(a)
      BY <1>2, <2>2 DEF ManageStep, StartCommand, Stop, RevokeSlots, CancelSessionRun, Reopen
    <2> QED BY <2>1, <2>2
  <1> QED BY <1>1, <1>2, CommandsMove

LEMMA SessionsEvolve ==
  ASSUME LInv, LeaseNext PROVE SessionPart'
  <1>1. SessionType' /\ ClaimsKept BY ClaimsEvolve
  <1>2. RevokedNotWritten'
    <2> SUFFICES ASSUME NEW t \in Tickets, at'[t] \in {"executing", "checked"},
                        CanWriteSession(t)', SessionOf(t)' \in revoked'
                 PROVE  FALSE
      BY DEF RevokedNotWritten
    <2>1. ~Gone(t) BY ExecutionStarts DEF Gone
    <2>2. SessionOf(t)' = SessionOf(t) /\ SessionOf(t) \in Sessions
      BY <2>1, AtWork, RunsEvolve, ExecutionStarts DEF RunsKept, SessionOf
    <2>3. sessTicket[SessionOf(t)] = t /\ sessLive[SessionOf(t)]
      BY <1>1, <2>2 DEF ClaimsKept, CanWriteSession, HoldsSession
    <2>4. SessionOf(t) \in revoked
      BY <2>2, RevokedCleared DEF CanWriteSession
    <2>5. CASE at[t] \in {"executing", "checked"}
      BY <2>3, <2>4, <2>5 DEF LInv, SessionPart, RevokedNotWritten, CanWriteSession, HoldsSession
    <2>6. CASE at[t] = "verify" /\ StillRunning(t)
      <3>1. StoppedOrOld(SessionOf(t)) BY <2>4 DEF LInv, CommandPart
      <3> QED BY <2>6, <3>1 DEF StillRunning, StoppedOrOld, AgentOf, Stopped
    <2> QED BY <2>5, <2>6, ExecutionStarts
  <1> QED BY <1>1, <1>2 DEF SessionPart, SessionType

-----------------------------------------------------------------------------
(* The faults. *)

LEMMA FaultsEvolve ==
  ASSUME LInv, LeaseNext PROVE FaultPart'
  <1> USE TeamLeasesAssumption DEF LInv, FaultPart, faultVars
  <1>1. ASSUME NEW r \in TeamRuns, NEW a \in Agents, CreateMemberRun(r, a) PROVE FaultPart'
    BY <1>1 DEF CreateMemberRun
  <1>2. ASSUME NEW t \in Tickets, AcquireStep(t) PROVE FaultPart'
    BY <1>2 DEF AcquireStep, LeaseRun, Eligible, Ineligible, ClaimSlot, SlotRefused, SlotChecked,
                ClaimSession, SessionRefused, SetRunning, VerifySession
  <1>3. ASSUME NEW t \in Tickets, ExecuteStep(t) PROVE FaultPart'
    BY <1>3 DEF ExecuteStep, Undispatched, CheckFences, Detached, Finish, MarkAgent
  <1>4. ASSUME NEW t \in Tickets, ReleaseStep(t) \/ WorkerDies(t) PROVE FaultPart'
    BY <1>4 DEF ReleaseStep, ReleaseSlot, ReleaseSession, ReleaseAgent, Released, WorkerDies
  <1>5. ASSUME SweepStep PROVE FaultPart'
    <2>1. ASSUME NEW t, Lapse(t), UNCHANGED torn PROVE FaultPart' BY <2>1 DEF Lapse
    <2>2. ASSUME NEW r \in TeamRuns, ExpireRunLease(r) \/ RequeueMemberRun(r) PROVE FaultPart'
      BY <2>1, <2>2 DEF ExpireRunLease, RequeueMemberRun
    <2>3. ASSUME NEW s \in Slots, ExpireSlot(s) \/ RecoverSlot(s) PROVE FaultPart'
      BY <2>1, <2>3 DEF ExpireSlot, RecoverSlot
    <2>4. ASSUME NEW s \in Sessions, ExpireSession(s) \/ RecoverSession(s) \/ RecoverAgent(s)
          PROVE  FaultPart'
      BY <2>1, <2>4 DEF ExpireSession, RecoverSession, RecoverAgent
    <2> QED BY <1>5, <2>2, <2>3, <2>4 DEF SweepStep
  <1>6. ASSUME NEW a \in Agents, ManageStep(a) PROVE FaultPart'
    BY <1>6 DEF ManageStep, StartCommand, Stop, RevokeSession, RevokeSlots, CancelSessionRun, Reopen
  <1> QED BY <1>1, <1>2, <1>3, <1>4, <1>5, <1>6 DEF LeaseNext

-----------------------------------------------------------------------------
LEMMA LInvStutters ==
  ASSUME LInv, UNCHANGED leaseVars PROVE LInv'
  <1> USE DEF LInv, leaseVars, agentVars, slotVars, sessVars, teamRunVars, workerVars, rootVars, faultVars
  <1>1. AgentPart' BY DEF AgentPart
  <1>2. CommandPart' BY DEF CommandPart, StoppedOrOld, Current
  <1>3. MemberRunPart' BY DEF MemberRunPart
  <1>4. WorkerPart' BY DEF WorkerPart, Gone
  <1>5. SlotPart' BY DEF SlotPart
  <1>6. SessionPart' BY DEF SessionPart, RevokedNotWritten, CanWriteSession, HoldsSession, SessionOf
  <1>7. FaultPart' BY DEF FaultPart
  <1> QED BY <1>1, <1>2, <1>3, <1>4, <1>5, <1>6, <1>7

LEMMA LInvInvariance == LeaseSpec => []LInv
  <1>1. LInv /\ [LeaseNext]_leaseVars => LInv'
    <2> SUFFICES ASSUME LInv, [LeaseNext]_leaseVars PROVE LInv' OBVIOUS
    <2>1. CASE LeaseNext
      BY <2>1, AgentsEvolve, CommandsEvolve, RunsEvolve, WorkersEvolve, SlotsEvolve, SessionsEvolve,
         FaultsEvolve DEF LInv
    <2>2. CASE UNCHANGED leaseVars BY <2>2, LInvStutters
    <2> QED BY <2>1, <2>2
  <1> QED BY <1>1, LInvInit, PTL DEF LeaseSpec

\* The documents of agents, slots, sessions and runs are type-correct, and no
\* run holds two slots of its Team (claimExecutionSlot).
THEOREM LeaseTypeCorrect == LeaseSpec => []LeaseTypeOK
  BY LInvInvariance, LInvImplies, PTL

\* Once manageAgent has revoked a session (revokeAgentExecutionLeases), no execution
\* that passes its fences writes it.
THEOREM RevokedIsNotWritten == LeaseSpec => []RevokedNotWritten
  BY LInvInvariance, LInvImplies, PTL

\* A paused, completed or failed agent is runnable again by a reopen of manageAgent alone,
\* whatever releaseTeamExecutionLeases and the sweeps still write.
THEOREM StoppedIsFinal == LeaseSpec => StoppedUntilReopened
  <1> DEFINE Kept == \A a \in Agents : agentStatus[a] \in Stopped /\ agentStatus'[a] \in Runnable
                                       => generation'[a] = generation[a] + 1
  <1>1. LInv /\ [LeaseNext]_leaseVars => [Kept]_leaseVars
    BY StoppedStays
  <1> QED BY <1>1, LInvInvariance, PTL DEF LeaseSpec, StoppedUntilReopened

-----------------------------------------------------------------------------
(***************************************************************************)
(* Theorems about TeamTasks: a task runs only when all it depends          *)
(* on is accepted, and a terminal task stays as it ended, although a       *)
(* scheduler and an editor read the ledger steps before they write it.     *)
(* The invariant says what a fresh copy is worth: as long as nothing has   *)
(* written the task since it was read, the task is as the reader saw it;   *)
(* and what it depends on cannot get worse, since accepted is terminal.    *)
(***************************************************************************)

Open == TaskStates \ (TerminalTask \cup {"absent"})

LedgerTyped ==
    /\ tstatus \in [TeamTaskIds -> TaskStates]
    /\ tmanual \in [TeamTaskIds -> BOOLEAN]
    /\ tdeps \in [TeamTaskIds -> SUBSET TeamTaskIds]
    /\ towner \in [TeamTaskIds -> TeamMembers]
    /\ \A t \in TeamTaskIds : tmanual[t] => tstatus[t] = "waiting"

\* Tasks are numbered in the order of their creation.
CreatedInOrder ==
    \E n \in 0..MaxTasks : \A t \in TeamTaskIds : tstatus[t] # "absent" <=> t <= n

LedgerPart == LedgerTyped /\ CreatedInOrder /\ RunningMeetsDependencies

RunPart ==
    /\ astatus \in [TeamMembers -> {"idle", "running", "paused", "completed", "failed"}]
    /\ rstate \in [TeamMembers -> {"none", "queued", "running", "cancelling", "recoverable"}]
    /\ rtask \in [TeamMembers -> SUBSET TeamTaskIds]

ExecutorPart ==
    /\ rplace \in [TeamMembers -> {"none", "start", "turn", "submit", "close", "fail", "end"}]
    /\ rctx \in [TeamMembers -> SUBSET TeamTaskIds]
    /\ rfence \in [TeamMembers -> BOOLEAN]
    /\ rtool \in [TeamMembers -> BOOLEAN]
    /\ \A m \in TeamMembers : \A t \in rctx[m] : tstatus[t] # "absent"

\* A scheduler between its choice and its claim.
Choosing(s) == splace[s] \in {"chosen", "created"}

\* What a scheduler's fresh copy is worth.
Claimable(t) == tstatus[t] \in {"queued", "rework", "waiting"} /\ DependenciesAccepted(t)

SchedulerTyped ==
    /\ splace \in [Schedulers -> {"idle", "chosen", "created", "retire"}]
    /\ smember \in [Schedulers -> TeamMembers]
    /\ stask \in [Schedulers -> SUBSET TeamTaskIds]
    /\ sseen \in [Schedulers -> TaskStates]
    /\ sfresh \in [Schedulers -> BOOLEAN]
    /\ smine \in [Schedulers -> BOOLEAN]

SchedulerPart ==
    /\ SchedulerTyped
    /\ \A s \in Schedulers : Choosing(s) /\ sfresh[s] => \A t \in stask[s] : Claimable(t)

\* What updateTask may decide: the task does not start by it, and does not vanish.
SoundEdit(u) ==
    /\ u \in Edits
    /\ u.status \notin {"absent", "running"}
    /\ u.manual => u.status = "waiting"

EditorTyped ==
    /\ eplace \in [Editors -> {"idle", "decided", "cancelled", "interrupt", "close",
                               "interrupted", "closed"}]
    /\ emember \in [Editors -> TeamMembers]
    /\ edit \in [Editors -> Edits \cup {NoEdit}]
    /\ efresh \in [Editors -> BOOLEAN]

EditorPart ==
    /\ EditorTyped
    /\ \A e \in Editors :
          /\ eplace[e] \in {"decided", "cancelled"} => SoundEdit(edit[e])
          /\ eplace[e] = "decided" /\ efresh[e] => tstatus[edit[e].task] \in Open

BoundPart == commands \in 0..MaxCommands /\ taskCrashes \in 0..MaxTaskCrashes

TaskInv == LedgerPart /\ RunPart /\ ExecutorPart /\ SchedulerPart /\ EditorPart /\ BoundPart

LEMMA TaskInvImplies == TaskInv => TeamTaskTypeOK /\ RunningMeetsDependencies
  BY DEF TaskInv, LedgerPart, LedgerTyped, RunPart, ExecutorPart, SchedulerPart, SchedulerTyped,
         EditorPart, EditorTyped, BoundPart, TeamTaskTypeOK

LEMMA TaskInvInit == TeamTaskInit => TaskInv
  <1> SUFFICES ASSUME TeamTaskInit PROVE TaskInv OBVIOUS
  <1> USE TaskAssumption DEF TeamTaskInit
  <1>1. PICK m \in TeamMembers : towner = [t \in TeamTaskIds |-> m] OBVIOUS
  <1>2. LedgerPart
    <2>1. LedgerTyped BY <1>1 DEF LedgerTyped, TaskStates
    <2>2. CreatedInOrder
      <3>1. 0 \in 0..MaxTasks OBVIOUS
      <3>2. \A t \in TeamTaskIds : ~(t <= 0) BY DEF TeamTaskIds
      <3> QED BY <3>1, <3>2 DEF CreatedInOrder
    <2>3. RunningMeetsDependencies BY DEF RunningMeetsDependencies
    <2> QED BY <2>1, <2>2, <2>3 DEF LedgerPart
  <1>3. RunPart BY DEF RunPart
  <1>4. ExecutorPart BY DEF ExecutorPart
  <1>5. (CHOOSE n \in TeamMembers : TRUE) \in TeamMembers BY <1>1
  <1>6. SchedulerPart BY <1>5 DEF SchedulerPart, SchedulerTyped, TaskStates, Choosing
  <1>7. EditorPart BY <1>5 DEF EditorPart, EditorTyped
  <1>8. BoundPart BY DEF BoundPart
  <1> QED BY <1>2, <1>3, <1>4, <1>6, <1>7, <1>8 DEF TaskInv

-----------------------------------------------------------------------------
(* What one step may do to the ledger, to the schedulers and to the editors. *)

\* The tasks ts, none of them terminal, are written; one that starts is ready.
LedgerWritten(ts) ==
    /\ ts \subseteq TeamTaskIds
    /\ LedgerTyped'
    /\ \A t \in ts : /\ tstatus[t] \in Open /\ tstatus'[t] # "absent"
                     /\ tstatus'[t] = "running" => DependenciesAccepted(t) /\ tdeps'[t] = tdeps[t]
    /\ \A t \in TeamTaskIds \ ts : tstatus'[t] = tstatus[t] /\ tdeps'[t] = tdeps[t]

\* A scheduler keeps its choice, or gives it up; its copy is not fresh after a write.
SchedulersAfter(ts) ==
    /\ SchedulerTyped'
    /\ \A s \in Schedulers :
          Choosing(s)' /\ sfresh'[s]
             => Choosing(s) /\ sfresh[s] /\ stask'[s] = stask[s] /\ stask[s] \cap ts = {}

EditorsAfter(ts) ==
    /\ EditorTyped'
    /\ \A e \in Editors :
          /\ eplace'[e] \in {"decided", "cancelled"}
                => eplace[e] \in {"decided", "cancelled"} /\ edit'[e] = edit[e]
          /\ eplace'[e] = "decided" /\ efresh'[e]
                => eplace[e] = "decided" /\ efresh[e] /\ edit[e].task \notin ts

Moves(ts) == LedgerWritten(ts) /\ SchedulersAfter(ts) /\ EditorsAfter(ts)

\* What ended stays as it is, what was created stays.
LedgerStep ==
    \A t \in TeamTaskIds : /\ tstatus[t] \in TerminalTask => tstatus'[t] = tstatus[t]
                           /\ tstatus[t] # "absent" => tstatus'[t] # "absent"

Kept == LedgerPart' /\ SchedulerPart' /\ EditorPart' /\ LedgerStep

LEMMA AcceptedStays ==
  ASSUME TaskInv, NEW ts, LedgerWritten(ts), NEW t \in TeamTaskIds, DependenciesAccepted(t),
         tdeps'[t] = tdeps[t]
  PROVE  DependenciesAccepted(t)'
  <1> SUFFICES ASSUME NEW d \in tdeps[t] PROVE tstatus'[d] = "accepted" BY DEF DependenciesAccepted
  <1>1. d \in TeamTaskIds BY DEF TaskInv, LedgerPart, LedgerTyped
  <1>2. tstatus[d] = "accepted" BY DEF DependenciesAccepted
  <1>3. d \notin ts BY <1>2 DEF LedgerWritten, Open, TerminalTask
  <1> QED BY <1>1, <1>2, <1>3 DEF LedgerWritten

LEMMA LedgerKept == ASSUME TaskInv, NEW ts, LedgerWritten(ts) PROVE LedgerPart' /\ LedgerStep
  <1>1. CreatedInOrder'
    <2>1. PICK n \in 0..MaxTasks : \A t \in TeamTaskIds : tstatus[t] # "absent" <=> t <= n
      BY DEF TaskInv, LedgerPart, CreatedInOrder
    <2>2. ASSUME NEW t \in TeamTaskIds PROVE tstatus'[t] # "absent" <=> t <= n
      <3>1. CASE t \in ts BY <2>1, <3>1 DEF LedgerWritten, Open
      <3>2. CASE t \notin ts BY <2>1, <3>2 DEF LedgerWritten
      <3> QED BY <3>1, <3>2
    <2> QED BY <2>2 DEF CreatedInOrder
  <1>2. RunningMeetsDependencies'
    <2> SUFFICES ASSUME NEW t \in TeamTaskIds, tstatus'[t] = "running"
                 PROVE  DependenciesAccepted(t)'
      BY DEF RunningMeetsDependencies
    <2>1. CASE t \in ts BY <2>1, AcceptedStays DEF LedgerWritten
    <2>2. CASE t \notin ts
      <3>1. tstatus[t] = "running" /\ tdeps'[t] = tdeps[t] BY <2>2 DEF LedgerWritten
      <3>2. DependenciesAccepted(t)
        BY <3>1 DEF TaskInv, LedgerPart, RunningMeetsDependencies
      <3> QED BY <3>1, <3>2, AcceptedStays
    <2> QED BY <2>1, <2>2
  <1>3. LedgerStep
    <2> SUFFICES ASSUME NEW t \in TeamTaskIds
                 PROVE  /\ tstatus[t] \in TerminalTask => tstatus'[t] = tstatus[t]
                        /\ tstatus[t] # "absent" => tstatus'[t] # "absent"
      BY DEF LedgerStep
    <2>1. CASE t \in ts BY <2>1 DEF LedgerWritten, Open
    <2>2. CASE t \notin ts BY <2>2 DEF LedgerWritten
    <2> QED BY <2>1, <2>2
  <1> QED BY <1>1, <1>2, <1>3 DEF LedgerPart, LedgerWritten

LEMMA SchedulersKept ==
  ASSUME TaskInv, NEW ts, LedgerWritten(ts), SchedulersAfter(ts) PROVE SchedulerPart'
  <1> SUFFICES ASSUME NEW s \in Schedulers, Choosing(s)', sfresh'[s], NEW t \in stask'[s]
               PROVE  Claimable(t)'
    BY DEF SchedulerPart, SchedulersAfter
  <1>1. Choosing(s) /\ sfresh[s] /\ t \in stask[s] /\ t \notin ts BY DEF SchedulersAfter
  <1>2. t \in TeamTaskIds BY <1>1 DEF TaskInv, SchedulerPart, SchedulerTyped
  <1>3. Claimable(t) BY <1>1 DEF TaskInv, SchedulerPart
  <1>4. tstatus'[t] = tstatus[t] /\ tdeps'[t] = tdeps[t] BY <1>1, <1>2 DEF LedgerWritten
  <1> QED BY <1>2, <1>3, <1>4, AcceptedStays DEF Claimable

LEMMA EditorsKept ==
  ASSUME TaskInv, NEW ts, LedgerWritten(ts), EditorsAfter(ts) PROVE EditorPart'
  <1> SUFFICES ASSUME NEW e \in Editors
               PROVE  /\ eplace'[e] \in {"decided", "cancelled"} => SoundEdit(edit'[e])
                      /\ eplace'[e] = "decided" /\ efresh'[e] => tstatus'[edit'[e].task] \in Open
    BY DEF EditorPart, EditorsAfter, SoundEdit
  <1>1. eplace'[e] \in {"decided", "cancelled"} => SoundEdit(edit'[e])
    BY DEF EditorsAfter, TaskInv, EditorPart
  <1>2. ASSUME eplace'[e] = "decided", efresh'[e] PROVE tstatus'[edit'[e].task] \in Open
    <2>1. /\ eplace[e] = "decided" /\ efresh[e] /\ edit'[e] = edit[e]
          /\ edit[e].task \notin ts
      BY <1>2 DEF EditorsAfter
    <2>2. tstatus[edit[e].task] \in Open /\ SoundEdit(edit[e]) BY <2>1 DEF TaskInv, EditorPart
    <2>3. edit[e].task \in TeamTaskIds BY <2>2 DEF SoundEdit, Edits
    <2> QED BY <2>1, <2>2, <2>3 DEF LedgerWritten
  <1> QED BY <1>1, <1>2

LEMMA MovesKeep == ASSUME TaskInv, NEW ts, Moves(ts) PROVE Kept
  BY LedgerKept, SchedulersKept, EditorsKept DEF Moves, Kept

-----------------------------------------------------------------------------
(* The operators that actions share. *)

LEMMA Typing ==
  ASSUME TaskInv
  PROVE  /\ LedgerTyped /\ SchedulerTyped /\ EditorTyped /\ RunPart /\ ExecutorPart /\ BoundPart
  BY DEF TaskInv, LedgerPart, SchedulerPart, EditorPart

LEMMA EndRunTyped ==
  ASSUME TaskInv, NEW m \in TeamMembers, EndRun(m)
  PROVE  /\ rstate' \in [TeamMembers -> {"none", "queued", "running", "cancelling", "recoverable"}]
         /\ rtask' \in [TeamMembers -> SUBSET TeamTaskIds]
         /\ smine' \in [Schedulers -> BOOLEAN]
  BY Typing DEF EndRun, RunPart, SchedulerTyped

LEMMA RequestTyped ==
  ASSUME TaskInv, NEW m \in TeamMembers, RequestCancellation(m)
  PROVE  /\ rstate' \in [TeamMembers -> {"none", "queued", "running", "cancelling", "recoverable"}]
         /\ rtask' \in [TeamMembers -> SUBSET TeamTaskIds]
         /\ smine' \in [Schedulers -> BOOLEAN]
  <1>1. CASE rstate[m] \in {"queued", "recoverable"}
    BY <1>1, EndRunTyped DEF RequestCancellation
  <1>2. CASE rstate[m] = "running"
    <2>1. rstate' = [rstate EXCEPT ![m] = "cancelling"] /\ UNCHANGED <<rtask, smine>>
      BY <1>2 DEF RequestCancellation
    <2> QED BY <2>1, Typing DEF RunPart, SchedulerTyped
  <1>3. CASE rstate[m] \notin {"queued", "recoverable", "running"}
    <2>1. UNCHANGED <<runVars, smine>> BY <1>3, Zenon DEF RequestCancellation
    <2> QED BY <2>1, Typing DEF RunPart, SchedulerTyped, runVars
  <1> QED BY <1>1, <1>2, <1>3

\* Nothing is written, and no copy becomes stale.
LEMMA LeaveTasksWritesNothing ==
  ASSUME TaskInv, UNCHANGED ledgerVars PROVE LedgerWritten({})
  BY Typing DEF LedgerWritten, LedgerTyped, ledgerVars

LEMMA SetStatusWrites ==
  ASSUME TaskInv, NEW ts \in SUBSET TeamTaskIds, NEW st \in TaskStates \ {"absent"},
         SetStatus(ts, st), \A t \in ts : tstatus[t] \in Open,
         st = "running" => \A t \in ts : DependenciesAccepted(t)
  PROVE  LedgerWritten(ts)
  <1>1. LedgerTyped'
    <2>1. \A t \in TeamTaskIds : tmanual'[t] = (tmanual[t] /\ t \notin ts) BY DEF SetStatus
    <2>2. \A t \in TeamTaskIds : tstatus'[t] = IF t \in ts THEN st ELSE tstatus[t]
      BY DEF SetStatus
    <2>3. ASSUME NEW t \in TeamTaskIds, tmanual'[t] PROVE tstatus'[t] = "waiting"
      BY <2>1, <2>2, <2>3, Typing DEF LedgerTyped
    <2>4. tmanual' \in [TeamTaskIds -> BOOLEAN] BY Typing DEF SetStatus, LedgerTyped
    <2>5. tstatus' \in [TeamTaskIds -> TaskStates] BY Typing DEF SetStatus, LedgerTyped
    <2> QED BY <2>3, <2>4, <2>5, Typing DEF SetStatus, LedgerTyped
  <1> QED BY <1>1, Typing DEF SetStatus, LedgerWritten, LedgerTyped

\* Schedulers in flight while the tasks ts are touched.
LEMMA SchedulersTouched ==
  ASSUME TaskInv, NEW ts \in SUBSET TeamTaskIds, Touch(ts), UNCHANGED schedVars,
         smine' \in [Schedulers -> BOOLEAN]
  PROVE  SchedulersAfter(ts)
  <1>1. SchedulerTyped' BY Typing DEF Touch, SchedulerTyped, schedVars
  <1>2. \A s \in Schedulers : sfresh'[s] = (sfresh[s] /\ stask[s] \cap ts = {}) BY DEF Touch
  <1> QED BY <1>1, <1>2 DEF SchedulersAfter, Choosing, schedVars

LEMMA EditorsTouched ==
  ASSUME TaskInv, NEW ts \in SUBSET TeamTaskIds, Touch(ts), UNCHANGED editorVars
  PROVE  EditorsAfter(ts)
  <1>1. EditorTyped' BY Typing DEF Touch, EditorTyped, editorVars
  <1>2. \A e \in Editors : efresh'[e] = (efresh[e] /\ edit[e].task \notin ts) BY DEF Touch
  <1> QED BY <1>1, <1>2 DEF EditorsAfter, editorVars

LEMMA SchedulersLeft ==
  ASSUME TaskInv, UNCHANGED <<schedVars, sfresh>>, smine' \in [Schedulers -> BOOLEAN]
  PROVE  SchedulersAfter({})
  BY Typing DEF SchedulersAfter, SchedulerTyped, Choosing, schedVars

LEMMA EditorsLeft == ASSUME TaskInv, UNCHANGED <<editorVars, efresh>> PROVE EditorsAfter({})
  BY Typing DEF EditorsAfter, EditorTyped, editorVars

\* A step of a scheduler that leaves the ledger.
LEMMA SchedulerSteps ==
  ASSUME TaskInv, LeaveTasks, UNCHANGED editorVars, NEW s \in Schedulers,
         smine' \in [Schedulers -> BOOLEAN],
         \/ StopScheduling(s)
         \/ /\ splace[s] = "chosen" /\ splace' = [splace EXCEPT ![s] = "created"]
            /\ UNCHANGED <<smember, stask, sseen>>
         \/ /\ splace' = [splace EXCEPT ![s] = "retire"] /\ UNCHANGED <<smember, stask, sseen>>
  PROVE  Moves({})
  <1>1. SchedulerTyped' BY Typing DEF SchedulerTyped, StopScheduling, LeaveTasks
  <1>2. ASSUME NEW z \in Schedulers, Choosing(z)' PROVE Choosing(z) /\ stask'[z] = stask[z]
    <2>1. CASE z = s BY <1>2, <2>1, Typing DEF SchedulerTyped, StopScheduling, Choosing
    <2>2. CASE z # s BY <1>2, <2>2, Typing DEF SchedulerTyped, StopScheduling, Choosing
    <2> QED BY <2>1, <2>2
  <1>3. SchedulersAfter({}) BY <1>1, <1>2 DEF SchedulersAfter, LeaveTasks
  <1> QED BY <1>3, LeaveTasksWritesNothing, EditorsLeft DEF Moves, LeaveTasks

-----------------------------------------------------------------------------
(* The edits of the ledger. *)

LEMMA NextTask ==
  ASSUME TaskInv, NEW n \in 0..MaxTasks, \A t \in TeamTaskIds : tstatus[t] # "absent" <=> t <= n
  PROVE  Cardinality({u \in TeamTaskIds : tstatus[u] # "absent"}) = n
  <1>1. {u \in TeamTaskIds : tstatus[u] # "absent"} = 1..n BY TaskAssumption DEF TeamTaskIds
  <1>2. Cardinality(1..n) = IF 1 > n THEN 0 ELSE n - 1 + 1 BY TaskAssumption, FS_Interval
  <1>3. Cardinality(1..n) = n BY <1>2, TaskAssumption
  <1> QED BY <1>1, <1>3, Zenon

LEMMA AssignTaskKeeps ==
  ASSUME TaskInv, NEW m \in TeamMembers, NEW D \in SUBSET TeamTaskIds, AssignTask(m, D)
  PROVE  Kept
  <1>1. PICK n \in 0..MaxTasks : \A t \in TeamTaskIds : tstatus[t] # "absent" <=> t <= n
    BY DEF TaskInv, LedgerPart, CreatedInOrder
  <1>2. PICK u : u = n + 1 OBVIOUS
  <1>3. u = Cardinality({t \in TeamTaskIds : tstatus[t] # "absent"}) + 1 BY <1>1, <1>2, NextTask
  <1>4. /\ u \in TeamTaskIds
        /\ tstatus' = [tstatus EXCEPT ![u] = "queued"]
        /\ towner' = [towner EXCEPT ![u] = m]
        /\ tdeps' = [tdeps EXCEPT ![u] = D]
        /\ UNCHANGED <<tmanual, schedVars, sfresh, smine, editorVars, efresh>>
    BY <1>3 DEF AssignTask
  <1>5. tstatus[u] = "absent" BY <1>1, <1>2, <1>4
  <1>6. ASSUME NEW t \in TeamTaskIds, t # u
        PROVE  tstatus'[t] = tstatus[t] /\ tdeps'[t] = tdeps[t]
    BY <1>4, <1>6, Typing DEF LedgerTyped
  <1>7. ASSUME NEW t \in TeamTaskIds, t # u, DependenciesAccepted(t)
        PROVE  DependenciesAccepted(t)'
    <2>1. \A d \in tdeps[t] : d \in TeamTaskIds /\ d # u
      BY <1>5, <1>7, Typing DEF DependenciesAccepted, LedgerTyped
    <2> QED BY <2>1, <1>6, <1>7 DEF DependenciesAccepted
  <1>8. LedgerPart'
    <2>1. LedgerTyped' BY <1>4, <1>5, Typing DEF LedgerTyped, TaskStates
    <2>2. CreatedInOrder'
      <3>1. u \in 0..MaxTasks BY <1>4, TaskAssumption DEF TeamTaskIds
      <3>2. ASSUME NEW t \in TeamTaskIds PROVE tstatus'[t] # "absent" <=> t <= u
        <4>1. CASE t = u BY <1>4, <4>1, <3>1, Typing DEF LedgerTyped
        <4>2. CASE t # u BY <1>1, <1>2, <1>6, <4>2 DEF TeamTaskIds
        <4> QED BY <4>1, <4>2
      <3> QED BY <3>1, <3>2 DEF CreatedInOrder
    <2>3. RunningMeetsDependencies'
      <3> SUFFICES ASSUME NEW t \in TeamTaskIds, tstatus'[t] = "running"
                   PROVE  DependenciesAccepted(t)'
        BY DEF RunningMeetsDependencies
      <3>1. t # u BY <1>4, Typing DEF LedgerTyped
      <3>2. tstatus[t] = "running" BY <1>6, <3>1
      <3> QED BY <3>1, <3>2, <1>7 DEF TaskInv, LedgerPart, RunningMeetsDependencies
    <2> QED BY <2>1, <2>2, <2>3 DEF LedgerPart
  <1>9. SchedulerPart'
    <2>1. SchedulerTyped' BY <1>4, Typing DEF SchedulerTyped, schedVars
    <2>2. ASSUME NEW s \in Schedulers, Choosing(s)', sfresh'[s], NEW t \in stask'[s]
          PROVE  Claimable(t)'
      <3>1. Claimable(t) /\ t \in TeamTaskIds
        BY <2>2, <1>4 DEF TaskInv, SchedulerPart, SchedulerTyped, schedVars, Choosing
      <3>2. t # u BY <3>1, <1>5 DEF Claimable
      <3> QED BY <3>1, <3>2, <1>6, <1>7 DEF Claimable
    <2> QED BY <2>1, <2>2 DEF SchedulerPart
  <1>10. EditorPart'
    <2>1. EditorTyped' BY <1>4, Typing DEF EditorTyped, editorVars
    <2>2. UNCHANGED <<eplace, edit, efresh>> BY <1>4 DEF editorVars
    <2>3. ASSUME NEW e \in Editors, eplace[e] = "decided", efresh[e]
          PROVE  tstatus'[edit[e].task] \in Open
      <3>1. tstatus[edit[e].task] \in Open /\ SoundEdit(edit[e]) BY <2>3 DEF TaskInv, EditorPart
      <3>2. edit[e].task \in TeamTaskIds BY <3>1 DEF SoundEdit, Edits
      <3>3. edit[e].task # u BY <3>1, <1>5 DEF Open
      <3> QED BY <3>1, <3>2, <3>3, <1>6
    <2> QED BY <2>1, <2>2, <2>3 DEF EditorPart, TaskInv, SoundEdit
  <1>11. LedgerStep
    <2>1. ASSUME NEW t \in TeamTaskIds
          PROVE  /\ tstatus[t] \in TerminalTask => tstatus'[t] = tstatus[t]
                 /\ tstatus[t] # "absent" => tstatus'[t] # "absent"
      <3>1. CASE t = u BY <1>5, <3>1 DEF TerminalTask
      <3>2. CASE t # u BY <1>6, <3>2
      <3> QED BY <3>1, <3>2
    <2> QED BY <2>1 DEF LedgerStep
  <1> QED BY <1>8, <1>9, <1>10, <1>11 DEF Kept

\* Whatever updateTask may decide for an open task is sound.
LEMMA DecisionsSound ==
  ASSUME TaskInv, NEW t \in TeamTaskIds, tstatus[t] \in Open,
         NEW u \in StatusEdits(t) \cup (IF tstatus[t] \in Editable
                                        THEN DependencyEdits(t) \cup OwnerEdits(t) ELSE {})
  PROVE  SoundEdit(u) /\ u.task = t
  <1>1. CASE u \in StatusEdits(t)
    <2>1. PICK st \in (TaskTransitions[tstatus[t]] \cup {tstatus[t]}) \ {"running", "submitted"} :
             u = [task |-> t, status |-> st, manual |-> st = "waiting", owner |-> towner[t],
                  deps |-> tdeps[t]]
      BY <1>1 DEF StatusEdits
    <2>2. TaskTransitions[tstatus[t]] \subseteq TaskStates \ {"absent", "running"}
      BY Typing, Zenon DEF LedgerTyped, TaskTransitions, TaskStates, Open, TerminalTask
    <2>3. st \in TaskStates /\ st \notin {"absent", "running"} BY <2>1, <2>2 DEF Open
    <2>4. (st = "waiting") \in BOOLEAN OBVIOUS
    <2> QED BY <2>1, <2>3, <2>4, Typing DEF SoundEdit, Edits, LedgerTyped
  <1>2. CASE tstatus[t] \in Editable /\ u \in DependencyEdits(t)
    <2>1. PICK D \in SUBSET TeamTaskIds :
             u = [task |-> t, owner |-> towner[t], deps |-> D, manual |-> tmanual[t],
                  status |-> StatusWith(t, D)]
      BY <1>2 DEF DependencyEdits
    <2>2. StatusWith(t, D) \in {tstatus[t], "waiting", "queued"} BY Zenon DEF StatusWith
    <2>3. tmanual[t] => StatusWith(t, D) = tstatus[t] BY Zenon DEF StatusWith
    <2>4. tmanual[t] => StatusWith(t, D) = "waiting" BY <2>3, Typing DEF LedgerTyped
    <2>5. StatusWith(t, D) \in TaskStates \ {"absent", "running"}
      BY <2>2, <1>2 DEF Editable, TaskStates
    <2>6. tmanual[t] \in BOOLEAN /\ towner[t] \in TeamMembers BY Typing DEF LedgerTyped
    <2>7. u \in Edits BY <2>1, <2>5, <2>6 DEF Edits
    <2>8. u.status = StatusWith(t, D) /\ u.manual = tmanual[t] /\ u.task = t BY <2>1
    <2> QED BY <2>4, <2>5, <2>7, <2>8 DEF SoundEdit
  <1>3. CASE u \in OwnerEdits(t)
    <2>1. PICK m \in TeamMembers :
             u = [task |-> t, owner |-> m, deps |-> tdeps[t], status |-> "queued", manual |-> FALSE]
      BY <1>3 DEF OwnerEdits
    <2>2. u \in Edits BY <2>1, Typing DEF Edits, TaskStates, LedgerTyped
    <2> QED BY <2>1, <2>2 DEF SoundEdit
  <1>4. CASE tstatus[t] \in Editable BY <1>1, <1>2, <1>3, <1>4
  <1>5. CASE tstatus[t] \notin Editable BY <1>1, <1>5
  <1> QED BY <1>4, <1>5

LEMMA UpdateReadKeeps ==
  ASSUME TaskInv, NEW e \in Editors, NEW t \in TeamTaskIds, UpdateRead(e, t) PROVE Kept
  <1>1. tstatus[t] \in Open BY Typing DEF UpdateRead, Open, LedgerTyped
  <1>2. PICK u \in StatusEdits(t) \cup (IF tstatus[t] \in Editable
                                        THEN DependencyEdits(t) \cup OwnerEdits(t) ELSE {}) :
           edit' = [edit EXCEPT ![e] = u]
    BY DEF UpdateRead
  <1>3. SoundEdit(u) /\ u.task = t BY <1>1, DecisionsSound
  <1>4. /\ eplace' = [eplace EXCEPT ![e] = "decided"] /\ efresh' = [efresh EXCEPT ![e] = TRUE]
        /\ UNCHANGED <<ledgerVars, schedVars, sfresh, smine, emember>>
    BY DEF UpdateRead
  <1>5. EditorTyped' BY <1>2, <1>3, <1>4, Typing DEF EditorTyped, SoundEdit
  <1>6. ASSUME NEW z \in Editors
        PROVE  /\ eplace'[z] \in {"decided", "cancelled"} => SoundEdit(edit'[z])
               /\ eplace'[z] = "decided" /\ efresh'[z] => tstatus[edit'[z].task] \in Open
    <2>1. CASE z = e BY <1>1, <1>2, <1>3, <1>4, <2>1, Typing DEF EditorTyped
    <2>2. CASE z # e
      <3>1. eplace'[z] = eplace[z] /\ edit'[z] = edit[z] /\ efresh'[z] = efresh[z]
        BY <1>2, <1>4, <2>2, Typing DEF EditorTyped
      <3> QED BY <3>1 DEF TaskInv, EditorPart
    <2> QED BY <2>1, <2>2
  <1>7. EditorPart' BY <1>4, <1>5, <1>6 DEF EditorPart, SoundEdit, ledgerVars
  <1>8. SchedulersAfter({}) BY <1>4, Typing, SchedulersLeft DEF SchedulerTyped
  <1>9. LedgerWritten({}) BY <1>4, LeaveTasksWritesNothing
  <1> QED BY <1>7, <1>8, <1>9, LedgerKept, SchedulersKept DEF Kept

\* An editor goes on to a place where it holds no decision.
LEMMA EditorSteps ==
  ASSUME TaskInv, NEW ts, NEW e \in Editors,
         NEW next \in {"idle", "interrupt", "close", "interrupted", "closed"},
         eplace' = [eplace EXCEPT ![e] = next], edit' \in {edit, [edit EXCEPT ![e] = NoEdit]},
         emember' \in [Editors -> TeamMembers], efresh' \in [Editors -> BOOLEAN],
         \A z \in Editors : efresh'[z] => efresh[z] /\ edit[z].task \notin ts
  PROVE  EditorsAfter(ts)
  <1>1. EditorTyped' BY Typing DEF EditorTyped
  <1>2. ASSUME NEW z \in Editors, eplace'[z] \in {"decided", "cancelled"}
        PROVE  eplace[z] = eplace'[z] /\ edit'[z] = edit[z]
    BY <1>2, Typing DEF EditorTyped
  <1> QED BY <1>1, <1>2 DEF EditorsAfter

\* The same, when nothing is written.
LEMMA EditorOnly ==
  ASSUME TaskInv, NEW e \in Editors,
         NEW next \in {"idle", "interrupt", "close", "interrupted", "closed"},
         eplace' = [eplace EXCEPT ![e] = next], edit' \in {edit, [edit EXCEPT ![e] = NoEdit]},
         emember' \in [Editors -> TeamMembers], UNCHANGED <<ledgerVars, schedVars, sfresh, efresh>>,
         smine' \in [Schedulers -> BOOLEAN]
  PROVE  \E ts : Moves(ts)
  <1>1. \A z \in Editors : efresh'[z] => efresh[z] /\ edit[z].task \notin {} OBVIOUS
  <1>2. efresh' \in [Editors -> BOOLEAN] BY Typing DEF EditorTyped
  <1>3. EditorsAfter({}) BY <1>1, <1>2, EditorSteps
  <1>4. SchedulersAfter({}) BY SchedulersLeft
  <1> QED BY <1>3, <1>4, LeaveTasksWritesNothing DEF Moves

LEMMA UpdateWriteMoves ==
  ASSUME TaskInv, NEW e \in Editors, UpdateWrite(e) PROVE \E ts : Moves(ts)
  <1>1. PICK u : u = edit[e] OBVIOUS
  <1>2. SoundEdit(u) BY <1>1 DEF UpdateWrite, TaskInv, EditorPart
  <1>3. /\ u.task \in TeamTaskIds /\ u.status \in TaskStates /\ u.manual \in BOOLEAN
        /\ u.owner \in TeamMembers /\ u.deps \in SUBSET TeamTaskIds
    BY <1>2 DEF SoundEdit, Edits
  <1>4. eplace[e] = "decided" /\ UNCHANGED <<schedVars, smine, emember>> BY DEF UpdateWrite
  <1>5. CASE EditApplies(e)
    <2>1. /\ tstatus' = [tstatus EXCEPT ![u.task] = u.status]
          /\ tmanual' = [tmanual EXCEPT ![u.task] = u.manual]
          /\ towner' = [towner EXCEPT ![u.task] = u.owner]
          /\ tdeps' = [tdeps EXCEPT ![u.task] = u.deps]
          /\ Touch({u.task})
          /\ eplace' = [eplace EXCEPT ![e] = IF u.status = "cancelled" THEN "cancelled" ELSE "idle"]
          /\ edit' = IF u.status = "cancelled" THEN edit ELSE [edit EXCEPT ![e] = NoEdit]
      BY <1>1, <1>5 DEF UpdateWrite
    <2>2. tstatus[u.task] \in Open BY <1>1, <1>4, <1>5 DEF TaskInv, EditorPart, EditApplies
    <2>3. LedgerTyped'
      <3>1. /\ tstatus' \in [TeamTaskIds -> TaskStates] /\ tmanual' \in [TeamTaskIds -> BOOLEAN]
            /\ towner' \in [TeamTaskIds -> TeamMembers]
            /\ tdeps' \in [TeamTaskIds -> SUBSET TeamTaskIds]
        BY <1>3, <2>1, Typing DEF LedgerTyped
      <3>2. ASSUME NEW t \in TeamTaskIds, tmanual'[t] PROVE tstatus'[t] = "waiting"
        <4>1. CASE t = u.task BY <1>2, <1>3, <2>1, <3>2, <4>1, Typing DEF LedgerTyped, SoundEdit
        <4>2. CASE t # u.task BY <2>1, <3>2, <4>2, Typing DEF LedgerTyped
        <4> QED BY <4>1, <4>2
      <3> QED BY <3>1, <3>2 DEF LedgerTyped
    <2>4. LedgerWritten({u.task})
      <3>1. tstatus'[u.task] \notin {"absent", "running"}
        BY <1>2, <1>3, <2>1, Typing DEF LedgerTyped, SoundEdit
      <3>2. ASSUME NEW t \in TeamTaskIds \ {u.task}
            PROVE  tstatus'[t] = tstatus[t] /\ tdeps'[t] = tdeps[t]
        BY <2>1, Typing DEF LedgerTyped
      <3> QED BY <1>3, <2>2, <2>3, <3>1, <3>2 DEF LedgerWritten
    <2>5. SchedulersAfter({u.task})
      BY <1>3, <1>4, <2>1, Typing, SchedulersTouched DEF SchedulerTyped
    <2>6. EditorsAfter({u.task})
      <3>1. \/ eplace' = [eplace EXCEPT ![e] = "cancelled"] /\ edit' = edit
            \/ eplace' = [eplace EXCEPT ![e] = "idle"] /\ edit' = [edit EXCEPT ![e] = NoEdit]
        BY <2>1
      <3>2. efresh' \in [Editors -> BOOLEAN] BY <2>1, Typing DEF Touch
      <3>3. EditorTyped' BY <1>4, <3>1, <3>2, Typing DEF EditorTyped
      <3>4. \A z \in Editors : efresh'[z] = (efresh[z] /\ edit[z].task \notin {u.task})
        BY <2>1 DEF Touch
      <3>5. ASSUME NEW z \in Editors
            PROVE  /\ eplace'[z] \in {"decided", "cancelled"}
                         => eplace[z] \in {"decided", "cancelled"} /\ edit'[z] = edit[z]
                   /\ eplace'[z] = "decided" => eplace[z] = "decided"
        <4>1. CASE z = e BY <1>4, <3>1, <4>1, Typing DEF EditorTyped
        <4>2. CASE z # e BY <3>1, <4>2, Typing DEF EditorTyped
        <4> QED BY <4>1, <4>2
      <3> QED BY <3>3, <3>4, <3>5 DEF EditorsAfter
    <2> QED BY <2>4, <2>5, <2>6 DEF Moves
  <1>6. CASE ~EditApplies(e)
    <2>1. /\ eplace' = [eplace EXCEPT ![e] = "idle"] /\ edit' = [edit EXCEPT ![e] = NoEdit]
          /\ LeaveTasks
      BY <1>6 DEF UpdateWrite
    <2> QED BY <1>4, <2>1, Typing, EditorOnly DEF LeaveTasks, SchedulerTyped, EditorTyped
  <1> QED BY <1>5, <1>6

LEMMA EditorsMove ==
  ASSUME TaskInv, NEW e \in Editors,
         \/ CancelRunOfTask(e)
         \/ \E m \in TeamMembers : ManageAgent(e, m)
         \/ RevokeAgent(e) \/ SettleTasksOfAgent(e)
  PROVE  \E ts : Moves(ts)
  <1>1. ASSUME CancelRunOfTask(e) PROVE \E ts : Moves(ts)
    <2>1. PICK m : m = towner[edit[e].task] OBVIOUS
    <2>2. SoundEdit(edit[e]) BY <1>1 DEF CancelRunOfTask, TaskInv, EditorPart
    <2>3. m \in TeamMembers BY <2>1, <2>2, Typing DEF SoundEdit, Edits, LedgerTyped
    <2>4. RequestCancellation(m) \/ UNCHANGED <<runVars, smine>> BY <1>1, <2>1 DEF CancelRunOfTask
    <2>5. smine' \in [Schedulers -> BOOLEAN] BY <2>3, <2>4, RequestTyped, Typing DEF SchedulerTyped
    <2> QED BY <1>1, <2>5, EditorOnly, Typing DEF CancelRunOfTask, EditorTyped
  <1>2. ASSUME NEW m \in TeamMembers, ManageAgent(e, m) PROVE \E ts : Moves(ts)
    BY <1>2, EditorOnly, Typing DEF ManageAgent, EditorTyped, SchedulerTyped
  <1>3. ASSUME RevokeAgent(e) PROVE \E ts : Moves(ts)
    <2>1. emember[e] \in TeamMembers BY Typing DEF EditorTyped
    <2>2. smine' \in [Schedulers -> BOOLEAN] BY <1>3, <2>1, RequestTyped DEF RevokeAgent
    <2>3. \E next \in {"interrupted", "closed"} : eplace' = [eplace EXCEPT ![e] = next]
      BY <1>3 DEF RevokeAgent
    <2> QED BY <1>3, <2>2, <2>3, EditorOnly, Typing DEF RevokeAgent, EditorTyped
  <1>4. ASSUME SettleTasksOfAgent(e) PROVE \E ts : Moves(ts)
    <2>1. PICK sts \in SUBSET {"queued", "running", "waiting", "rework"}, st \in {"rework", "cancelled"} :
             SetStatus({t \in TeamTaskIds : towner[t] = emember[e] /\ tstatus[t] \in sts}, st)
      BY <1>4 DEF SettleTasksOfAgent
    <2>2. PICK ts : ts = {t \in TeamTaskIds : towner[t] = emember[e] /\ tstatus[t] \in sts} OBVIOUS
    <2>3. ts \in SUBSET TeamTaskIds /\ SetStatus(ts, st) /\ Touch(ts)
      BY <2>1, <2>2 DEF SetStatus
    <2>4. \A t \in ts : tstatus[t] \in Open BY <2>2 DEF Open, TaskStates, TerminalTask
    <2>5. LedgerWritten(ts) BY <2>3, <2>4, SetStatusWrites DEF TaskStates
    <2>6. SchedulersAfter(ts)
      BY <1>4, <2>3, SchedulersTouched, Typing DEF SettleTasksOfAgent, SchedulerTyped
    <2>7. efresh' \in [Editors -> BOOLEAN] /\ \A z \in Editors : efresh'[z] => efresh[z] /\ edit[z].task \notin ts
      BY <2>3, Typing DEF Touch, EditorTyped
    <2>8. /\ eplace' = [eplace EXCEPT ![e] = "idle"] /\ UNCHANGED <<emember, edit>>
      BY <1>4 DEF SettleTasksOfAgent
    <2>9. EditorsAfter(ts) BY <2>7, <2>8, EditorSteps, Typing DEF EditorTyped
    <2> QED BY <2>5, <2>6, <2>9 DEF Moves
  <1> QED BY <1>1, <1>2, <1>3, <1>4

-----------------------------------------------------------------------------
(* The schedulers, and the members' runs. *)

LEMMA SetStatusMoves ==
  ASSUME TaskInv, NEW ts \in SUBSET TeamTaskIds, NEW st \in TaskStates \ {"absent", "running"},
         SetStatus(ts, st), \A t \in ts : tstatus[t] \in Open,
         UNCHANGED <<schedVars, smine, editorVars>>
  PROVE  \E z : Moves(z)
  <1>1. Touch(ts) BY DEF SetStatus
  <1>2. LedgerWritten(ts) BY SetStatusWrites
  <1>3. SchedulersAfter(ts) BY <1>1, SchedulersTouched, Typing DEF SchedulerTyped
  <1>4. EditorsAfter(ts) BY <1>1, EditorsTouched
  <1> QED BY <1>2, <1>3, <1>4 DEF Moves

LEMMA NothingMoves ==
  ASSUME TaskInv, UNCHANGED <<ledgerVars, schedVars, sfresh, editorVars, efresh>>,
         smine' \in [Schedulers -> BOOLEAN]
  PROVE  \E ts : Moves(ts)
  BY LeaveTasksWritesNothing, SchedulersLeft, EditorsLeft DEF Moves

LEMMA SchedulersMove ==
  ASSUME TaskInv, NEW s \in Schedulers,
         CreateTaskRun(s) \/ ClaimTask(s) \/ RetireRun(s) \/ CrashScheduler(s)
  PROVE  \E ts : Moves(ts)
  <1>1. ASSUME CreateTaskRun(s) PROVE \E ts : Moves(ts)
    <2>1. CASE rstate[smember[s]] = "none"
      <3>1. smine' \in [Schedulers -> BOOLEAN]
        BY <1>1, <2>1, Typing DEF CreateTaskRun, SchedulerTyped
      <3> QED BY <1>1, <2>1, <3>1, SchedulerSteps DEF CreateTaskRun
    <2>2. CASE rstate[smember[s]] # "none"
      <3>1. UNCHANGED smine BY <1>1, <2>2 DEF CreateTaskRun
      <3>2. smine' \in [Schedulers -> BOOLEAN] BY <3>1, Typing DEF SchedulerTyped
      <3> QED BY <1>1, <2>2, <3>2, SchedulerSteps DEF CreateTaskRun
    <2> QED BY <2>1, <2>2
  <1>2. ASSUME ClaimTask(s) PROVE \E ts : Moves(ts)
    <2>1. smine' \in [Schedulers -> BOOLEAN] BY <1>2, Typing DEF ClaimTask, SchedulerTyped
    <2>2. CASE ClaimApplies(s)
      <3>1. PICK ts : ts = stask[s] OBVIOUS
      <3>2. /\ splace[s] = "created" /\ SetStatus(ts, "running") /\ StopScheduling(s)
            /\ UNCHANGED editorVars
        BY <1>2, <2>2, <3>1 DEF ClaimTask
      <3>3. ts \in SUBSET TeamTaskIds BY <3>1, Typing DEF SchedulerTyped
      <3>4. \A t \in ts : Claimable(t)
        BY <2>2, <3>1, <3>2 DEF TaskInv, SchedulerPart, Choosing, ClaimApplies
      <3>5. \A t \in ts : tstatus[t] \in Open
        BY <3>4 DEF Claimable, Open, TaskStates, TerminalTask
      <3>6. LedgerWritten(ts)
        BY <3>2, <3>3, <3>4, <3>5, SetStatusWrites DEF Claimable, TaskStates
      <3>7. Touch(ts) BY <3>2 DEF SetStatus
      <3>8. SchedulerTyped' BY <2>1, <3>2, <3>7, Typing DEF SchedulerTyped, StopScheduling, Touch
      <3>9. ASSUME NEW z \in Schedulers, Choosing(z)' PROVE Choosing(z) /\ stask'[z] = stask[z]
        <4>1. CASE z = s BY <3>2, <3>9, <4>1, Typing DEF SchedulerTyped, StopScheduling, Choosing
        <4>2. CASE z # s BY <3>2, <3>9, <4>2, Typing DEF SchedulerTyped, StopScheduling, Choosing
        <4> QED BY <4>1, <4>2
      <3>10. \A z \in Schedulers : sfresh'[z] = (sfresh[z] /\ stask[z] \cap ts = {})
        BY <3>7 DEF Touch
      <3>11. SchedulersAfter(ts) BY <3>8, <3>9, <3>10 DEF SchedulersAfter
      <3>12. EditorsAfter(ts) BY <3>2, <3>3, <3>7, EditorsTouched
      <3> QED BY <3>6, <3>11, <3>12 DEF Moves
    <2>3. CASE ~ClaimApplies(s)
      BY <1>2, <2>1, <2>3, SchedulerSteps DEF ClaimTask
    <2> QED BY <2>2, <2>3
  <1>3. ASSUME RetireRun(s) PROVE \E ts : Moves(ts)
    <2>1. smember[s] \in TeamMembers BY Typing DEF SchedulerTyped
    <2>2. RequestCancellation(smember[s]) \/ UNCHANGED <<runVars, smine>> BY <1>3 DEF RetireRun
    <2>3. smine' \in [Schedulers -> BOOLEAN] BY <2>1, <2>2, RequestTyped, Typing DEF SchedulerTyped
    <2> QED BY <1>3, <2>3, SchedulerSteps DEF RetireRun
  <1>4. ASSUME CrashScheduler(s) PROVE \E ts : Moves(ts)
    <2>1. smine' \in [Schedulers -> BOOLEAN] BY <1>4, Typing DEF CrashScheduler, SchedulerTyped
    <2> QED BY <1>4, <2>1, SchedulerSteps DEF CrashScheduler
  <1> QED BY <1>1, <1>2, <1>3, <1>4

LEMMA MembersMove ==
  ASSUME TaskInv, NEW m \in TeamMembers,
         \/ ReopenAgent(m) \/ WakeMember(m) \/ FailRun(m) \/ CrashExecutor(m) \/ InterruptProcess(m)
         \/ RunProgress(m)
  PROVE  \E ts : Moves(ts)
  <1> DEFINE Goal == \E ts : Moves(ts)
  <1>1. smine \in [Schedulers -> BOOLEAN] BY Typing DEF SchedulerTyped
  <1>2. CASE ReopenAgent(m)
    <2>1. smine' \in [Schedulers -> BOOLEAN] BY <1>2, EndRunTyped DEF ReopenAgent
    <2> QED BY <1>2, <2>1, NothingMoves DEF ReopenAgent
  <1>3. CASE StartRun(m)
    <2>1. EndRun(m) \/ UNCHANGED smine BY <1>3 DEF StartRun, executorVars
    <2>2. smine' \in [Schedulers -> BOOLEAN] BY <1>1, <2>1, EndRunTyped
    <2> QED BY <1>3, <2>2, NothingMoves DEF StartRun, LeaveTasks
  <1>4. CASE LoadRun(m)
    <2>1. EndRun(m) \/ UNCHANGED smine BY <1>4 DEF LoadRun
    <2>2. smine' \in [Schedulers -> BOOLEAN] BY <1>1, <2>1, EndRunTyped
    <2> QED BY <1>4, <2>2, NothingMoves DEF LoadRun, LeaveTasks
  <1>5. CASE CompleteRun(m) \/ FailRun(m)
    <2>1. \E next : FinishRun(m, next) BY <1>5 DEF CompleteRun, FailRun
    <2>2. smine' \in [Schedulers -> BOOLEAN] BY <2>1, EndRunTyped DEF FinishRun
    <2> QED BY <2>1, <2>2, NothingMoves DEF FinishRun, LeaveTasks
  <1>6. CASE ExpireRun(m)
    <2>1. EndRun(m) \/ UNCHANGED smine BY <1>6, Zenon DEF ExpireRun
    <2>2. smine' \in [Schedulers -> BOOLEAN] BY <1>1, <2>1, EndRunTyped
    <2>3. LeaveTasks /\ UNCHANGED <<schedVars, editorVars>> BY <1>6, Zenon DEF ExpireRun
    <2> QED BY <2>2, <2>3, NothingMoves DEF LeaveTasks
  <1>7. CASE SubmitTask(m)
    <2>1. PICK outcome \in {"submitted", "failed"} :
             SetStatus({t \in rctx[m] : Submittable(t)}, outcome)
      BY <1>7 DEF SubmitTask
    <2>2. PICK ts : ts = {t \in rctx[m] : Submittable(t)} /\ SetStatus(ts, outcome) BY <2>1
    <2>3. ts \in SUBSET TeamTaskIds BY <2>2, Typing DEF ExecutorPart
    <2>4. ASSUME NEW t \in ts PROVE tstatus[t] \in Open
      <3>1. t \in rctx[m] /\ tstatus[t] \notin TerminalTask BY <2>2 DEF Submittable
      <3>2. tstatus[t] # "absent" BY <3>1, Typing DEF ExecutorPart
      <3> QED BY <2>3, <3>1, <3>2, Typing DEF LedgerTyped, Open
    <2> QED BY <1>7, <2>2, <2>3, <2>4, SetStatusMoves DEF SubmitTask, TaskStates
  <1>8. CASE MarkTaskFailed(m)
    <2>1. PICK ts : /\ ts = {t \in rctx[m] : tstatus[t] \in {"queued", "running", "waiting", "rework"}}
                    /\ SetStatus(ts, "failed")
      BY <1>8 DEF MarkTaskFailed
    <2>2. ts \in SUBSET TeamTaskIds BY <2>1, Typing DEF ExecutorPart
    <2>3. \A t \in ts : tstatus[t] \in Open BY <2>1 DEF Open, TaskStates, TerminalTask
    <2> QED BY <1>8, <2>1, <2>2, <2>3, SetStatusMoves DEF MarkTaskFailed, TaskStates
  <1>9. CASE \/ WakeMember(m) \/ ReadForSubmit(m) \/ ReleaseLeases(m) \/ StopRun(m)
             \/ DetachRun(m) \/ RequeueRun(m) \/ CrashExecutor(m) \/ InterruptProcess(m)
    <2>1. LeaveTasks /\ UNCHANGED <<schedVars, smine, editorVars>>
      BY <1>9 DEF WakeMember, ReadForSubmit, ReleaseLeases, StopRun, DetachRun, RequeueRun,
                  CrashExecutor, InterruptProcess, LeaveRun
    <2> QED BY <1>1, <2>1, NothingMoves DEF LeaveTasks
  <1> QED BY <1>2, <1>3, <1>4, <1>5, <1>6, <1>7, <1>8, <1>9 DEF RunProgress

LEMMA TasksMove ==
  ASSUME TaskInv, NEW t \in TeamTaskIds,
         ResumeByMessage(t) \/ \E decision \in {"accepted", "rework"} : ReviewResult(t, decision)
  PROVE  \E ts : Moves(ts)
  <1>1. CASE ResumeByMessage(t)
    <2>1. SetStatus({t}, "queued") /\ tstatus[t] \in Open
      BY <1>1 DEF ResumeByMessage, Open, TaskStates, TerminalTask
    <2> QED BY <1>1, <2>1, SetStatusMoves DEF ResumeByMessage, TaskStates
  <1>2. CASE \E decision \in {"accepted", "rework"} : ReviewResult(t, decision)
    <2>1. PICK decision \in {"accepted", "rework"} : ReviewResult(t, decision) BY <1>2
    <2>2. SetStatus({t}, decision) /\ tstatus[t] \in Open
      BY <2>1 DEF ReviewResult, Open, TaskStates, TerminalTask
    <2> QED BY <2>1, <2>2, SetStatusMoves DEF ReviewResult, TaskStates
  <1> QED BY <1>1, <1>2

\* The scheduler's candidates have an oldest one.
LEMMA Oldest ==
  ASSUME NEW S \in SUBSET TeamTaskIds, S # {}
  PROVE  \E u \in S : \A v \in S : u <= v
  <1> DEFINE UpTo(u) == {v \in S : v <= u}
             Parts == {UpTo(u) : u \in S}
  <1>1. IsFiniteSet(S)
    <2>1. IsFiniteSet(1..MaxTasks) BY FS_Interval, TaskAssumption
    <2> QED BY <2>1, FS_Subset DEF TeamTaskIds
  <1>2. Parts \subseteq FiniteSubsetsOf(S) BY <1>1, FS_Subset DEF FiniteSubsetsOf
  <1>3. Parts # {}
    <2>1. PICK u \in S : TRUE OBVIOUS
    <2>2. UpTo(u) \in Parts OBVIOUS
    <2> QED BY <2>2
  <1>4. PICK X \in Parts : \A Y \in Parts : ~(<<Y, X>> \in StrictSubsetOrdering(S))
    <2> HIDE DEF Parts
    <2> QED BY <1>2, <1>3, FS_StrictSubsetOrderingWellFounded, WFMin
  <1>5. PICK u \in S : X = UpTo(u) OBVIOUS
  <1>6. ASSUME NEW v \in S, ~(u <= v) PROVE FALSE
    <2>1. u \in Int /\ v \in Int /\ \A w \in S : w \in Int BY TaskAssumption DEF TeamTaskIds
    <2>2. ASSUME NEW w \in UpTo(v) PROVE w \in UpTo(u)
      <3>1. w \in S /\ w <= v OBVIOUS
      <3>2. w <= u BY <1>6, <2>1, <3>1
      <3> QED BY <3>1, <3>2
    <2>3. u \in UpTo(u) /\ u \notin UpTo(v) BY <1>6, <2>1
    <2>4. <<UpTo(v), UpTo(u)>> \in StrictSubsetOrdering(S) BY <2>2, <2>3 DEF StrictSubsetOrdering
    <2> QED BY <2>4, <1>4, <1>5
  <1> QED BY <1>6

LEMMA ScheduleBeginKeeps ==
  ASSUME TaskInv, NEW s \in Schedulers, NEW m \in TeamMembers, NEW among \in SUBSET Candidates(m),
         ScheduleBegin(s, m, among)
  PROVE  Kept
  <1>1. PICK ready : ready = {t \in among : DependenciesAccepted(t)} OBVIOUS
  <1>2. PICK Before :
           Before = {t \in among : tstatus[t] # "waiting" /\ \A u \in ready : t < u}
    OBVIOUS
  <1>3. /\ splace[s] = "idle"
        /\ tstatus' = [t \in TeamTaskIds |-> IF t \in Before THEN "waiting" ELSE tstatus[t]]
        /\ efresh' = [e \in Editors |-> efresh[e] /\ edit[e].task \notin Before]
        /\ UNCHANGED <<tmanual, tdeps, towner, editorVars>>
        /\ IF ready = {}
           THEN sfresh' = [z \in Schedulers |-> sfresh[z] /\ stask[z] \cap Before = {}]
                /\ UNCHANGED <<schedVars, smine>>
           ELSE LET t == CHOOSE u \in ready : \A v \in ready : u <= v
                IN  /\ splace' = [splace EXCEPT ![s] = "chosen"]
                    /\ smember' = [smember EXCEPT ![s] = m]
                    /\ stask' = [stask EXCEPT ![s] = {t}]
                    /\ sseen' = [sseen EXCEPT ![s] = tstatus[t]]
                    /\ sfresh' = [z \in Schedulers |-> z = s \/ (sfresh[z] /\ stask[z] \cap Before = {})]
                    /\ smine' = [smine EXCEPT ![s] = FALSE]
    BY <1>1, <1>2 DEF ScheduleBegin
  <1>4. \A t \in among : t \in TeamTaskIds /\ tstatus[t] \in {"queued", "rework", "waiting"}
    BY DEF Candidates
  <1>5. LedgerWritten(Before)
    <2>1. Before \subseteq TeamTaskIds /\ \A t \in Before : tstatus[t] \in Open
      BY <1>2, <1>4 DEF Open, TaskStates, TerminalTask
    <2>2. LedgerTyped' BY <1>3, Typing DEF LedgerTyped, TaskStates
    <2> QED BY <1>3, <2>1, <2>2 DEF LedgerWritten
  <1>6. EditorsAfter(Before)
    <2>1. EditorTyped' BY <1>3, Typing DEF EditorTyped, editorVars
    <2>2. \A e \in Editors : efresh'[e] = (efresh[e] /\ edit[e].task \notin Before) BY <1>3
    <2> QED BY <1>3, <2>1, <2>2 DEF EditorsAfter, editorVars
  <1>7. SchedulerPart'
    <2>1. CASE ready = {}
      <3>1. SchedulerTyped' BY <1>3, <2>1, Typing DEF SchedulerTyped, schedVars
      <3>2. \A z \in Schedulers : sfresh'[z] = (sfresh[z] /\ stask[z] \cap Before = {})
        BY <1>3, <2>1
      <3>3. SchedulersAfter(Before)
        BY <1>3, <2>1, <3>1, <3>2 DEF SchedulersAfter, Choosing, schedVars
      <3> QED BY <1>5, <3>3, SchedulersKept
    <2>2. CASE ready # {}
      <3>1. PICK t : t = CHOOSE u \in ready : \A v \in ready : u <= v OBVIOUS
      <3>2. ready \in SUBSET TeamTaskIds BY <1>1, <1>4
      <3>3. t \in ready BY <2>2, <3>1, <3>2, Oldest
      <3>4. /\ splace' = [splace EXCEPT ![s] = "chosen"]
            /\ smember' = [smember EXCEPT ![s] = m]
            /\ stask' = [stask EXCEPT ![s] = {t}]
            /\ sseen' = [sseen EXCEPT ![s] = tstatus[t]]
            /\ sfresh' = [z \in Schedulers |-> z = s \/ (sfresh[z] /\ stask[z] \cap Before = {})]
            /\ smine' = [smine EXCEPT ![s] = FALSE]
        BY <1>3, <2>2, <3>1
      <3>5. t \in TeamTaskIds /\ t \notin Before /\ Claimable(t)
        <4>1. t \in TeamTaskIds /\ t \in among /\ DependenciesAccepted(t) BY <1>1, <3>2, <3>3
        <4>2. ~(t < t) BY <4>1, TaskAssumption DEF TeamTaskIds
        <4> QED BY <1>2, <1>4, <3>3, <4>1, <4>2 DEF Claimable
      <3>6. SchedulerTyped' BY <3>4, <3>5, Typing DEF SchedulerTyped, LedgerTyped
      <3>7. ASSUME NEW z \in Schedulers, Choosing(z)', sfresh'[z], NEW u \in stask'[z]
            PROVE  Claimable(u) /\ u \in TeamTaskIds /\ u \notin Before
        <4>1. CASE z = s BY <3>4, <3>5, <3>7, <4>1, Typing DEF SchedulerTyped
        <4>2. CASE z # s
          <5>1. splace'[z] = splace[z] /\ stask'[z] = stask[z] BY <3>4, <4>2, Typing DEF SchedulerTyped
          <5>2. sfresh[z] /\ stask[z] \cap Before = {} BY <3>4, <3>7, <4>2
          <5>3. Choosing(z) BY <3>7, <5>1 DEF Choosing
          <5> QED BY <3>7, <5>1, <5>2, <5>3, Typing DEF TaskInv, SchedulerPart, SchedulerTyped
        <4> QED BY <4>1, <4>2
      <3>8. ASSUME NEW u \in TeamTaskIds, Claimable(u), u \notin Before PROVE Claimable(u)'
        <4>1. tstatus'[u] = tstatus[u] /\ tdeps'[u] = tdeps[u] BY <1>3, <3>8
        <4> QED BY <3>8, <4>1, <1>5, AcceptedStays DEF Claimable
      <3> QED BY <3>6, <3>7, <3>8 DEF SchedulerPart
    <2> QED BY <2>1, <2>2
  <1> QED BY <1>5, <1>6, <1>7, LedgerKept, EditorsKept DEF Kept

-----------------------------------------------------------------------------
(* The invariant, step by step. *)

LEMMA LedgerEvolves == TaskInv /\ TeamTaskNext => Kept
  <1> SUFFICES ASSUME TaskInv, TeamTaskNext PROVE Kept OBVIOUS
  <1>1. ASSUME NEW ts, Moves(ts) PROVE Kept BY <1>1, MovesKeep
  <1>2. ASSUME NEW m \in TeamMembers, NEW D \in SUBSET TeamTaskIds, AssignTask(m, D) PROVE Kept
    BY <1>2, AssignTaskKeeps
  <1>3. ASSUME NEW m \in TeamMembers,
               \/ ReopenAgent(m) \/ WakeMember(m) \/ FailRun(m) \/ CrashExecutor(m)
               \/ InterruptProcess(m) \/ RunProgress(m)
        PROVE  Kept
    BY <1>1, <1>3, MembersMove
  <1>4. ASSUME NEW t \in TeamTaskIds,
               ResumeByMessage(t) \/ \E decision \in {"accepted", "rework"} : ReviewResult(t, decision)
        PROVE  Kept
    BY <1>1, <1>4, TasksMove
  <1>5. ASSUME NEW e \in Editors, NEW t \in TeamTaskIds, UpdateRead(e, t) PROVE Kept
    BY <1>5, UpdateReadKeeps
  <1>6. ASSUME NEW e \in Editors, UpdateWrite(e) PROVE Kept BY <1>1, <1>6, UpdateWriteMoves
  <1>7. ASSUME NEW e \in Editors,
               \/ CancelRunOfTask(e)
               \/ \E m \in TeamMembers : ManageAgent(e, m)
               \/ RevokeAgent(e) \/ SettleTasksOfAgent(e)
        PROVE  Kept
    BY <1>1, <1>7, EditorsMove
  <1>8. ASSUME NEW s \in Schedulers, NEW m \in TeamMembers,
               \/ ScheduleBegin(s, m, Candidates(m))
               \/ \E t \in Candidates(m) : ScheduleBegin(s, m, {t})
        PROVE  Kept
    BY <1>8, ScheduleBeginKeeps
  <1>9. ASSUME NEW s \in Schedulers,
               CreateTaskRun(s) \/ ClaimTask(s) \/ RetireRun(s) \/ CrashScheduler(s)
        PROVE  Kept
    BY <1>1, <1>9, SchedulersMove
  <1> QED BY <1>2, <1>3, <1>4, <1>5, <1>6, <1>7, <1>8, <1>9 DEF TeamTaskNext

\* The team's agents, their runs and their executors.
RunStep == RunPart' /\ ExecutorPart'

LEMMA RunsUnmoved ==
  ASSUME TaskInv, LedgerStep, UNCHANGED executorVars, RunPart' PROVE RunStep
  BY Typing DEF RunStep, ExecutorPart, executorVars, LedgerStep

LEMMA RunsStay ==
  ASSUME TaskInv, LedgerStep, UNCHANGED <<astatus, runVars, executorVars>> PROVE RunStep
  BY Typing, RunsUnmoved DEF RunPart, runVars

LEMMA MembersEvolve ==
  ASSUME TaskInv, LedgerStep, NEW m \in TeamMembers,
         \/ ReopenAgent(m) \/ WakeMember(m) \/ FailRun(m) \/ CrashExecutor(m) \/ InterruptProcess(m)
         \/ RunProgress(m)
  PROVE  RunStep
  <1> USE DEF LeaveRun, FinishRun
  <1>1. \A t \in TeamTaskIds : tstatus[t] # "absent" => tstatus'[t] # "absent" BY DEF LedgerStep
  <1>2. CASE ReopenAgent(m)
    <2>1. EndRun(m) /\ astatus' = [astatus EXCEPT ![m] = "idle"] /\ UNCHANGED executorVars
      BY <1>2 DEF ReopenAgent
    <2>2. RunPart' BY <2>1, EndRunTyped, Typing DEF RunPart
    <2> QED BY <2>1, <2>2, RunsUnmoved
  <1>3. CASE StartRun(m)
    <2>1. CASE Schedulable(m)
      <3>1. /\ rstate' = [rstate EXCEPT ![m] = "running"]
            /\ astatus' = [astatus EXCEPT ![m] = "running"]
            /\ rplace' = [rplace EXCEPT ![m] = "start"]
            /\ rfence' = [rfence EXCEPT ![m] = TRUE]
            /\ UNCHANGED <<rtask, rctx, rtool>>
        BY <1>3, <2>1 DEF StartRun
      <3> QED BY <1>1, <3>1, Typing DEF RunPart, ExecutorPart, RunStep
    <2>2. CASE ~Schedulable(m)
      <3>1. EndRun(m) /\ UNCHANGED <<astatus, executorVars>> BY <1>3, <2>2 DEF StartRun
      <3>2. RunPart' BY <3>1, EndRunTyped, Typing DEF RunPart
      <3> QED BY <3>1, <3>2, RunsUnmoved
    <2> QED BY <2>1, <2>2
  <1>4. CASE LoadRun(m)
    <2>1. PICK mine : mine = {t \in TeamTaskIds : towner[t] = m /\ tstatus[t] = "running"} OBVIOUS
    <2>2. rtool' = [rtool EXCEPT ![m] = FALSE] /\ UNCHANGED rfence BY <1>4 DEF LoadRun
    <2>3. CASE rtask[m] \subseteq mine
      <3>1. \E ctx \in (IF rtask[m] # {} THEN {rtask[m]}
                         ELSE IF mine = {} THEN {{}} ELSE {{t} : t \in mine}) :
                rctx' = [rctx EXCEPT ![m] = ctx]
        BY <1>4, <2>1, <2>3 DEF LoadRun
      <3>2. PICK ctx : ctx \subseteq mine /\ rctx' = [rctx EXCEPT ![m] = ctx]
        <4>1. CASE rtask[m] # {} BY <2>3, <3>1, <4>1
        <4>2. CASE rtask[m] = {} /\ mine = {} BY <3>1, <4>2
        <4>3. CASE rtask[m] = {} /\ mine # {} BY <3>1, <4>3
        <4> QED BY <4>1, <4>2, <4>3
      <3>3. rplace' = [rplace EXCEPT ![m] = "turn"] /\ UNCHANGED <<runVars, astatus>>
        BY <1>4, <2>1, <2>3 DEF LoadRun
      <3>4. \A t \in mine : t \in TeamTaskIds /\ tstatus'[t] # "absent" BY <1>1, <2>1
      <3>5. ExecutorPart' BY <1>1, <2>2, <3>2, <3>3, <3>4, Typing DEF ExecutorPart
      <3> QED BY <3>3, <3>5, Typing DEF RunPart, RunStep, runVars
    <2>4. CASE ~(rtask[m] \subseteq mine)
      <3>1. /\ EndRun(m) /\ rplace' = [rplace EXCEPT ![m] = "end"] /\ UNCHANGED rctx
            /\ astatus' = [astatus EXCEPT ![m] = IF @ = "running" /\ ~rtool[m] THEN "failed" ELSE @]
        BY <1>4, <2>1, <2>4 DEF LoadRun
      <3>2. RunPart' BY <3>1, EndRunTyped, Typing DEF RunPart
      <3>3. ExecutorPart' BY <1>1, <2>2, <3>1, Typing DEF ExecutorPart
      <3> QED BY <3>2, <3>3 DEF RunStep
    <2> QED BY <2>3, <2>4
  <1>5. CASE CompleteRun(m) \/ FailRun(m)
    <2>1. PICK next \in {"end", "fail"} :
             /\ EndRun(m) /\ rplace' = [rplace EXCEPT ![m] = next]
             /\ UNCHANGED <<astatus, rctx, rfence, rtool>>
      BY <1>5 DEF CompleteRun, FailRun
    <2>2. RunPart' BY <2>1, EndRunTyped, Typing DEF RunPart
    <2>3. ExecutorPart' BY <1>1, <2>1, Typing DEF ExecutorPart
    <2> QED BY <2>2, <2>3 DEF RunStep
  <1>6. CASE ExpireRun(m)
    <2>1. /\ UNCHANGED executorVars
          /\ astatus' = [astatus EXCEPT ![m] = IF @ = "running" THEN "idle" ELSE @]
      BY <1>6, Zenon DEF ExpireRun
    <2>2. \/ rstate' = [rstate EXCEPT ![m] = "recoverable"] /\ UNCHANGED rtask
          \/ EndRun(m)
          \/ UNCHANGED runVars
      BY <1>6, Zenon DEF ExpireRun
    <2>3. RunPart' BY <2>1, <2>2, EndRunTyped, Typing DEF RunPart, runVars
    <2> QED BY <2>1, <2>3, RunsUnmoved
  <1>7. CASE WakeMember(m) \/ RequeueRun(m)
    <2>1. /\ rstate' = [rstate EXCEPT ![m] = "queued"] /\ UNCHANGED <<astatus, rtask, executorVars>>
      BY <1>7 DEF WakeMember, RequeueRun
    <2>2. RunPart' BY <2>1, Typing DEF RunPart
    <2> QED BY <2>1, <2>2, RunsUnmoved
  <1>8. CASE ReadForSubmit(m) \/ SubmitTask(m) \/ StopRun(m)
    <2>1. /\ \E next \in {"submit", "close", "end"} : rplace' = [rplace EXCEPT ![m] = next]
          /\ UNCHANGED <<astatus, runVars, rctx, rfence, rtool>>
      BY <1>8 DEF ReadForSubmit, SubmitTask, StopRun
    <2>2. ExecutorPart' BY <1>1, <2>1, Typing DEF ExecutorPart
    <2> QED BY <2>1, <2>2, Typing DEF RunStep, RunPart, runVars
  <1>9. CASE MarkTaskFailed(m)
    <2>1. /\ astatus' = [astatus EXCEPT ![m] = "failed"] /\ rplace' = [rplace EXCEPT ![m] = "end"]
          /\ UNCHANGED <<runVars, rctx, rfence, rtool>>
      BY <1>9 DEF MarkTaskFailed
    <2>2. ExecutorPart' BY <1>1, <2>1, Typing DEF ExecutorPart
    <2> QED BY <2>1, <2>2, Typing DEF RunStep, RunPart, runVars
  <1>10. CASE ReleaseLeases(m)
    <2>1. /\ astatus' = [astatus EXCEPT ![m] = IF @ = "running" THEN "idle" ELSE @]
          /\ rplace' = [rplace EXCEPT ![m] = "none"] /\ rctx' = [rctx EXCEPT ![m] = {}]
          /\ UNCHANGED <<runVars, rfence, rtool>>
      BY <1>10 DEF ReleaseLeases
    <2>2. ExecutorPart' BY <1>1, <2>1, Typing DEF ExecutorPart
    <2> QED BY <2>1, <2>2, Typing DEF RunStep, RunPart, runVars
  <1>11. CASE DetachRun(m) \/ CrashExecutor(m)
    <2>1. /\ rplace' = [rplace EXCEPT ![m] = "none"] /\ rctx' = [rctx EXCEPT ![m] = {}]
          /\ UNCHANGED <<astatus, runVars, rfence>>
          /\ rtool' = rtool \/ \E byTool \in BOOLEAN : rtool' = [rtool EXCEPT ![m] = byTool]
      BY <1>11 DEF DetachRun, CrashExecutor
    <2>2. rtool' \in [TeamMembers -> BOOLEAN] BY <2>1, Typing DEF ExecutorPart
    <2>3. ExecutorPart' BY <1>1, <2>1, <2>2, Typing DEF ExecutorPart
    <2> QED BY <2>1, <2>3, Typing DEF RunStep, RunPart, runVars
  <1>12. CASE InterruptProcess(m)
    <2>1. /\ rstate' = [rstate EXCEPT ![m] = IF @ = "running" THEN "recoverable" ELSE @]
          /\ rplace' = [rplace EXCEPT ![m] = "end"]
          /\ UNCHANGED <<astatus, rtask, rctx, rfence, rtool>>
      BY <1>12 DEF InterruptProcess
    <2>2. ExecutorPart' BY <1>1, <2>1, Typing DEF ExecutorPart
    <2> QED BY <2>1, <2>2, Typing DEF RunStep, RunPart
  <1> QED BY <1>2, <1>3, <1>4, <1>5, <1>6, <1>7, <1>8, <1>9, <1>10, <1>11, <1>12 DEF RunProgress

LEMMA TaskRunsEvolve == TaskInv /\ TeamTaskNext => RunStep
  <1> SUFFICES ASSUME TaskInv, TeamTaskNext PROVE RunStep OBVIOUS
  <1>1. LedgerStep BY LedgerEvolves DEF Kept
  <1>2. CASE UNCHANGED <<astatus, runVars, executorVars>> BY <1>1, <1>2, RunsStay
  <1>3. ASSUME NEW m \in TeamMembers,
               \/ ReopenAgent(m) \/ WakeMember(m) \/ FailRun(m) \/ CrashExecutor(m)
               \/ InterruptProcess(m) \/ RunProgress(m)
        PROVE  RunStep
    BY <1>1, <1>3, MembersEvolve
  <1>4. ASSUME NEW e \in Editors, NEW m \in TeamMembers, ManageAgent(e, m) PROVE RunStep
    <2>1. RunPart' /\ UNCHANGED executorVars BY <1>4, Typing DEF ManageAgent, RunPart, runVars
    <2> QED BY <1>1, <2>1, RunsUnmoved
  <1>5. ASSUME NEW e \in Editors, RevokeAgent(e) PROVE RunStep
    <2>1. emember[e] \in TeamMembers BY Typing DEF EditorTyped
    <2>2. RunPart' BY <1>5, <2>1, RequestTyped, Typing DEF RevokeAgent, RunPart
    <2>3. /\ rfence' = [rfence EXCEPT ![emember[e]] = FALSE]
          /\ UNCHANGED <<rplace, rctx, rtool>>
      BY <1>5 DEF RevokeAgent
    <2>4. ExecutorPart' BY <1>1, <2>3, Typing DEF ExecutorPart, LedgerStep
    <2> QED BY <2>2, <2>4 DEF RunStep
  <1>6. ASSUME NEW e \in Editors, CancelRunOfTask(e) PROVE RunStep
    <2>1. PICK m : m = towner[edit[e].task] OBVIOUS
    <2>2. SoundEdit(edit[e]) BY <1>6 DEF CancelRunOfTask, TaskInv, EditorPart
    <2>3. m \in TeamMembers BY <2>1, <2>2, Typing DEF SoundEdit, Edits, LedgerTyped
    <2>4. RequestCancellation(m) \/ UNCHANGED runVars BY <1>6, <2>1 DEF CancelRunOfTask
    <2>5. UNCHANGED <<astatus, executorVars>> BY <1>6 DEF CancelRunOfTask
    <2>6. RunPart' BY <2>3, <2>4, <2>5, RequestTyped, Typing DEF RunPart, runVars
    <2> QED BY <1>1, <2>5, <2>6, RunsUnmoved
  <1>7. ASSUME NEW s \in Schedulers, CreateTaskRun(s) PROVE RunStep
    <2>1. smember[s] \in TeamMembers /\ stask[s] \in SUBSET TeamTaskIds
      BY Typing DEF SchedulerTyped
    <2>2. UNCHANGED <<astatus, executorVars>> BY <1>7 DEF CreateTaskRun
    <2>3. RunPart' BY <1>7, <2>1, <2>2, Typing DEF CreateTaskRun, RunPart, runVars
    <2> QED BY <1>1, <2>2, <2>3, RunsUnmoved
  <1>8. ASSUME NEW s \in Schedulers, RetireRun(s) PROVE RunStep
    <2>1. smember[s] \in TeamMembers BY Typing DEF SchedulerTyped
    <2>2. RequestCancellation(smember[s]) \/ UNCHANGED runVars BY <1>8 DEF RetireRun
    <2>3. UNCHANGED <<astatus, executorVars>> BY <1>8 DEF RetireRun
    <2>4. RunPart' BY <2>1, <2>2, <2>3, RequestTyped, Typing DEF RunPart, runVars
    <2> QED BY <1>1, <2>3, <2>4, RunsUnmoved
  <1>9. ASSUME NEW m \in TeamMembers, NEW D \in SUBSET TeamTaskIds, AssignTask(m, D) PROVE RunStep
    BY <1>9, <1>2 DEF AssignTask
  <1>10. ASSUME NEW t \in TeamTaskIds,
                \/ ResumeByMessage(t)
                \/ \E decision \in {"accepted", "rework"} : ReviewResult(t, decision)
         PROVE  RunStep
    BY <1>10, <1>2 DEF ResumeByMessage, ReviewResult
  <1>11. ASSUME NEW e \in Editors, NEW t \in TeamTaskIds, UpdateRead(e, t) PROVE RunStep
    BY <1>11, <1>2 DEF UpdateRead
  <1>12. ASSUME NEW e \in Editors, UpdateWrite(e) \/ SettleTasksOfAgent(e) PROVE RunStep
    BY <1>12, <1>2 DEF UpdateWrite, SettleTasksOfAgent
  <1>13. ASSUME NEW s \in Schedulers, NEW m \in TeamMembers, NEW among,
                ScheduleBegin(s, m, among)
         PROVE  RunStep
    BY <1>13, <1>2 DEF ScheduleBegin
  <1>14. ASSUME NEW s \in Schedulers, ClaimTask(s) \/ CrashScheduler(s) PROVE RunStep
    BY <1>14, <1>2 DEF ClaimTask, CrashScheduler
  <1> QED BY <1>3, <1>4, <1>5, <1>6, <1>7, <1>8, <1>9, <1>10, <1>11, <1>12, <1>13, <1>14
          DEF TeamTaskNext

LEMMA BoundsEvolve == TaskInv /\ TeamTaskNext => BoundPart'
  <1> SUFFICES ASSUME TaskInv, TeamTaskNext PROVE BoundPart' OBVIOUS
  <1> USE TaskAssumption DEF BoundPart
  <1>1. BoundPart BY DEF TaskInv
  <1>2. CASE UNCHANGED boundVars BY <1>1, <1>2 DEF boundVars
  <1>3. CASE Command BY <1>1, <1>3 DEF Command
  <1>4. CASE /\ taskCrashes < MaxTaskCrashes /\ taskCrashes' = taskCrashes + 1
             /\ UNCHANGED commands
    BY <1>1, <1>4
  <1>5. ASSUME NEW m \in TeamMembers,
               \/ ReopenAgent(m) \/ WakeMember(m) \/ FailRun(m) \/ CrashExecutor(m)
               \/ InterruptProcess(m) \/ RunProgress(m)
               \/ \E D \in SUBSET TeamTaskIds : AssignTask(m, D)
        PROVE  BoundPart'
    <2>1. CASE ReopenAgent(m) \/ WakeMember(m) BY <1>3, <2>1 DEF ReopenAgent, WakeMember
    <2>2. CASE CrashExecutor(m) \/ InterruptProcess(m)
      BY <1>4, <2>2 DEF CrashExecutor, InterruptProcess
    <2>3. CASE FailRun(m) \/ CompleteRun(m)
      BY <1>2, <2>3 DEF FailRun, CompleteRun, FinishRun
    <2>4. CASE ExpireRun(m) BY <1>2, <2>4, Zenon DEF ExpireRun
    <2>5. CASE \/ StartRun(m) \/ LoadRun(m) \/ ReadForSubmit(m) \/ SubmitTask(m)
               \/ MarkTaskFailed(m) \/ ReleaseLeases(m) \/ StopRun(m) \/ DetachRun(m) \/ RequeueRun(m)
      BY <1>2, <2>5 DEF StartRun, LoadRun, ReadForSubmit, SubmitTask, MarkTaskFailed,
                        ReleaseLeases, StopRun, DetachRun, RequeueRun
    <2>6. CASE \E D \in SUBSET TeamTaskIds : AssignTask(m, D) BY <1>3, <2>6 DEF AssignTask
    <2> QED BY <1>5, <2>1, <2>2, <2>3, <2>4, <2>5, <2>6 DEF RunProgress
  <1>6. ASSUME NEW t \in TeamTaskIds,
               \/ ResumeByMessage(t)
               \/ \E decision \in {"accepted", "rework"} : ReviewResult(t, decision)
        PROVE  BoundPart'
    BY <1>3, <1>6 DEF ResumeByMessage, ReviewResult
  <1>7. ASSUME NEW e \in Editors,
               \/ \E t \in TeamTaskIds : UpdateRead(e, t)
               \/ \E m \in TeamMembers : ManageAgent(e, m)
        PROVE  BoundPart'
    BY <1>3, <1>7 DEF UpdateRead, ManageAgent
  <1>8. ASSUME NEW e \in Editors,
               UpdateWrite(e) \/ CancelRunOfTask(e) \/ RevokeAgent(e) \/ SettleTasksOfAgent(e)
        PROVE  BoundPart'
    BY <1>2, <1>8 DEF UpdateWrite, CancelRunOfTask, RevokeAgent, SettleTasksOfAgent
  <1>9. ASSUME NEW s \in Schedulers, CrashScheduler(s) PROVE BoundPart'
    BY <1>4, <1>9 DEF CrashScheduler
  <1>10. ASSUME NEW s \in Schedulers, CreateTaskRun(s) \/ ClaimTask(s) \/ RetireRun(s)
         PROVE  BoundPart'
    BY <1>2, <1>10 DEF CreateTaskRun, ClaimTask, RetireRun
  <1>11. ASSUME NEW s \in Schedulers, NEW m \in TeamMembers, NEW among,
                ScheduleBegin(s, m, among)
         PROVE  BoundPart'
    BY <1>2, <1>11 DEF ScheduleBegin
  <1> QED BY <1>5, <1>6, <1>7, <1>8, <1>9, <1>10, <1>11 DEF TeamTaskNext

LEMMA TaskInvStutters == TaskInv /\ UNCHANGED teamTaskVars => TaskInv'
  <1> SUFFICES ASSUME TaskInv, UNCHANGED teamTaskVars PROVE TaskInv' OBVIOUS
  <1> USE DEF TaskInv, teamTaskVars, ledgerVars, runVars, executorVars, schedVars, editorVars,
              boundVars
  <1>1. LedgerPart'
    BY DEF LedgerPart, LedgerTyped, CreatedInOrder, RunningMeetsDependencies, DependenciesAccepted
  <1>2. RunPart' /\ ExecutorPart' BY DEF RunPart, ExecutorPart
  <1>3. SchedulerPart'
    BY DEF SchedulerPart, SchedulerTyped, Choosing, Claimable, DependenciesAccepted
  <1>4. EditorPart' BY DEF EditorPart, EditorTyped, SoundEdit
  <1>5. BoundPart' BY DEF BoundPart
  <1> QED BY <1>1, <1>2, <1>3, <1>4, <1>5

LEMMA TaskInvInvariance == TeamTaskSpec => []TaskInv
  <1>1. TaskInv /\ [TeamTaskNext]_teamTaskVars => TaskInv'
    <2> SUFFICES ASSUME TaskInv, [TeamTaskNext]_teamTaskVars PROVE TaskInv' OBVIOUS
    <2>1. CASE TeamTaskNext
      BY <2>1, LedgerEvolves, TaskRunsEvolve, BoundsEvolve DEF TaskInv, Kept, RunStep
    <2>2. CASE UNCHANGED teamTaskVars BY <2>2, TaskInvStutters
    <2> QED BY <2>1, <2>2
  <1> QED BY <1>1, TaskInvInit, PTL DEF TeamTaskSpec

\* The ledger, the runs and the calls in flight are type-correct; a manual wait is a
\* wait (service.ts, orchestrator.ts, member-executor.ts).
THEOREM TaskTypeCorrect == TeamTaskSpec => []TeamTaskTypeOK
  BY TaskInvInvariance, TaskInvImplies, PTL

\* A task runs only when every task it depends on is accepted, however the look of
\* scheduleNextAgentTask, its claim and the edits of updateTask interleave.
THEOREM RunningIsReady == TeamTaskSpec => []RunningMeetsDependencies
  BY TaskInvInvariance, TaskInvImplies, PTL

\* An accepted, failed or cancelled task stays so, whatever a scheduler, a late
\* submitResult or markTaskFailed, or an edit decided before still writes.
THEOREM EndedIsFinal == TeamTaskSpec => TerminalTaskFinal
  <1> DEFINE Final == \A t \in TeamTaskIds : tstatus[t] \in TerminalTask => tstatus'[t] = tstatus[t]
  <1>1. TaskInv /\ [TeamTaskNext]_teamTaskVars => [Final]_teamTaskVars
    BY LedgerEvolves DEF Kept, LedgerStep
  <1> QED BY <1>1, TaskInvInvariance, PTL DEF TeamTaskSpec, TerminalTaskFinal

-----------------------------------------------------------------------------
(***************************************************************************)
(* Theorems about TeamSupervision: Root is told of every event the        *)
(* cursor has passed, once, although sweeps that lost their lease go on    *)
(* and sweeps die between any two of their writes.                         *)
(*                                                                         *)
(* The batches follow one another: each starts where a cursor stood, and   *)
(* ends before the next one starts.  A batch is told when Root's mailbox   *)
(* has its messages and a digest carries its routine events; a sweep that  *)
(* marks it or moves the cursor has seen to that.                          *)
(***************************************************************************)

\* Root has been told of the batch of a.
Told(a) == MailboxSettled(a) /\ (Routine(a) # {} => digests[a] > 0)

\* The batch of a later number starts where that of an earlier one has ended.
Follows(a, b) == a < b /\ batch[b] # {} => \A e \in batch[a] : e <= b

\* n is where the cursor stands, or the batch of n ends before it.
Reached(n) == n <= cursor /\ (n = cursor \/ (batch[n] # {} /\ \A e \in batch[n] : e <= cursor))

ChainPart ==
    /\ cursor = 0 \/ \E a \in Afters : cursor \in batch[a]
    /\ \A a \in Afters : batch[a] # {} => Reached(a) /\ \A e \in batch[a] : a < e
    /\ \A a, b \in Afters : Follows(a, b)

Working == {"claim", "deliver", "acknowledge", "inject", "mark", "advance"}

\* What a sweep knows where it stands.
Knows(s) ==
    /\ \A e \in listed[s] : after[s] < e
    /\ place[s] = "freeze" => listed[s] # {}
    /\ place[s] \in Working => batch[after[s]] # {}
    /\ place[s] # "idle" => Reached(after[s])
    /\ place[s] \in {"idle", "list"} => listed[s] = {} /\ ~sawDelivered[s]
    /\ sawDelivered[s] => after[s] \in delivered

SweepPart == \A s \in Sweeps : Knows(s)

\* Up to its last event, S leaves out no event after n but the late ones.
Whole(S, n) == \A e \in inserted \ late : \A f \in S : n < e /\ e <= f => e \in S

RangePart ==
    /\ \A a \in Afters : Whole(batch[a], a)
    /\ \A s \in Sweeps : Whole(listed[s], after[s])
    /\ \A s \in Sweeps : listed[s] \subseteq inserted

ToldPart ==
    /\ \A a \in delivered : Told(a)
    /\ \A s \in Sweeps : place[s] \in {"mark", "advance"} => Told(after[s])
    /\ \A e \in inserted \ late : e <= cursor => \E a \in Afters : e \in batch[a] /\ Told(a)

MailPart ==
    /\ \A e \in Seqs : mail[e] = "acknowledged" => e \in mailRows
    /\ \A s \in Sweeps : place[s] = "acknowledge" => Held(s) \subseteq mailRows
    /\ \A e \in Seqs : e > nextSeq => mail[e] = "none"

\* The inductive invariant.
SInv == SupervisionTypeOK /\ ChainPart /\ SweepPart /\ RangePart /\ ToldPart /\ MailPart

-----------------------------------------------------------------------------
(* Lemmas. *)

(* The greatest element of a non-empty set of numbers up to n: what AdvanceCursor takes of
   a batch. *)
LEMMA MaxBelow ==
  ASSUME NEW n \in Nat, NEW S \in SUBSET (0..n), S # {}
  PROVE  Max(S) \in S /\ \A e \in S : e <= Max(S)
<1> DEFINE T == {n - e : e \in S}
<1>1. T \subseteq Nat /\ T # {}
  <2>1. ASSUME NEW e \in S PROVE n - e \in Nat
    <3>1. e \in 0..n
      OBVIOUS
    <3> QED
      BY <3>1
  <2>2. PICK e \in S : TRUE
    OBVIOUS
  <2>3. n - e \in T
    OBVIOUS
  <2> QED
    BY <2>1, <2>3
<1> DEFINE Less == OpToRel(<, Nat)
<1>2. \A x, y \in Nat : x < y => <<x, y>> \in Less
  BY DEF OpToRel
<1>3. PICK x \in T : \A y \in T : <<y, x>> \notin Less
  <2>1. IsWellFoundedOn(Less, Nat)
    BY NatLessThanWellFounded
  <2> HIDE DEF T, Less
  <2> QED
    BY <1>1, <2>1, WFMin
<1> HIDE DEF Less
<1>4. PICK m \in S : x = n - m
  OBVIOUS
<1>5. \A e \in S : m >= e
  <2> SUFFICES ASSUME NEW e \in S PROVE m >= e
    OBVIOUS
  <2>1. n - e \in T /\ n - e \in Nat /\ x \in Nat
    BY <1>1
  <2>2. ~(n - e < x)
    BY <1>2, <1>3, <2>1
  <2> QED
    BY <1>4, <2>1, <2>2
<1> QED
  BY <1>5 DEF Max

(* listEventsAfter returns events of the log after n, and with one of them every event of
   the log between n and that one. *)
LEMMA ListedWhole ==
  ASSUME SupervisionTypeOK, NEW n \in Afters
  PROVE  /\ ListedAfter(n) \subseteq {e \in inserted : e > n}
         /\ \A e \in inserted : \A f \in ListedAfter(n) : n < e /\ e <= f => e \in ListedAfter(n)
<1> DEFINE later == {e \in inserted : e > n}
<1> DEFINE UpTo(f) == {g \in later : g <= f}
<1>1. ASSUME NEW e \in inserted, NEW f \in ListedAfter(n), n < e, e <= f
      PROVE  e \in ListedAfter(n)
  <2>1. f \in inserted /\ Cardinality(UpTo(f)) <= SweepLimit
    BY DEF ListedAfter
  <2>2. inserted \subseteq Int
    BY SupervisionAssumption DEF SupervisionTypeOK, SupervisionAssumption, Seqs, Afters
  <2>3. UpTo(e) \subseteq UpTo(f)
    <3> SUFFICES ASSUME NEW g \in later, g <= e PROVE g <= f
      OBVIOUS
    <3>1. g \in Int /\ e \in Int /\ f \in Int
      BY <2>1, <2>2
    <3> QED
      BY <1>1, <3>1
  <2>4. IsFiniteSet(UpTo(f))
    <3>1. IsFiniteSet(1..nextSeq)
      BY SupervisionAssumption, FS_Interval DEF SupervisionTypeOK, Afters, SupervisionAssumption
    <3> QED
      BY <3>1, FS_Subset DEF SupervisionTypeOK
  <2>5. Cardinality(UpTo(e)) <= Cardinality(UpTo(f)) /\ IsFiniteSet(UpTo(e))
    BY <2>3, <2>4, FS_Subset
  <2>6. Cardinality(UpTo(e)) \in Nat /\ Cardinality(UpTo(f)) \in Nat /\ SweepLimit \in Nat
    BY <2>4, <2>5, FS_CardinalityType, SupervisionAssumption DEF SupervisionAssumption
  <2>7. e \in later /\ Cardinality(UpTo(e)) <= SweepLimit
    BY <1>1, <2>1, <2>5, <2>6
  <2> QED
    BY <2>7 DEF ListedAfter
<1> QED
  BY <1>1 DEF ListedAfter

(* The invariant holds at the start. *)
LEMMA SupervisionStarts ==
  ASSUME SupervisionInit
  PROVE  SInv
<1> USE SupervisionAssumption DEF SupervisionInit, SupervisionAssumption, Seqs, Afters
<1>1. SupervisionTypeOK
  BY DEF SupervisionTypeOK
<1>2. ChainPart /\ SweepPart
  BY DEF ChainPart, SweepPart, Knows, Follows, Working, Reached
<1>3. RangePart /\ ToldPart /\ MailPart
  BY DEF RangePart, Whole, ToldPart, MailPart, Held
<1> QED
  BY <1>1, <1>2, <1>3 DEF SInv
-----------------------------------------------------------------------------
(* What a step leaves alone. *)

(* A batch stays told as long as it keeps its events and nothing is taken back of what
   Root has received of them. *)
LEMMA ToldStays ==
  ASSUME SupervisionTypeOK, NEW a \in Afters, Told(a),
         batch'[a] = batch[a],
         \A e \in batch[a] : eventKind'[e] = eventKind[e],
         \A e \in batch[a] : mail[e] = "acknowledged" => mail'[e] = "acknowledged",
         digests[a] > 0 => digests'[a] > 0
  PROVE  Told(a)'
<1>1. MailboxSettled(a)'
  BY DEF Told, MailboxSettled
<1>2. Routine(a)' = Routine(a)
  BY DEF Routine
<1> QED
  BY <1>1, <1>2 DEF Told

(* A step that moves no cursor and no batch keeps the chain. *)
LEMMA ChainStays ==
  ASSUME ChainPart, UNCHANGED <<cursor, batch>>
  PROVE  ChainPart' /\ \A n \in Afters : Reached(n)' <=> Reached(n)
BY DEF ChainPart, Reached, Follows

(* A step of the log or of Root's run keeps what the sweeps know. *)
LEMMA SweepsStay ==
  ASSUME SupervisionTypeOK, SweepPart, UNCHANGED <<cursor, batch, delivered, sweepVars>>
  PROVE  SweepPart'
BY DEF SweepPart, Knows, Reached, sweepVars

LEMMA RangesStay ==
  ASSUME RangePart, UNCHANGED <<inserted, late, batch>>,
         \A s \in Sweeps : listed'[s] = {} \/ (listed'[s] = listed[s] /\ after'[s] = after[s])
  PROVE  RangePart'
BY DEF RangePart, Whole

-----------------------------------------------------------------------------
(* The event log. *)

LEMMA TakeSeqKeeps ==
  ASSUME SInv, NEW k \in {"routine", "message", "silent"}, TakeSeq(k)
  PROVE  SInv'
<1> USE SupervisionAssumption DEF SupervisionAssumption
<1>1. SupervisionTypeOK /\ MailPart /\ nextSeq \in Nat /\ nextSeq + 1 \in Seqs
  BY DEF SInv, SupervisionTypeOK, TakeSeq, Seqs, Afters
<1>2. mail[nextSeq + 1] = "none" /\ \A e \in inserted : e # nextSeq + 1
  BY <1>1 DEF MailPart, SupervisionTypeOK
<1>3. SupervisionTypeOK'
  <2>1. mailRows' \subseteq {e \in Seqs : mail'[e] # "none"}
    BY <1>1, <1>2 DEF SupervisionTypeOK, TakeSeq
  <2>2. inserted' \subseteq 1..nextSeq' /\ nextSeq' \in Afters
    BY <1>1 DEF SupervisionTypeOK, TakeSeq, Afters
  <2> QED
    BY <1>1, <2>1, <2>2 DEF SupervisionTypeOK, TakeSeq, batchVars, sweepVars
<1>4. ChainPart' /\ SweepPart' /\ RangePart'
  BY <1>1, ChainStays, SweepsStay, RangesStay DEF SInv, TakeSeq, batchVars, sweepVars
<1>5. ASSUME NEW a \in Afters, Told(a) PROVE Told(a)'
  <2>1. \A e \in batch[a] : e \in Seqs /\ e # nextSeq + 1
    BY <1>1, <1>2 DEF SupervisionTypeOK
  <2>2. \A e \in batch[a] : eventKind'[e] = eventKind[e] /\ mail'[e] = mail[e]
    BY <1>1, <2>1 DEF SupervisionTypeOK, TakeSeq
  <2> QED
    BY <1>1, <1>5, <2>2, ToldStays DEF TakeSeq, batchVars
<1>6. ToldPart'
  BY <1>1, <1>5 DEF SInv, ToldPart, TakeSeq, batchVars, sweepVars, SupervisionTypeOK
<1>7. MailPart'
  <2>1. \A e \in Seqs : mail'[e] = "acknowledged" => mail[e] = "acknowledged"
    BY <1>1 DEF TakeSeq, SupervisionTypeOK
  <2>2. \A s \in Sweeps : Held(s)' \subseteq Held(s)
    BY <1>1 DEF TakeSeq, SupervisionTypeOK, Held
  <2>3. \A e \in Seqs : e > nextSeq' => mail'[e] = "none"
    BY <1>1 DEF TakeSeq, SupervisionTypeOK, MailPart, Seqs
  <2> QED
    BY <1>1, <2>1, <2>2, <2>3 DEF MailPart, TakeSeq, sweepVars
<1> QED
  BY <1>3, <1>4, <1>6, <1>7 DEF SInv

LEMMA InsertEventKeeps ==
  ASSUME SInv, NEW i \in Seqs, InsertEvent(i)
  PROVE  SInv'
<1> USE SupervisionAssumption DEF SupervisionAssumption
<1>1. SupervisionTypeOK /\ i \in 1..nextSeq /\ i \notin inserted
  BY DEF SInv, InsertEvent
<1>2. SupervisionTypeOK'
  BY <1>1 DEF SupervisionTypeOK, InsertEvent, batchVars, sweepVars, mailVars
<1>3. ChainPart' /\ SweepPart'
  BY <1>1, ChainStays, SweepsStay DEF SInv, InsertEvent, batchVars, sweepVars
\* The new event is late if it comes before an event in a batch or in a sweep's list.
<1>4. ASSUME NEW f, i \notin late', i <= f,
             (\E a \in Afters : f \in batch[a]) \/ (\E s \in Sweeps : f \in listed[s])
      PROVE  FALSE
  <2>1. f \in inserted
    BY <1>1, <1>4 DEF SInv, SupervisionTypeOK, RangePart
  <2>2. ~(i < f)
    BY <1>4 DEF InsertEvent
  <2> QED
    BY <1>1, <1>4, <2>1, <2>2 DEF SupervisionTypeOK, Seqs, Afters
<1>5. \A e \in inserted' \ late' : e = i \/ e \in inserted \ late
  BY DEF InsertEvent
<1>6. RangePart'
  BY <1>1, <1>4, <1>5 DEF SInv, RangePart, Whole, InsertEvent, batchVars, sweepVars
<1>7. ToldPart'
  <2>1. \A a \in Afters : Told(a)' <=> Told(a)
    BY DEF Told, MailboxSettled, Routine, InsertEvent, batchVars, mailVars
  <2>2. ASSUME i \notin late', i <= cursor PROVE FALSE
    BY <1>1, <1>4, <2>2 DEF SInv, ChainPart, Seqs
  <2> QED
    BY <1>1, <1>5, <2>1, <2>2 DEF SInv, ToldPart, InsertEvent, batchVars, sweepVars, SupervisionTypeOK
<1>8. MailPart'
  BY DEF SInv, MailPart, Held, InsertEvent, mailVars, sweepVars
<1> QED
  BY <1>2, <1>3, <1>6, <1>7, <1>8 DEF SInv

LEMMA RootChangesKeeps ==
  ASSUME SInv, RootChanges
  PROVE  SInv'
<1>1. UNCHANGED <<teamVars, cursor, lease, batchVars, mailVars, sweepVars, faults>> /\ rootReady' \in BOOLEAN
  BY DEF RootChanges
<1>2. SupervisionTypeOK'
  BY <1>1 DEF SInv, SupervisionTypeOK, teamVars, batchVars, mailVars, sweepVars
<1>3. ChainPart' /\ SweepPart' /\ RangePart'
  BY <1>1, ChainStays, SweepsStay, RangesStay DEF SInv, teamVars, batchVars, sweepVars
<1>4. ToldPart' /\ MailPart'
  BY <1>1 DEF SInv, ToldPart, MailPart, Told, MailboxSettled, Routine, Held, teamVars, batchVars, mailVars, sweepVars
<1> QED
  BY <1>2, <1>3, <1>4 DEF SInv
-----------------------------------------------------------------------------
(* The sweep takes the lease, lists the events and freezes its batch. *)

LEMMA ClaimSupervisionLeaseKeeps ==
  ASSUME SInv, NEW s \in Sweeps, ClaimSupervisionLease(s)
  PROVE  SInv'
<1>1. SupervisionTypeOK /\ SweepPart /\ place[s] = "idle" /\ listed[s] = {} /\ ~sawDelivered[s]
  BY DEF SInv, ClaimSupervisionLease, At, SweepPart, Knows
<1>2. /\ place' = [place EXCEPT ![s] = "list"] /\ after' = [after EXCEPT ![s] = cursor]
      /\ lease' = s
      /\ UNCHANGED <<teamVars, cursor, batchVars, mailVars, rootReady, listed, sawDelivered, faults>>
  BY DEF ClaimSupervisionLease, Goto
<1>3. SupervisionTypeOK'
  BY <1>1, <1>2 DEF SupervisionTypeOK, teamVars, batchVars, mailVars
<1>4. ChainPart'
  BY <1>2, ChainStays DEF SInv, batchVars
<1>5. SweepPart'
  <2>1. cursor \in Int
    BY <1>1, SupervisionAssumption DEF SupervisionTypeOK, Afters, SupervisionAssumption
  <2> SUFFICES ASSUME NEW t \in Sweeps PROVE Knows(t)'
    BY DEF SweepPart
  <2>2. CASE t = s
    BY <1>1, <1>2, <2>1, <2>2 DEF Knows, SupervisionTypeOK, Working, Reached, batchVars
  <2>3. CASE t # s
    BY <1>1, <1>2, <2>3 DEF SweepPart, Knows, SupervisionTypeOK, Working, Reached, batchVars
  <2> QED
    BY <2>2, <2>3
<1>6. RangePart'
  <2>1. \A t \in Sweeps : listed'[t] = {} \/ (listed'[t] = listed[t] /\ after'[t] = after[t])
    BY <1>1, <1>2 DEF SupervisionTypeOK
  <2> QED
    BY <1>2, <2>1, RangesStay DEF SInv, teamVars, batchVars
<1>7. ToldPart'
  <2>1. \A t \in Sweeps : place'[t] \in {"mark", "advance"} => place'[t] = place[t] /\ after'[t] = after[t]
    BY <1>1, <1>2 DEF SupervisionTypeOK
  <2> QED
    BY <1>2, <2>1 DEF SInv, ToldPart, Told, MailboxSettled, Routine, teamVars, batchVars, mailVars
<1>8. MailPart'
  <2>1. \A t \in Sweeps : place'[t] = "acknowledge" => place[t] = "acknowledge"
    BY <1>1, <1>2 DEF SupervisionTypeOK
  <2> QED
    BY <1>2, <2>1 DEF SInv, MailPart, Held, teamVars, mailVars
<1> QED
  BY <1>3, <1>4, <1>5, <1>6, <1>7, <1>8 DEF SInv

LEMMA ListEventsKeeps ==
  ASSUME SInv, NEW s \in Sweeps, ListEvents(s)
  PROVE  SInv'
<1> DEFINE L == ListedAfter(after[s])
<1>1. SupervisionTypeOK /\ SweepPart /\ place[s] = "list" /\ ~sawDelivered[s] /\ after[s] \in Afters
  BY DEF SInv, ListEvents, At, SweepPart, Knows, SupervisionTypeOK
<1>2. /\ listed' = [listed EXCEPT ![s] = L]
      /\ \/ L # {} /\ place' = [place EXCEPT ![s] = "freeze"]
         \/ place' = [place EXCEPT ![s] = "release"]
      /\ UNCHANGED <<teamVars, cursor, lease, batchVars, mailVars, rootReady, after, sawDelivered, faults>>
  BY DEF ListEvents, Goto
<1>3. /\ L \subseteq {e \in inserted : e > after[s]}
      /\ \A e \in inserted : \A f \in L : after[s] < e /\ e <= f => e \in L
  BY <1>1, ListedWhole
<1> HIDE DEF L
<1>4. SupervisionTypeOK'
  <2>1. inserted \subseteq Seqs
    BY <1>1, SupervisionAssumption DEF SupervisionTypeOK, Seqs, Afters, SupervisionAssumption
  <2> QED
    BY <1>1, <1>2, <1>3, <2>1 DEF SupervisionTypeOK, teamVars, batchVars, mailVars
<1>5. ChainPart'
  BY <1>2, ChainStays DEF SInv, batchVars
<1>6. SweepPart'
  <2> SUFFICES ASSUME NEW t \in Sweeps PROVE Knows(t)'
    BY DEF SweepPart
  <2>2. CASE t = s
    <3>1. \A e \in L : after[s] < e
      BY <1>1, <1>3, SupervisionAssumption DEF SupervisionTypeOK, Afters, SupervisionAssumption
    <3> QED
      BY <1>1, <1>2, <2>2, <3>1 DEF SweepPart, Knows, SupervisionTypeOK, Working, Reached, batchVars
  <2>3. CASE t # s
    BY <1>1, <1>2, <2>3 DEF SweepPart, Knows, SupervisionTypeOK, Working, Reached, batchVars
  <2> QED
    BY <2>2, <2>3
<1>7. RangePart'
  <2>1. \A a \in Afters : Whole(batch[a], a)'
    BY <1>2 DEF SInv, RangePart, Whole, batchVars, teamVars
  <2>2. ASSUME NEW t \in Sweeps PROVE Whole(listed[t], after[t])' /\ listed'[t] \subseteq inserted'
    <3>1. CASE t = s
      BY <1>1, <1>2, <1>3, <3>1 DEF Whole, teamVars, SupervisionTypeOK
    <3>2. CASE t # s
      BY <1>1, <1>2, <3>2 DEF SInv, RangePart, Whole, teamVars, SupervisionTypeOK
    <3> QED
      BY <3>1, <3>2
  <2> QED
    BY <2>1, <2>2 DEF RangePart
<1>8. ToldPart'
  <2>1. \A t \in Sweeps : place'[t] \in {"mark", "advance"} => place'[t] = place[t]
    BY <1>1, <1>2 DEF SupervisionTypeOK
  <2> QED
    BY <1>2, <2>1 DEF SInv, ToldPart, Told, MailboxSettled, Routine, teamVars, batchVars, mailVars
<1>9. MailPart'
  <2>1. \A t \in Sweeps : place'[t] = "acknowledge" => place[t] = "acknowledge"
    BY <1>1, <1>2 DEF SupervisionTypeOK
  <2> QED
    BY <1>2, <2>1 DEF SInv, MailPart, Held, teamVars, mailVars
<1> QED
  BY <1>4, <1>5, <1>6, <1>7, <1>8, <1>9 DEF SInv

LEMMA FreezeBatchKeeps ==
  ASSUME SInv, NEW s \in Sweeps, FreezeBatch(s)
  PROVE  SInv'
<1> DEFINE n == after[s]
<1>1. /\ SupervisionTypeOK /\ SweepPart /\ ChainPart /\ RangePart /\ ToldPart
      /\ place[s] = "freeze" /\ n \in Afters /\ listed[s] # {} /\ Reached(n)
      /\ \A e \in listed[s] : n < e
  BY DEF SInv, FreezeBatch, At, SweepPart, Knows, SupervisionTypeOK
<1>2. /\ place' = [place EXCEPT ![s] = "claim"]
      /\ sawDelivered' = [sawDelivered EXCEPT ![s] = n \in delivered]
      /\ batch' = [batch EXCEPT ![n] = Frozen(s)]
      /\ UNCHANGED <<teamVars, cursor, lease, delivered, digests, mailVars, rootReady, after, listed, faults>>
  BY DEF FreezeBatch, Goto
\* Either the batch of n exists and stays, or the cursor is at n and the list becomes it.
<1>3. \/ batch' = batch /\ batch[n] # {}
      \/ n = cursor /\ batch[n] = {} /\ batch' = [batch EXCEPT ![n] = listed[s]]
  BY <1>1, <1>2 DEF Frozen, Reached, SupervisionTypeOK
<1>4. /\ \A a \in Afters : batch[a] # {} => batch'[a] = batch[a]
      /\ \A a \in Afters : a # n => batch'[a] = batch[a]
      /\ batch'[n] # {}
  BY <1>1, <1>3 DEF SupervisionTypeOK
<1> HIDE DEF n
<1>5. cursor \in Int /\ Afters \subseteq Int /\ inserted \subseteq Int
  BY <1>1, SupervisionAssumption DEF SupervisionTypeOK, Afters, Seqs, SupervisionAssumption
<1>6. SupervisionTypeOK'
  <2>1. batch' \in [Afters -> SUBSET Seqs] /\ \A a \in Afters : batch'[a] \subseteq inserted
    BY <1>1, <1>3 DEF SupervisionTypeOK, RangePart
  <2>2. \A a \in delivered : batch'[a] # {}
    BY <1>1, <1>4 DEF SupervisionTypeOK
  <2> QED
    BY <1>1, <1>2, <2>1, <2>2 DEF SupervisionTypeOK, teamVars, mailVars
<1>7. ChainPart'
  <2>1. CASE batch' = batch
    BY <1>1, <1>2, <2>1, ChainStays
  <2>2. CASE n = cursor /\ batch[n] = {} /\ batch' = [batch EXCEPT ![n] = listed[s]]
    <3>1. cursor = 0 \/ \E a \in Afters : cursor' \in batch'[a]
      BY <1>1, <1>2, <1>4 DEF ChainPart
    <3>2. ASSUME NEW a \in Afters, batch'[a] # {}
          PROVE  Reached(a)' /\ \A e \in batch'[a] : a < e
      <4>1. CASE a = n
        BY <1>1, <1>2, <1>5, <2>2, <4>1 DEF Reached, SupervisionTypeOK
      <4>2. CASE a # n
        BY <1>1, <1>2, <1>4, <3>2, <4>2 DEF ChainPart, Reached
      <4> QED
        BY <4>1, <4>2
    <3>3. ASSUME NEW a \in Afters, NEW b \in Afters, a < b, batch'[b] # {}
          PROVE  \A e \in batch'[a] : e <= b
      <4>1. CASE b = n
        <5>1. batch'[a] = batch[a]
          BY <1>4, <1>5, <3>3, <4>1
        <5>2. batch[a] # {} => \A e \in batch[a] : e <= cursor
          BY <1>1, <1>5, <2>2, <3>3, <4>1 DEF ChainPart, Reached
        <5> QED
          BY <2>2, <4>1, <5>1, <5>2
      <4>2. CASE b # n
        <5>1. batch[b] # {} /\ b <= cursor
          BY <1>1, <1>4, <3>3, <4>2 DEF ChainPart, Reached
        <5>2. a # n /\ batch'[a] = batch[a]
          BY <1>4, <1>5, <2>2, <3>3, <5>1
        <5> QED
          BY <1>1, <3>3, <5>1, <5>2 DEF ChainPart, Follows
      <4> QED
        BY <4>1, <4>2
    <3> QED
      BY <1>2, <3>1, <3>2, <3>3 DEF ChainPart, Follows
  <2> QED
    BY <1>3, <2>1, <2>2
<1>8. SweepPart'
  <2> SUFFICES ASSUME NEW t \in Sweeps PROVE Knows(t)'
    BY DEF SweepPart
  <2>1. after[t] \in Afters /\ Knows(t)
    BY <1>1 DEF SupervisionTypeOK, SweepPart
  <2>2. Reached(after[t]) => Reached(after[t])'
    BY <1>2, <1>4, <2>1 DEF Reached
  <2>3. CASE t = s
    BY <1>1, <1>2, <1>4, <2>1, <2>2, <2>3 DEF Knows, SupervisionTypeOK, Working, n
  <2>4. CASE t # s
    BY <1>1, <1>2, <1>4, <2>1, <2>2, <2>4 DEF Knows, SupervisionTypeOK, Working
  <2> QED
    BY <2>3, <2>4
<1>9. RangePart'
  <2>1. ASSUME NEW a \in Afters PROVE Whole(batch[a], a)'
    <3>1. CASE batch'[a] = batch[a]
      BY <1>1, <1>2, <3>1 DEF RangePart, Whole, teamVars
    <3>2. CASE a = n /\ batch'[a] = listed[s]
      BY <1>1, <1>2, <3>2 DEF RangePart, Whole, teamVars, n
    <3> QED
      BY <1>1, <1>3, <1>4, <3>1, <3>2 DEF SupervisionTypeOK
  <2>2. \A t \in Sweeps : Whole(listed[t], after[t])' /\ listed'[t] \subseteq inserted'
    BY <1>1, <1>2 DEF RangePart, Whole, teamVars
  <2> QED
    BY <2>1, <2>2 DEF RangePart
<1>10. ToldPart'
  <2>1. ASSUME NEW a \in Afters, batch[a] # {}, Told(a) PROVE Told(a)'
    BY <1>1, <1>2, <1>4, <2>1, ToldStays DEF teamVars, mailVars
  <2>2. ASSUME NEW t \in Sweeps, place'[t] \in {"mark", "advance"}
        PROVE  place[t] \in {"mark", "advance"} /\ batch[after[t]] # {} /\ after'[t] = after[t]
    BY <1>1, <1>2, <2>2 DEF SupervisionTypeOK, SweepPart, Knows, Working
  <2>3. \A a \in delivered' : Told(a)'
    BY <1>1, <1>2, <2>1 DEF ToldPart, SupervisionTypeOK
  <2>4. \A t \in Sweeps : place'[t] \in {"mark", "advance"} => Told(after[t])'
    BY <1>1, <1>2, <2>1, <2>2 DEF ToldPart, SupervisionTypeOK
  <2>5. \A e \in inserted \ late : e <= cursor => \E a \in Afters : e \in batch'[a] /\ Told(a)'
    BY <1>1, <1>4, <2>1 DEF ToldPart
  <2> QED
    BY <1>2, <2>3, <2>4, <2>5 DEF ToldPart, teamVars
<1>11. MailPart'
  <2>1. \A t \in Sweeps : place'[t] = "acknowledge" => place[t] = "acknowledge"
    BY <1>1, <1>2 DEF SupervisionTypeOK
  <2> QED
    BY <1>2, <2>1 DEF SInv, MailPart, Held, teamVars, mailVars
<1> QED
  BY <1>6, <1>7, <1>8, <1>9, <1>10, <1>11 DEF SInv
-----------------------------------------------------------------------------
(* The sweep delivers its batch. *)

(* A sweep with its batch that goes from one step of the delivery to another. *)
LEMMA WorkingStep ==
  ASSUME SInv, NEW s \in Sweeps, place[s] \in Working,
         NEW p \in Working \cup {"release"}, place' = [place EXCEPT ![s] = p],
         delivered \subseteq delivered',
         UNCHANGED <<inserted, late, cursor, batch, after, listed, sawDelivered>>
  PROVE  ChainPart' /\ SweepPart' /\ RangePart'
<1>1. ChainPart' /\ \A n \in Afters : Reached(n)' <=> Reached(n)
  BY ChainStays DEF SInv
<1>2. RangePart'
  BY DEF SInv, RangePart, Whole
<1>3. ASSUME NEW t \in Sweeps PROVE Knows(t)'
  <2>1. Knows(t) /\ after[t] \in Afters
    BY DEF SInv, SweepPart, SupervisionTypeOK
  <2>2. CASE t = s
    BY <1>1, <2>1, <2>2 DEF SInv, SupervisionTypeOK, Knows, Working
  <2>3. CASE t # s
    BY <1>1, <2>1, <2>3 DEF SInv, SupervisionTypeOK, Knows, Working
  <2> QED
    BY <2>2, <2>3
<1> QED
  BY <1>1, <1>2, <1>3 DEF SweepPart

(* A step that takes no message back and brings no sweep to the mark keeps what Root has
   been told. *)
LEMMA MailboxStep ==
  ASSUME SInv, UNCHANGED <<teamVars, cursor, batchVars, after>>,
         \A e \in Seqs : mail[e] = "acknowledged" => mail'[e] = "acknowledged",
         \A t \in Sweeps : place'[t] \in {"mark", "advance"} => place[t] \in {"mark", "advance"}
  PROVE  ToldPart'
<1>1. ASSUME NEW a \in Afters, Told(a) PROVE Told(a)'
  <2>1. batch[a] \subseteq Seqs /\ SupervisionTypeOK
    BY DEF SInv, SupervisionTypeOK
  <2> QED
    BY <1>1, <2>1, ToldStays DEF teamVars, batchVars
<1> QED
  BY <1>1 DEF SInv, ToldPart, SupervisionTypeOK, teamVars, batchVars

LEMMA ClaimMailboxKeeps ==
  ASSUME SInv, NEW s \in Sweeps, ClaimMailbox(s)
  PROVE  SInv'
<1> DEFINE open == {e \in Seqs : mail[e] \in {"pending", "stale"}}
<1> DEFINE p == IF open = {} THEN "inject" ELSE "deliver"
<1>1. SupervisionTypeOK /\ MailPart /\ place[s] = "claim" /\ p \in {"inject", "deliver"}
  BY DEF SInv, ClaimMailbox, At
<1>2. /\ mail' = [e \in Seqs |-> IF e \in open THEN s ELSE mail[e]]
      /\ place' = [place EXCEPT ![s] = p]
      /\ UNCHANGED <<teamVars, cursor, lease, batchVars, mailRows, rootReady, after, listed, sawDelivered, faults>>
  BY DEF ClaimMailbox, Goto
<1> HIDE DEF p
<1>3. s \notin {"none", "pending", "stale", "acknowledged"}
  BY SupervisionAssumption DEF SupervisionAssumption
<1>4. SupervisionTypeOK'
  BY <1>1, <1>2, <1>3 DEF SupervisionTypeOK, teamVars, batchVars
<1>5. ChainPart' /\ SweepPart' /\ RangePart'
  BY <1>1, <1>2, WorkingStep DEF Working, teamVars, batchVars
<1>6. ToldPart'
  BY <1>1, <1>2, MailboxStep DEF SupervisionTypeOK
<1>7. MailPart'
  <2>1. \A e \in Seqs : mail'[e] = "acknowledged" => mail[e] = "acknowledged"
    BY <1>2, <1>3
  <2>2. ASSUME NEW t \in Sweeps, place'[t] = "acknowledge" PROVE place[t] = "acknowledge" /\ Held(t)' \subseteq Held(t)
    BY <1>1, <1>2, <2>2 DEF SupervisionTypeOK, Held
  <2>3. \A e \in Seqs : mail[e] = "none" => mail'[e] = "none"
    BY <1>2
  <2> QED
    BY <1>1, <1>2, <2>1, <2>2, <2>3 DEF MailPart, teamVars
<1> QED
  BY <1>4, <1>5, <1>6, <1>7 DEF SInv

LEMMA DeliverMailboxKeeps ==
  ASSUME SInv, NEW s \in Sweeps, DeliverMailbox(s)
  PROVE  SInv'
<1>1. SupervisionTypeOK /\ MailPart /\ place[s] = "deliver"
  BY DEF SInv, DeliverMailbox, At
<1>2. UNCHANGED <<teamVars, cursor, lease, batchVars, rootReady, after, listed, sawDelivered, faults>>
  BY DEF DeliverMailbox
<1>3. s \notin {"none", "pending", "stale", "acknowledged"}
  BY SupervisionAssumption DEF SupervisionAssumption
<1>4. PICK D \in SUBSET Held(s) :
         /\ mailRows' = mailRows \cup D
         /\ \/ D = Held(s) /\ mail' = mail /\ place' = [place EXCEPT ![s] = "acknowledge"]
            \/ /\ mail' = [e \in Seqs |-> IF mail[e] = s THEN "pending" ELSE mail[e]]
               /\ place' = [place EXCEPT ![s] = "inject"]
  BY DEF DeliverMailbox, Goto
<1>5. \/ D = Held(s) /\ mail' = mail /\ place' = [place EXCEPT ![s] = "acknowledge"]
      \/ /\ mail' = [e \in Seqs |-> IF mail[e] = s THEN "pending" ELSE mail[e]]
         /\ place' = [place EXCEPT ![s] = "inject"]
  BY <1>4
<1>6. /\ \A e \in Seqs : mail'[e] = "acknowledged" <=> mail[e] = "acknowledged"
      /\ \A e \in Seqs : mail'[e] = "none" <=> mail[e] = "none"
      /\ mail' \in [Seqs -> Sweeps \cup {"none", "pending", "stale", "acknowledged"}]
  BY <1>1, <1>3, <1>5 DEF SupervisionTypeOK
<1>7. SupervisionTypeOK'
  <2>1. mailRows' \subseteq {e \in Seqs : mail'[e] # "none"}
    BY <1>1, <1>3, <1>4, <1>6 DEF SupervisionTypeOK, Held
  <2> QED
    BY <1>1, <1>2, <1>5, <1>6, <2>1 DEF SupervisionTypeOK, teamVars, batchVars
<1>8. ChainPart' /\ SweepPart' /\ RangePart'
  BY <1>1, <1>2, <1>5, WorkingStep DEF Working, teamVars, batchVars
<1>9. ToldPart'
  BY <1>1, <1>2, <1>5, <1>6, MailboxStep DEF SupervisionTypeOK
<1>10. MailPart'
  <2>1. ASSUME NEW t \in Sweeps, place'[t] = "acknowledge" PROVE Held(t)' \subseteq mailRows'
    <3>1. CASE t = s
      BY <1>1, <1>4, <1>5, <2>1, <3>1 DEF SupervisionTypeOK, Held
    <3>2. CASE t # s
      <4>1. place[t] = "acknowledge" /\ Held(t)' \subseteq Held(t)
        <5>1. t # "pending"
          BY SupervisionAssumption DEF SupervisionAssumption
        <5> QED
          BY <1>1, <1>5, <2>1, <3>2, <5>1 DEF SupervisionTypeOK, Held
      <4> QED
        BY <1>1, <1>4, <4>1 DEF MailPart
    <3> QED
      BY <3>1, <3>2
  <2> QED
    BY <1>1, <1>2, <1>4, <1>6, <2>1 DEF MailPart, teamVars
<1> QED
  BY <1>7, <1>8, <1>9, <1>10 DEF SInv

LEMMA AcknowledgeMailboxKeeps ==
  ASSUME SInv, NEW s \in Sweeps, AcknowledgeMailbox(s)
  PROVE  SInv'
<1>1. SupervisionTypeOK /\ MailPart /\ place[s] = "acknowledge"
  BY DEF SInv, AcknowledgeMailbox, At
<1>2. /\ place' = [place EXCEPT ![s] = "inject"]
      /\ mail' = [e \in Seqs |-> IF mail[e] = s THEN "acknowledged" ELSE mail[e]]
      /\ UNCHANGED <<teamVars, cursor, lease, batchVars, mailRows, rootReady, after, listed, sawDelivered, faults>>
  BY DEF AcknowledgeMailbox, Goto
<1>3. s \notin {"none", "pending", "stale", "acknowledged"}
  BY SupervisionAssumption DEF SupervisionAssumption
<1>4. SupervisionTypeOK'
  BY <1>1, <1>2, <1>3 DEF SupervisionTypeOK, teamVars, batchVars
<1>5. ChainPart' /\ SweepPart' /\ RangePart'
  BY <1>1, <1>2, WorkingStep DEF Working, teamVars, batchVars
<1>6. ToldPart'
  BY <1>1, <1>2, MailboxStep DEF SupervisionTypeOK
<1>7. MailPart'
  <2>1. \A e \in Seqs : mail'[e] = "acknowledged" => e \in mailRows
    BY <1>1, <1>2 DEF MailPart, Held
  <2>2. ASSUME NEW t \in Sweeps, place'[t] = "acknowledge" PROVE place[t] = "acknowledge" /\ Held(t)' \subseteq Held(t)
    <3>1. t # "acknowledged"
      BY SupervisionAssumption DEF SupervisionAssumption
    <3> QED
      BY <1>1, <1>2, <2>2, <3>1 DEF SupervisionTypeOK, Held
  <2>3. \A e \in Seqs : mail[e] = "none" => mail'[e] = "none"
    BY <1>2, <1>3
  <2> QED
    BY <1>1, <1>2, <2>1, <2>2, <2>3 DEF MailPart, teamVars
<1> QED
  BY <1>4, <1>5, <1>6, <1>7 DEF SInv

LEMMA InjectDigestKeeps ==
  ASSUME SInv, NEW s \in Sweeps, InjectDigest(s)
  PROVE  SInv'
<1> DEFINE n == after[s]
<1>1. /\ SupervisionTypeOK /\ SweepPart /\ ToldPart /\ place[s] = "inject" /\ n \in Afters
      /\ digests \in [Afters -> 0..1]
  BY DEF SInv, InjectDigest, At, SupervisionTypeOK
<1>2. UNCHANGED <<teamVars, cursor, lease, batch, delivered, mailVars, rootReady, after, listed,
                  sawDelivered, faults>>
  BY DEF InjectDigest
<1>3. \/ digests' = digests
      \/ digests[n] = 0 /\ digests' = [digests EXCEPT ![n] = 1]
  BY <1>1 DEF InjectDigest, Enqueues
<1>4. PICK p \in {"release", "mark"} : place' = [place EXCEPT ![s] = p]
  BY DEF InjectDigest, Goto
<1>5. SupervisionTypeOK'
  BY <1>1, <1>2, <1>3, <1>4 DEF SupervisionTypeOK, teamVars, mailVars
<1>6. ChainPart' /\ SweepPart' /\ RangePart'
  BY <1>1, <1>2, <1>4, WorkingStep DEF Working, teamVars
<1>7. ASSUME NEW a \in Afters, Told(a) PROVE Told(a)'
  <2>1. digests[a] > 0 => digests'[a] > 0
    BY <1>1, <1>3
  <2> QED
    BY <1>1, <1>2, <1>7, <2>1, ToldStays DEF teamVars, mailVars
\* A sweep goes to the mark only when Root has been told of its batch.
<1>8. ASSUME place'[s] = "mark" PROVE Told(n)'
  <2>1. MailboxSettled(n) /\ (sawDelivered[s] \/ Routine(n) = {} \/ digests'[n] > 0)
    <3>1. place'[s] # "release"
      BY <1>8
    <3>2. MailboxSettled(n)
      BY <1>1, <3>1 DEF InjectDigest, Goto, SupervisionTypeOK
    <3>3. CASE sawDelivered[s] \/ Routine(n) = {}
      BY <3>2, <3>3
    <3>4. CASE ~(sawDelivered[s] \/ Routine(n) = {})
      <4>1. digests' = IF digests[n] = 0 THEN [digests EXCEPT ![n] = digests[n] + 1] ELSE digests
        BY <3>2, <3>4 DEF InjectDigest, Enqueues
      <4>2. digests'[n] > 0
        BY <1>1, <4>1
      <4> QED
        BY <3>2, <4>2
    <3> QED
      BY <3>3, <3>4
  <2>2. MailboxSettled(n)' /\ Routine(n)' = Routine(n)
    BY <1>2, <2>1 DEF MailboxSettled, Routine, teamVars, mailVars
  <2>3. CASE sawDelivered[s]
    BY <1>1, <1>2, <1>7, <2>3 DEF SweepPart, Knows, ToldPart
  <2>4. CASE Routine(n) = {} \/ digests'[n] > 0
    <3>1. after'[s] = after[s]
      BY <1>2
    <3>2. Routine(n)' # {} => digests'[after'[s]] > 0
      BY <2>2, <2>4, <3>1
    <3> QED
      BY <2>2, <3>2 DEF Told
  <2> QED
    BY <2>1, <2>3, <2>4
<1>9. ToldPart'
  <2>1. \A a \in delivered' : Told(a)'
    BY <1>1, <1>2, <1>7 DEF ToldPart, SupervisionTypeOK
  <2>2. ASSUME NEW t \in Sweeps, place'[t] \in {"mark", "advance"} PROVE Told(after[t])'
    <3>1. CASE t = s
      BY <1>1, <1>2, <1>4, <1>8, <2>2, <3>1 DEF SupervisionTypeOK
    <3>2. CASE t # s
      BY <1>1, <1>2, <1>4, <1>7, <2>2, <3>2 DEF ToldPart, SupervisionTypeOK
    <3> QED
      BY <3>1, <3>2
  <2>3. \A e \in inserted \ late : e <= cursor => \E a \in Afters : e \in batch'[a] /\ Told(a)'
    BY <1>1, <1>2, <1>7 DEF ToldPart
  <2> QED
    BY <1>2, <2>1, <2>2, <2>3 DEF ToldPart, teamVars
<1>10. MailPart'
  <2>1. \A t \in Sweeps : place'[t] = "acknowledge" => place[t] = "acknowledge"
    BY <1>1, <1>4 DEF SupervisionTypeOK
  <2> QED
    BY <1>2, <2>1 DEF SInv, MailPart, Held, teamVars, mailVars
<1> QED
  BY <1>5, <1>6, <1>9, <1>10 DEF SInv

LEMMA MarkDeliveredKeeps ==
  ASSUME SInv, NEW s \in Sweeps, MarkDelivered(s)
  PROVE  SInv'
<1>1. SupervisionTypeOK /\ SweepPart /\ ToldPart /\ place[s] = "mark" /\ after[s] \in Afters
  BY DEF SInv, MarkDelivered, At, SupervisionTypeOK
<1>2. /\ place' = [place EXCEPT ![s] = "advance"] /\ delivered' = delivered \cup {after[s]}
      /\ UNCHANGED <<teamVars, cursor, lease, batch, digests, mailVars, rootReady, after, listed,
                     sawDelivered, faults>>
  BY DEF MarkDelivered, Goto
<1>3. batch[after[s]] # {} /\ Told(after[s])
  BY <1>1 DEF SweepPart, Knows, Working, ToldPart
<1>4. SupervisionTypeOK'
  BY <1>1, <1>2, <1>3 DEF SupervisionTypeOK, teamVars, mailVars
<1>5. ChainPart' /\ SweepPart' /\ RangePart'
  BY <1>1, <1>2, WorkingStep DEF Working, teamVars
<1>6. \A a \in Afters : Told(a)' <=> Told(a)
  BY <1>2 DEF Told, MailboxSettled, Routine, teamVars, mailVars
<1>7. ToldPart'
  <2>1. \A t \in Sweeps : place'[t] \in {"mark", "advance"} => place[t] \in {"mark", "advance"}
    BY <1>1, <1>2 DEF SupervisionTypeOK
  <2> QED
    BY <1>1, <1>2, <1>3, <1>6, <2>1 DEF ToldPart, SupervisionTypeOK, teamVars
<1>8. MailPart'
  <2>1. \A t \in Sweeps : place'[t] = "acknowledge" => place[t] = "acknowledge"
    BY <1>1, <1>2 DEF SupervisionTypeOK
  <2> QED
    BY <1>2, <2>1 DEF SInv, MailPart, Held, teamVars, mailVars
<1> QED
  BY <1>4, <1>5, <1>7, <1>8 DEF SInv

LEMMA AdvanceCursorKeeps ==
  ASSUME SInv, NEW s \in Sweeps, AdvanceCursor(s)
  PROVE  SInv'
<1> DEFINE n == after[s]
<1> DEFINE through == Max(batch[n])
<1>1. /\ SupervisionTypeOK /\ SweepPart /\ ChainPart /\ RangePart /\ ToldPart
      /\ place[s] = "advance" /\ n \in Afters /\ batch[n] # {} /\ Reached(n) /\ Told(n)
  BY DEF SInv, AdvanceCursor, At, SupervisionTypeOK, SweepPart, Knows, Working, ToldPart
<1>2. /\ place' = [place EXCEPT ![s] = "release"]
      /\ cursor' = IF lease = s /\ cursor < through THEN through ELSE cursor
      /\ UNCHANGED <<teamVars, lease, batchVars, mailVars, rootReady, after, listed, sawDelivered, faults>>
  BY DEF AdvanceCursor, Goto
<1>3. through \in batch[n] /\ \A e \in batch[n] : e <= through
  <2>1. batch[n] \in SUBSET (0..MaxTeamEvents) /\ MaxTeamEvents \in Nat
    BY <1>1, SupervisionAssumption DEF SupervisionTypeOK, Seqs, SupervisionAssumption
  <2> QED
    BY <1>1, <2>1, MaxBelow
<1> HIDE DEF through
<1>4. /\ cursor \in Afters /\ through \in Afters /\ Afters \subseteq Int /\ inserted \subseteq Int
      /\ \A a \in Afters : batch[a] \subseteq Afters
  BY <1>1, <1>3, SupervisionAssumption DEF SupervisionTypeOK, Afters, Seqs, SupervisionAssumption
\* The cursor stays, or moves to the end of the batch that starts at it.
<1>5. \/ cursor' = cursor
      \/ n = cursor /\ cursor < through /\ cursor' = through
  <2>1. ASSUME cursor < through PROVE n = cursor
    <3>1. n = cursor \/ \A e \in batch[n] : e <= cursor
      BY <1>1 DEF Reached
    <3>2. n = cursor \/ through <= cursor
      BY <1>3, <3>1
    <3>3. ~(through <= cursor)
      BY <1>4, <2>1 DEF Afters
    <3> QED
      BY <3>2, <3>3
  <2> QED
    BY <1>2, <2>1
<1>6. cursor' \in Afters /\ cursor <= cursor'
  BY <1>4, <1>5
<1>7. SupervisionTypeOK'
  BY <1>1, <1>2, <1>6 DEF SupervisionTypeOK, teamVars, batchVars, mailVars
<1>8. ASSUME NEW a \in Afters, Reached(a) PROVE Reached(a)'
  <2>1. CASE cursor' = cursor
    BY <1>2, <1>8, <2>1 DEF Reached, batchVars
  <2>2. CASE n = cursor /\ cursor < through /\ cursor' = through
    <3>1. a <= cursor'
      BY <1>4, <1>6, <1>8 DEF Reached
    <3>2. batch[a] # {} /\ \A e \in batch[a] : e <= cursor'
      <4>1. CASE a = cursor
        BY <1>1, <1>3, <2>2, <4>1
      <4>2. CASE a # cursor
        <5>1. batch[a] # {} /\ \A e \in batch[a] : e <= cursor /\ e \in Int
          BY <1>4, <1>8, <4>2 DEF Reached
        <5> QED
          BY <1>4, <1>6, <5>1
      <4> QED
        BY <4>1, <4>2
    <3> QED
      BY <1>2, <3>1, <3>2 DEF Reached, batchVars
  <2> QED
    BY <1>5, <2>1, <2>2
<1>9. ChainPart'
  <2>1. cursor' = 0 \/ \E a \in Afters : cursor' \in batch[a]
    BY <1>1, <1>3, <1>5 DEF ChainPart
  <2> QED
    BY <1>1, <1>2, <1>8, <2>1 DEF ChainPart, Follows, batchVars
<1>10. SweepPart'
  <2> SUFFICES ASSUME NEW t \in Sweeps PROVE Knows(t)'
    BY DEF SweepPart
  <2>1. Knows(t) /\ after[t] \in Afters /\ (Reached(after[t]) => Reached(after[t])')
    BY <1>1, <1>2, <1>8 DEF SweepPart, SupervisionTypeOK
  <2>2. CASE t = s
    BY <1>1, <1>2, <2>1, <2>2 DEF Knows, SupervisionTypeOK, Working, batchVars
  <2>3. CASE t # s
    BY <1>1, <1>2, <2>1, <2>3 DEF Knows, SupervisionTypeOK, Working, batchVars
  <2> QED
    BY <2>2, <2>3
<1>11. RangePart'
  BY <1>1, <1>2 DEF RangePart, Whole, teamVars, batchVars
<1>12. ToldPart'
  <2>1. \A a \in Afters : Told(a)' <=> Told(a)
    BY <1>2 DEF Told, MailboxSettled, Routine, teamVars, batchVars, mailVars
  <2>2. \A t \in Sweeps : place'[t] \in {"mark", "advance"} => place[t] \in {"mark", "advance"}
    BY <1>1, <1>2 DEF SupervisionTypeOK
  <2>3. ASSUME NEW e \in inserted \ late, e <= cursor' PROVE \E a \in Afters : e \in batch[a] /\ Told(a)
    <3>1. CASE e <= cursor
      BY <1>1, <3>1 DEF ToldPart
    <3>2. CASE ~(e <= cursor)
      <4>1. n = cursor /\ cursor' = through /\ n < e
        <5>1. cursor' # cursor
          BY <2>3, <3>2
        <5>2. n = cursor /\ cursor' = through
          BY <1>5, <5>1
        <5>3. e \in Int /\ cursor \in Int
          BY <1>4, <2>3
        <5>4. cursor < e
          BY <3>2, <5>3
        <5> QED
          BY <5>2, <5>4
      <4>2. e \in batch[n]
        BY <1>1, <1>3, <2>3, <4>1 DEF RangePart, Whole
      <4> QED
        BY <1>1, <4>2
    <3> QED
      BY <3>1, <3>2
  <2> QED
    BY <1>1, <1>2, <2>1, <2>2, <2>3 DEF ToldPart, SupervisionTypeOK, teamVars, batchVars
<1>13. MailPart'
  <2>1. \A t \in Sweeps : place'[t] = "acknowledge" => place[t] = "acknowledge"
    BY <1>1, <1>2 DEF SupervisionTypeOK
  <2> QED
    BY <1>2, <2>1 DEF SInv, MailPart, Held, teamVars, mailVars
<1> QED
  BY <1>7, <1>9, <1>10, <1>11, <1>12, <1>13 DEF SInv
-----------------------------------------------------------------------------
(* The sweep ends, dies or loses its lease. *)

(* A sweep that ends, or dies, forgets what it knew. *)
LEMMA SweepForgets ==
  ASSUME SInv, NEW s \in Sweeps,
         place' = [place EXCEPT ![s] = "idle"], after' = [after EXCEPT ![s] = 0],
         listed' = [listed EXCEPT ![s] = {}], sawDelivered' = [sawDelivered EXCEPT ![s] = FALSE],
         \A e \in Seqs : mail[e] = "acknowledged" => mail'[e] = "acknowledged",
         UNCHANGED <<teamVars, cursor, batchVars>>
  PROVE  ChainPart' /\ SweepPart' /\ RangePart' /\ ToldPart'
<1>1. SupervisionTypeOK
  BY DEF SInv
<1>2. ChainPart' /\ \A n \in Afters : Reached(n)' <=> Reached(n)
  BY ChainStays DEF SInv, batchVars
<1>3. ASSUME NEW t \in Sweeps PROVE Knows(t)'
  <2>1. Knows(t) /\ after[t] \in Afters
    BY <1>1 DEF SInv, SweepPart, SupervisionTypeOK
  <2>2. CASE t = s
    BY <1>1, <2>2 DEF SupervisionTypeOK, Knows, Working
  <2>3. CASE t # s
    BY <1>1, <1>2, <2>1, <2>3 DEF SupervisionTypeOK, Knows, Working, batchVars
  <2> QED
    BY <2>2, <2>3
<1>4. RangePart'
  <2>1. \A t \in Sweeps : listed'[t] = {} \/ (listed'[t] = listed[t] /\ after'[t] = after[t])
    BY <1>1 DEF SupervisionTypeOK
  <2> QED
    BY <2>1, RangesStay DEF SInv, teamVars, batchVars
<1>5. ToldPart'
  <2>1. ASSUME NEW a \in Afters, Told(a) PROVE Told(a)'
    <3>1. batch[a] \subseteq Seqs
      BY <1>1 DEF SupervisionTypeOK
    <3> QED
      BY <1>1, <2>1, <3>1, ToldStays DEF teamVars, batchVars
  <2>2. \A t \in Sweeps : place'[t] \in {"mark", "advance"} => place[t] \in {"mark", "advance"} /\ after'[t] = after[t]
    BY <1>1 DEF SupervisionTypeOK
  <2> QED
    BY <1>1, <2>1, <2>2 DEF SInv, ToldPart, SupervisionTypeOK, teamVars, batchVars
<1> QED
  BY <1>2, <1>3, <1>4, <1>5 DEF SweepPart

LEMMA ReleaseSupervisionLeaseKeeps ==
  ASSUME SInv, NEW s \in Sweeps, ReleaseSupervisionLease(s)
  PROVE  SInv'
<1>1. /\ SupervisionTypeOK /\ place' = [place EXCEPT ![s] = "idle"]
      /\ UNCHANGED <<teamVars, cursor, batchVars, mailVars, rootReady, faults>>
  BY DEF SInv, ReleaseSupervisionLease, Goto
<1>2. 0 \in Afters
  BY SupervisionAssumption DEF SupervisionAssumption, Afters
<1>3. SupervisionTypeOK'
  BY <1>1, <1>2 DEF ReleaseSupervisionLease, SupervisionTypeOK, teamVars, batchVars, mailVars
<1>4. ChainPart' /\ SweepPart' /\ RangePart' /\ ToldPart'
  BY <1>1, SweepForgets DEF ReleaseSupervisionLease, mailVars
<1>5. MailPart'
  <2>1. \A t \in Sweeps : place'[t] = "acknowledge" => place[t] = "acknowledge"
    BY <1>1 DEF SupervisionTypeOK
  <2> QED
    BY <1>1, <2>1 DEF SInv, MailPart, Held, teamVars, mailVars
<1> QED
  BY <1>3, <1>4, <1>5 DEF SInv

(* Claims on the mailbox that become stale. *)
LEMMA MailBecomesStale ==
  ASSUME SInv, NEW s \in Sweeps, NEW stale \in BOOLEAN,
         mail' = [e \in Seqs |-> IF stale /\ mail[e] = s THEN "stale" ELSE mail[e]],
         UNCHANGED <<nextSeq, mailRows>>,
         \A t \in Sweeps : place'[t] = "acknowledge" => place[t] = "acknowledge"
  PROVE  /\ MailPart' /\ \A e \in Seqs : mail[e] = "acknowledged" => mail'[e] = "acknowledged"
         /\ mail' \in [Seqs -> Sweeps \cup {"none", "pending", "stale", "acknowledged"}]
         /\ mailRows \subseteq {e \in Seqs : mail'[e] # "none"}
<1>1. SupervisionTypeOK /\ MailPart
  BY DEF SInv
<1>2. \A t \in Sweeps : t \notin {"none", "pending", "stale", "acknowledged"}
  BY SupervisionAssumption DEF SupervisionAssumption
<1>3. \A e \in Seqs : /\ mail'[e] = "acknowledged" <=> mail[e] = "acknowledged"
                      /\ mail'[e] = "none" <=> mail[e] = "none"
  BY <1>1, <1>2 DEF SupervisionTypeOK
<1>4. \A t \in Sweeps : Held(t)' \subseteq Held(t)
  BY <1>1, <1>2 DEF SupervisionTypeOK, Held
<1>5. MailPart'
  BY <1>1, <1>3, <1>4 DEF MailPart
<1> QED
  BY <1>1, <1>3, <1>5 DEF SupervisionTypeOK

LEMMA SweepDiesKeeps ==
  ASSUME SInv, NEW s \in Sweeps, SweepDies(s)
  PROVE  SInv'
<1>1. /\ SupervisionTypeOK /\ place' = [place EXCEPT ![s] = "idle"]
      /\ faults' = faults + 1 /\ faults < MaxSupervisionFaults
      /\ mail' = [e \in Seqs |-> IF TRUE /\ mail[e] = s THEN "stale" ELSE mail[e]]
      /\ UNCHANGED <<teamVars, cursor, batchVars, mailRows, rootReady>>
  BY DEF SInv, SweepDies, Goto, Fault
<1>2. 0 \in Afters /\ faults' \in 0..MaxSupervisionFaults
  BY <1>1, SupervisionAssumption DEF SupervisionAssumption, Afters, SupervisionTypeOK
<1>3. \A t \in Sweeps : place'[t] = "acknowledge" => place[t] = "acknowledge"
  BY <1>1 DEF SupervisionTypeOK
<1>4. /\ MailPart' /\ \A e \in Seqs : mail[e] = "acknowledged" => mail'[e] = "acknowledged"
      /\ mail' \in [Seqs -> Sweeps \cup {"none", "pending", "stale", "acknowledged"}]
      /\ mailRows \subseteq {e \in Seqs : mail'[e] # "none"}
  BY <1>1, <1>3, MailBecomesStale DEF teamVars
<1>5. SupervisionTypeOK'
  BY <1>1, <1>2, <1>4 DEF SweepDies, SupervisionTypeOK, teamVars, batchVars
<1>6. ChainPart' /\ SweepPart' /\ RangePart' /\ ToldPart'
  BY <1>1, <1>4, SweepForgets DEF SweepDies
<1> QED
  BY <1>4, <1>5, <1>6 DEF SInv

LEMMA SweepLapsesKeeps ==
  ASSUME SInv, NEW s \in Sweeps, SweepLapses(s)
  PROVE  SInv'
<1>1. /\ SupervisionTypeOK /\ lease' = NoSweep
      /\ faults' = faults + 1 /\ faults < MaxSupervisionFaults
      /\ UNCHANGED <<teamVars, cursor, batchVars, mailRows, rootReady, sweepVars>>
  BY DEF SInv, SweepLapses, Fault
<1>2. faults' \in 0..MaxSupervisionFaults
  BY <1>1, SupervisionAssumption DEF SupervisionAssumption, SupervisionTypeOK
<1>3. PICK stale \in BOOLEAN : mail' = [e \in Seqs |-> IF stale /\ mail[e] = s THEN "stale" ELSE mail[e]]
  BY DEF SweepLapses
<1>4. /\ MailPart' /\ \A e \in Seqs : mail[e] = "acknowledged" => mail'[e] = "acknowledged"
      /\ mail' \in [Seqs -> Sweeps \cup {"none", "pending", "stale", "acknowledged"}]
      /\ mailRows \subseteq {e \in Seqs : mail'[e] # "none"}
  BY <1>1, <1>3, MailBecomesStale DEF teamVars, sweepVars
<1>5. SupervisionTypeOK'
  BY <1>1, <1>2, <1>4 DEF SupervisionTypeOK, teamVars, batchVars, sweepVars
<1>6. ChainPart' /\ SweepPart' /\ RangePart'
  BY <1>1, ChainStays, SweepsStay, RangesStay DEF SInv, teamVars, batchVars, sweepVars
<1>7. ToldPart'
  BY <1>1, <1>4, MailboxStep DEF sweepVars
<1> QED
  BY <1>4, <1>5, <1>6, <1>7 DEF SInv

-----------------------------------------------------------------------------
(* The invariant, and what it says of Root. *)

LEMMA SupervisionStep ==
  ASSUME SInv, [SupervisionNext]_supervisionVars
  PROVE  SInv'
<1>1. CASE UNCHANGED supervisionVars
  <2>1. UNCHANGED <<teamVars, cursor, lease, batchVars, mailVars, rootReady, sweepVars, faults>>
    BY <1>1 DEF supervisionVars
  <2>2. SupervisionTypeOK'
    BY <2>1 DEF SInv, SupervisionTypeOK, teamVars, batchVars, mailVars, sweepVars
  <2>3. ChainPart' /\ SweepPart' /\ RangePart'
    BY <2>1, ChainStays, SweepsStay, RangesStay DEF SInv, teamVars, batchVars, sweepVars
  <2>4. ToldPart' /\ MailPart'
    BY <2>1, MailboxStep DEF SInv, MailPart, Held, teamVars, mailVars, sweepVars
  <2> QED
    BY <2>2, <2>3, <2>4 DEF SInv
<1>2. CASE (\E k \in {"routine", "message", "silent"} : TakeSeq(k)) \/ (\E e \in Seqs : InsertEvent(e)) \/ RootChanges
  BY <1>2, TakeSeqKeeps, InsertEventKeeps, RootChangesKeeps
<1>3. ASSUME NEW s \in Sweeps,
             ClaimSupervisionLease(s) \/ ListEvents(s) \/ FreezeBatch(s) \/ ClaimMailbox(s)
             \/ DeliverMailbox(s) \/ AcknowledgeMailbox(s)
      PROVE  SInv'
  BY <1>3, ClaimSupervisionLeaseKeeps, ListEventsKeeps, FreezeBatchKeeps, ClaimMailboxKeeps,
     DeliverMailboxKeeps, AcknowledgeMailboxKeeps
<1>4. ASSUME NEW s \in Sweeps,
             InjectDigest(s) \/ MarkDelivered(s) \/ AdvanceCursor(s) \/ ReleaseSupervisionLease(s)
             \/ SweepDies(s) \/ SweepLapses(s)
      PROVE  SInv'
  BY <1>4, InjectDigestKeeps, MarkDeliveredKeeps, AdvanceCursorKeeps, ReleaseSupervisionLeaseKeeps,
     SweepDiesKeeps, SweepLapsesKeeps
<1> QED
  BY <1>1, <1>2, <1>3, <1>4 DEF SupervisionNext

(* Two batches share no event, and a batch has one digest at most. *)
LEMMA OnceFromChain ==
  ASSUME SInv
  PROVE  EventOnce
<1> SUFFICES ASSUME NEW e \in Seqs, NEW a \in Afters, NEW b \in Afters, e \in batch[a], e \in batch[b]
             PROVE  a = b /\ digests[a] <= 1
  BY DEF EventOnce, Routine
<1>1. Follows(a, b) /\ Follows(b, a) /\ a < e /\ b < e
  BY DEF SInv, ChainPart
<1>2. a \in Int /\ b \in Int /\ e \in Int
  BY SupervisionAssumption DEF Afters, Seqs, SupervisionAssumption
<1>3. digests[a] \in 0..1
  BY DEF SInv, SupervisionTypeOK
<1>4. ~(a < b) /\ ~(b < a)
  BY <1>1, <1>2 DEF Follows
<1> QED
  BY <1>2, <1>3, <1>4

(* An event the cursor has passed is in a batch Root has been told of. *)
LEMMA PassedFromTold ==
  ASSUME SInv
  PROVE  PassedEventsDelivered
<1> SUFFICES ASSUME NEW e \in inserted \ late, e <= cursor
             PROVE  /\ eventKind[e] = "routine" => \E a \in Afters : e \in batch[a] /\ digests[a] > 0
                    /\ eventKind[e] = "message" => e \in mailRows
  BY DEF PassedEventsDelivered
<1>1. PICK a \in Afters : e \in batch[a] /\ Told(a)
  BY DEF SInv, ToldPart
<1>2. e \in Seqs
  BY <1>1 DEF SInv, SupervisionTypeOK
<1>3. eventKind[e] = "routine" => digests[a] > 0
  BY <1>1 DEF Told, Routine
<1>4. eventKind[e] = "message" => e \in mailRows
  BY <1>1, <1>2 DEF Told, MailboxSettled, SInv, MailPart
<1> QED
  BY <1>1, <1>3, <1>4

(* The log, the batches, the mailbox and the sweeps keep their types, whatever dies or
   loses its lease. *)
THEOREM SupervisionTypeCorrect == SupervisionSpec => []SupervisionTypeOK
<1>1. SupervisionInit => SInv
  BY SupervisionStarts
<1>2. SInv /\ [SupervisionNext]_supervisionVars => SInv'
  BY SupervisionStep
<1>3. SInv => SupervisionTypeOK
  BY DEF SInv
<1> QED
  BY <1>1, <1>2, <1>3, PTL DEF SupervisionSpec

(* runSupervisionMaintenance, wakeRootWithUpdate, advanceSupervisionCursor: Root is told
   of every event the cursor has passed, but those that came into the log after a later
   one had been listed, and of no event twice. *)
THEOREM RootIsToldOnce == SupervisionSpec => []ToldExactlyOnce
<1>1. SupervisionInit => SInv
  BY SupervisionStarts
<1>2. SInv /\ [SupervisionNext]_supervisionVars => SInv'
  BY SupervisionStep
<1>3. SInv => ToldExactlyOnce
  BY OnceFromChain, PassedFromTold DEF ToldExactlyOnce
<1> QED
  BY <1>1, <1>2, <1>3, PTL DEF SupervisionSpec

-----------------------------------------------------------------------------
(* A Team as a whole: a step of one component leaves the others where they are. *)
LEMMA TeamComponents ==
  TeamSpec => LeaseSpec /\ BudgetSpec /\ TeamTaskSpec /\ SupervisionSpec
<1>1. TeamInit => LeaseInit /\ BudgetInit /\ TeamTaskInit /\ SupervisionInit
  BY DEF TeamInit
<1>2. [TeamNext]_teamScopeVars => [LeaseNext]_leaseVars
  BY DEF TeamNext, teamScopeVars
<1>3. [TeamNext]_teamScopeVars => [BudgetNext]_budgetVars
  BY DEF TeamNext, teamScopeVars
<1>4. [TeamNext]_teamScopeVars => [TeamTaskNext]_teamTaskVars
  BY DEF TeamNext, teamScopeVars
<1>5. [TeamNext]_teamScopeVars => [SupervisionNext]_supervisionVars
  BY DEF TeamNext, teamScopeVars
<1> QED
  BY <1>1, <1>2, <1>3, <1>4, <1>5, PTL
  DEF TeamSpec, LeaseSpec, BudgetSpec, TeamTaskSpec, SupervisionSpec

(* Type correctness of a Team: its leases, its budget, its tasks and the log of its events,
   however often its runs are executed. *)
THEOREM TeamTypeCorrect == TeamSpec => []TeamTypeOK
<1>1. LeaseTypeOK /\ BudgetTypeOK /\ TeamTaskTypeOK /\ SupervisionTypeOK => TeamTypeOK
  BY DEF TeamTypeOK
<1> QED
  BY <1>1, TeamComponents, LeaseTypeCorrect, BudgetTypeCorrect, TaskTypeCorrect,
     SupervisionTypeCorrect, PTL
=============================================================================
