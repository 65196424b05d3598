----------------------------- MODULE TeamLeases -----------------------------
(***************************************************************************)
(* The leases of a Team: an execution slot of the Team and the session of  *)
(* an agent, two documents that a worker of the runner claims one after    *)
(* the other for a run it has leased, and gives back when the run has been *)
(* executed.  Root interrupts, closes and reopens agents at any time, by   *)
(* commands of several writes.                                             *)
(*                                                                         *)
(* A ticket is one lease of a run: its owner id and the two fence tokens   *)
(* claimed under it are drawn afresh every time.  A session is a           *)
(* generation of an agent.  Time is a Boolean per lease: it is live, or it *)
(* has expired.  Mailboxes, tasks and the contents of sessions are left    *)
(* out; the lease of the AgentRun itself is the subject of AgentRunLease   *)
(* and appears here as runTicket.                                          *)
(***************************************************************************)
EXTENDS Integers, FiniteSets

CONSTANTS Agents, Tickets, NoTicket,
          Generations,    \* generations of an agent
          SlotCount,      \* policy.max_active_agents
          MaxTeamRuns,    \* member runs
          MaxLapses,      \* crashes of a worker and leases lost while in use
          MaxTorn         \* crashes between the two writes of a release

ASSUME TeamLeasesAssumption ==
    /\ Generations \in Nat \ {0} /\ SlotCount \in Nat \ {0}
    /\ MaxTeamRuns \in Nat /\ MaxLapses \in Nat /\ MaxTorn \in Nat
    /\ NoTicket \notin Tickets

Sessions == Agents \X (1..Generations)
Slots    == 0..(SlotCount - 1)
TeamRuns == 1..MaxTeamRuns
NoSession == <<>>

VARIABLES
    agentStatus, generation,        \* the TeamAgent documents
    slotTicket, slotRun, slotLive,  \* the AgentExecutionSlot documents
    sessTicket, sessLive,           \* the lease of the AgentSessionRuntime documents
    runState, runSession, runTicket, cancelled,  \* the AgentRun documents
    at, ticketRun, todo, verdict,   \* a worker's local state
    command, revoked,               \* Root's command, and the sessions it has revoked
    owedIdle,                       \* sessions a sweep has cleared, agent status still to follow
    lapses, torn

agentVars == <<agentStatus, generation>>
slotVars  == <<slotTicket, slotRun, slotLive>>
sessVars  == <<sessTicket, sessLive>>
teamRunVars == <<runState, runSession, runTicket, cancelled>>
workerVars == <<at, ticketRun, todo, verdict>>
rootVars  == <<command, revoked>>
faultVars == <<lapses, torn>>
leaseVars == <<agentVars, slotVars, sessVars, teamRunVars, workerVars, rootVars, owedIdle, faultVars>>

Runnable == {"idle", "running"}
Stopped  == {"paused", "completed", "failed"}

LeaseTypeOK ==
    /\ agentStatus \in [Agents -> Runnable \cup Stopped]
    /\ generation \in [Agents -> 1..Generations]
    /\ slotTicket \in [Slots -> Tickets \cup {NoTicket}]
    /\ slotRun \in [Slots -> TeamRuns \cup {0}]
    /\ slotLive \in [Slots -> BOOLEAN]
    /\ \A s \in Slots : slotTicket[s] = NoTicket => slotRun[s] = 0 /\ ~slotLive[s]
    /\ \A s, q \in Slots : slotRun[s] = slotRun[q] => slotRun[s] = 0 \/ s = q
    /\ sessTicket \in [Sessions -> Tickets \cup {NoTicket}]
    /\ sessLive \in [Sessions -> BOOLEAN]
    /\ runState \in [TeamRuns -> {"none", "queued", "running", "recoverable", "over"}]
    /\ runSession \in [TeamRuns -> Sessions \cup {NoSession}]
    /\ runTicket \in [TeamRuns -> Tickets \cup {NoTicket}]
    /\ cancelled \subseteq TeamRuns
    /\ at \in [Tickets -> {"free", "leased", "slot", "slotted", "session", "claimed", "verify",
                           "executing", "checked", "mark", "release", "dead"}]
    /\ ticketRun \in [Tickets -> TeamRuns \cup {0}]
    /\ todo \in [Tickets -> SUBSET {"session", "status", "slot"}]
    /\ verdict \in [Tickets -> {"idle", "failed", "paused"}]
    /\ command \in [Agents -> [action : {"none", "interrupt", "close", "reopen"},
                               step : {"none", "set", "session", "slots", "cancel"}]]
    /\ revoked \subseteq Sessions /\ owedIdle \subseteq Sessions
    /\ lapses \in 0..MaxLapses /\ torn \in 0..MaxTorn

NoCommand == [action |-> "none", step |-> "none"]

LeaseInit ==
    /\ agentStatus = [a \in Agents |-> "idle"]
    /\ generation = [a \in Agents |-> 1]
    /\ slotTicket = [s \in Slots |-> NoTicket]
    /\ slotRun = [s \in Slots |-> 0]
    /\ slotLive = [s \in Slots |-> FALSE]
    /\ sessTicket = [s \in Sessions |-> NoTicket]
    /\ sessLive = [s \in Sessions |-> FALSE]
    /\ runState = [r \in TeamRuns |-> "none"]
    /\ runSession = [r \in TeamRuns |-> NoSession]
    /\ runTicket = [r \in TeamRuns |-> NoTicket]
    /\ cancelled = {}
    /\ at = [t \in Tickets |-> "free"]
    /\ ticketRun = [t \in Tickets |-> 0]
    /\ todo = [t \in Tickets |-> {}]
    /\ verdict = [t \in Tickets |-> "idle"]
    /\ command = [a \in Agents |-> NoCommand]
    /\ revoked = {} /\ owedIdle = {}
    /\ lapses = 0 /\ torn = 0

SessionOf(t) == runSession[ticketRun[t]]
AgentOf(t)   == SessionOf(t)[1]
Current(s)   == s[2] = generation[s[1]]

-----------------------------------------------------------------------------
(* Member runs: one active run per session. *)

CreateMemberRun(r, a) ==
    LET s == <<a, generation[a]>> IN
    /\ runState[r] = "none" /\ \A q \in 1..(r - 1) : runState[q] # "none"
    /\ agentStatus[a] \in Runnable
    /\ \A q \in TeamRuns : runSession[q] = s => runState[q] = "over"
    /\ runState' = [runState EXCEPT ![r] = "queued"]
    /\ runSession' = [runSession EXCEPT ![r] = s]
    /\ UNCHANGED <<agentVars, slotVars, sessVars, runTicket, cancelled, workerVars, rootVars,
                   owedIdle, faultVars>>

Unused(t) ==
    /\ at[t] = "free"
    /\ \A s \in Slots : slotTicket[s] # t
    /\ \A s \in Sessions : sessTicket[s] # t
    /\ \A r \in TeamRuns : runTicket[r] # t

LeaseRun(t, r) ==
    /\ Unused(t) /\ runState[r] = "queued"
    /\ runState' = [runState EXCEPT ![r] = "running"]
    /\ runTicket' = [runTicket EXCEPT ![r] = t]
    /\ at' = [at EXCEPT ![t] = "leased"]
    /\ ticketRun' = [ticketRun EXCEPT ![t] = r]
    /\ UNCHANGED <<agentVars, slotVars, sessVars, runSession, cancelled, todo, verdict, rootVars,
                   owedIdle, faultVars>>

\* A status write under the lease of the run; it is refused without it, and a
\* run whose cancellation was requested is not put back into the queue.
RunWrite(t, status) ==
    IF runTicket[ticketRun[t]] = t /\ (status = "queued" => ticketRun[t] \notin cancelled)
    THEN /\ runState' = [runState EXCEPT ![ticketRun[t]] = status]
         /\ runTicket' = [runTicket EXCEPT ![ticketRun[t]] = NoTicket]
         /\ UNCHANGED <<runSession, cancelled>>
    ELSE UNCHANGED teamRunVars

\* The lease of a run expires: its worker has gone, or it is a loss.
Gone(t) == at[t] \in {"free", "dead"}
Lapse(t) == IF Gone(t) THEN UNCHANGED lapses ELSE lapses < MaxLapses /\ lapses' = lapses + 1

ExpireRunLease(r) ==
    /\ runState[r] = "running"
    /\ Lapse(runTicket[r])
    /\ runState' = [runState EXCEPT ![r] = IF r \in cancelled THEN "over" ELSE "recoverable"]
    /\ runTicket' = [runTicket EXCEPT ![r] = NoTicket]
    /\ UNCHANGED <<agentVars, slotVars, sessVars, runSession, cancelled, workerVars, rootVars,
                   owedIdle, torn>>

\* repairRunnableMemberWork.
RequeueMemberRun(r) ==
    LET s == runSession[r] IN
    /\ runState[r] = "recoverable" /\ r \notin cancelled
    /\ Current(s) /\ agentStatus[s[1]] = "idle" /\ sessTicket[s] = NoTicket
    /\ runState' = [runState EXCEPT ![r] = "queued"]
    /\ UNCHANGED <<agentVars, slotVars, sessVars, runSession, runTicket, cancelled, workerVars,
                   rootVars, owedIdle, faultVars>>

-----------------------------------------------------------------------------
(* acquireTeamExecutionLeases. *)

GoOn(t, place) == at' = [at EXCEPT ![t] = place] /\ UNCHANGED <<ticketRun, todo, verdict>>

Leased(t) == AgentOf(t) \in Agents /\ agentStatus[AgentOf(t)] \in Runnable /\ Current(SessionOf(t))

\* teamRunExecutionIneligibility: the agent was stopped or reopened.
Eligible(t) ==
    /\ at[t] = "leased" /\ Leased(t)
    /\ GoOn(t, "slot")
    /\ UNCHANGED <<agentVars, slotVars, sessVars, teamRunVars, rootVars, owedIdle, faultVars>>

Give(t, status) ==
    /\ RunWrite(t, status)
    /\ at' = [at EXCEPT ![t] = "free"] /\ ticketRun' = [ticketRun EXCEPT ![t] = 0]
    /\ UNCHANGED <<todo, verdict>>

Ineligible(t) ==
    /\ at[t] = "leased" /\ ~Leased(t)
    /\ Give(t, "over")
    /\ UNCHANGED <<agentVars, slotVars, sessVars, rootVars, owedIdle, faultVars>>

\* Mutant: the slot keeps the run it served.
FreeSlotsKeepingRun(S) ==
    /\ slotTicket' = [s \in Slots |-> IF s \in S THEN NoTicket ELSE slotTicket[s]]
    /\ slotLive' = [s \in Slots |-> IF s \in S THEN FALSE ELSE slotLive[s]]
    /\ UNCHANGED slotRun

FreeSlots(S) ==
    /\ slotTicket' = [s \in Slots |-> IF s \in S THEN NoTicket ELSE slotTicket[s]]
    /\ slotRun' = [s \in Slots |-> IF s \in S THEN 0 ELSE slotRun[s]]
    /\ slotLive' = [s \in Slots |-> IF s \in S THEN FALSE ELSE slotLive[s]]

\* claimExecutionSlot removes the slots that have expired first.
ExpiredSlots == {s \in Slots : slotTicket[s] # NoTicket /\ ~slotLive[s]}

ClaimSlot(t, s) ==
    /\ at[t] = "slot" /\ Leased(t)
    /\ \A q \in Slots : slotRun[q] = ticketRun[t] => ~slotLive[q]
    /\ ~slotLive[s]
    /\ slotTicket' = [q \in Slots |-> IF q = s THEN t
                                      ELSE IF q \in ExpiredSlots THEN NoTicket ELSE slotTicket[q]]
    /\ slotRun' = [q \in Slots |-> IF q = s THEN ticketRun[t]
                                   ELSE IF q \in ExpiredSlots THEN 0 ELSE slotRun[q]]
    /\ slotLive' = [slotLive EXCEPT ![s] = TRUE]
    /\ GoOn(t, "slotted")
    /\ UNCHANGED <<agentVars, sessVars, teamRunVars, rootVars, owedIdle, faultVars>>

\* No slot: the agent was stopped, the run still holds one under another
\* ticket, or each slot was taken when it was tried.
SlotRefused(t) ==
    /\ at[t] = "slot"
    /\ ~Leased(t) \/ \E s \in Slots : slotLive[s]
    /\ \E status \in {"queued", "over"} :
          /\ status = "over" => ~Leased(t)
          /\ Give(t, status)
    /\ UNCHANGED <<agentVars, slotVars, sessVars, rootVars, owedIdle, faultVars>>

OwnSlots(t) == {s \in Slots : slotTicket[s] = t}

\* The agent is looked at again once the slot is written.
SlotChecked(t) ==
    /\ at[t] = "slotted"
    /\ IF Leased(t)
       THEN GoOn(t, "session") /\ UNCHANGED <<slotVars, teamRunVars>>
       ELSE FreeSlots(OwnSlots(t)) /\ Give(t, "over")
    /\ UNCHANGED <<agentVars, sessVars, rootVars, owedIdle, faultVars>>

\* claimAgentSessionRun: free, or its lease has expired.
ClaimSession(t) ==
    LET s == SessionOf(t) IN
    /\ at[t] = "session"
    /\ ~sessLive[s]
    /\ sessTicket' = [sessTicket EXCEPT ![s] = t]
    /\ sessLive' = [sessLive EXCEPT ![s] = TRUE]
    /\ GoOn(t, "claimed")
    /\ UNCHANGED <<agentVars, slotVars, teamRunVars, rootVars, owedIdle, faultVars>>

SessionRefused(t) ==
    /\ at[t] = "session"
    /\ sessLive[SessionOf(t)] \/ ~Leased(t)
    /\ FreeSlots(OwnSlots(t))
    /\ Give(t, IF Leased(t) THEN "queued" ELSE "over")
    /\ UNCHANGED <<agentVars, sessVars, rootVars, owedIdle, faultVars>>

SetRunning(t) ==
    LET a == AgentOf(t) IN
    /\ at[t] = "claimed"
    /\ agentStatus' = [agentStatus EXCEPT ![a] =
                          IF @ = "idle" /\ Current(SessionOf(t)) THEN "running" ELSE @]
    /\ GoOn(t, "verify")
    /\ UNCHANGED <<generation, slotVars, sessVars, teamRunVars, rootVars, owedIdle, faultVars>>

\* Mutant: the claim is not looked at again after it was written.
VerifiedBlindly(t) == TRUE

StillRunning(t) == agentStatus[AgentOf(t)] = "running" /\ Current(SessionOf(t))

Verified(t) == StillRunning(t)

HoldsSession(t) == sessTicket[SessionOf(t)] = t

FreeSession(s) ==
    /\ sessTicket' = [sessTicket EXCEPT ![s] = NoTicket]
    /\ sessLive' = [sessLive EXCEPT ![s] = FALSE]

\* The claim stands if the agent is running now; else it is undone.
VerifySession(t) ==
    /\ at[t] = "verify"
    /\ IF Verified(t)
       THEN GoOn(t, "executing") /\ UNCHANGED <<slotVars, sessVars, teamRunVars>>
       ELSE /\ IF HoldsSession(t) THEN FreeSession(SessionOf(t)) ELSE UNCHANGED sessVars
            /\ FreeSlots(OwnSlots(t))
            /\ Give(t, IF Leased(t) THEN "queued" ELSE "over")
    /\ UNCHANGED <<agentVars, rootVars, owedIdle, faultVars>>

-----------------------------------------------------------------------------
(* The execution. *)

\* fencedUpdate: a write of the session by its lease.
CanWriteSession(t) == HoldsSession(t) /\ sessLive[SessionOf(t)]

FencesHold(t) ==
    /\ StillRunning(t) /\ CanWriteSession(t)
    /\ \E s \in OwnSlots(t) : slotLive[s]
    /\ runTicket[ticketRun[t]] = t

\* The executor could not be reached, or a compaction holds the run back: the
\* run is queued again before its leases are given back.
Undispatched(t) ==
    /\ at[t] = "executing"
    /\ RunWrite(t, "queued")
    /\ at' = [at EXCEPT ![t] = "release"]
    /\ todo' = [todo EXCEPT ![t] = {"session", "slot"}]
    /\ verdict' = [verdict EXCEPT ![t] = "idle"]
    /\ UNCHANGED <<agentVars, slotVars, sessVars, ticketRun, rootVars, owedIdle, faultVars>>

\* The last requireFences of the execution; what follows is not fenced by it.
CheckFences(t) ==
    /\ at[t] = "executing" /\ FencesHold(t)
    /\ GoOn(t, "checked")
    /\ UNCHANGED <<agentVars, slotVars, sessVars, teamRunVars, rootVars, owedIdle, faultVars>>

\* A heartbeat or a check finds a lease lost, or the transport failed: the
\* leases are given back and the run is left to its own lease.
Detached(t) ==
    /\ at[t] \in {"executing", "checked"} /\ ~FencesHold(t)
    /\ at' = [at EXCEPT ![t] = "release"]
    /\ todo' = [todo EXCEPT ![t] = {"session", "slot"}]
    /\ verdict' = [verdict EXCEPT ![t] = "idle"]
    /\ UNCHANGED <<agentVars, slotVars, sessVars, teamRunVars, ticketRun, rootVars, owedIdle, faultVars>>

\* The final status, under the lease of the run alone.  A failure and a
\* cancellation are then written to the agent too.
Finish(t, status, mark) ==
    /\ at[t] = "checked" /\ runTicket[ticketRun[t]] = t
    /\ mark = "paused" => ticketRun[t] \in cancelled
    /\ RunWrite(t, status)
    /\ at' = [at EXCEPT ![t] = IF mark = "idle" THEN "release" ELSE "mark"]
    /\ todo' = [todo EXCEPT ![t] = {"session", "slot"}]
    /\ verdict' = [verdict EXCEPT ![t] = mark]
    /\ UNCHANGED <<agentVars, slotVars, sessVars, ticketRun, rootVars, owedIdle, faultVars>>

\* markTaskFailed, or the pause of a cancelled agent: by agent id alone.
MarkAgent(t) ==
    /\ at[t] = "mark"
    /\ agentStatus' = [agentStatus EXCEPT ![AgentOf(t)] = verdict[t]]
    /\ GoOn(t, "release")
    /\ UNCHANGED <<generation, slotVars, sessVars, teamRunVars, rootVars, owedIdle, faultVars>>

-----------------------------------------------------------------------------
(* releaseTeamExecutionLeases: two releases that run side by side. *)

Done(t, what) == todo' = [todo EXCEPT ![t] = @ \ {what}]

SlotToRelease(t) == {s \in Slots : slotRun[s] = ticketRun[t] /\ slotTicket[s] = t}

ReleaseSlot(t) ==
    /\ at[t] = "release" /\ "slot" \in todo[t]
    /\ FreeSlots(SlotToRelease(t))
    /\ Done(t, "slot")
    /\ UNCHANGED <<agentVars, sessVars, teamRunVars, at, ticketRun, verdict, rootVars, owedIdle, faultVars>>

ReleaseSession(t) ==
    /\ at[t] = "release" /\ "session" \in todo[t]
    /\ IF HoldsSession(t)
       THEN /\ FreeSession(SessionOf(t))
            /\ todo' = [todo EXCEPT ![t] = (@ \ {"session"}) \cup {"status"}]
       ELSE Done(t, "session") /\ UNCHANGED sessVars
    /\ UNCHANGED <<agentVars, slotVars, teamRunVars, at, ticketRun, verdict, rootVars, owedIdle, faultVars>>

\* Mutant: the status is not part of the filter.
AfterRunAnyStatus(s, status) ==
    agentStatus' = [agentStatus EXCEPT ![s[1]] = IF Current(s) THEN status ELSE @]

\* The agent's next status, by agent, session and status 'running' alone.
AfterRun(s, status) ==
    agentStatus' = [agentStatus EXCEPT ![s[1]] =
                       IF @ = "running" /\ Current(s) THEN status ELSE @]

ReleaseAgent(t) ==
    /\ at[t] = "release" /\ "status" \in todo[t]
    /\ AfterRun(SessionOf(t), IF verdict[t] = "failed" THEN "failed" ELSE "idle")
    /\ Done(t, "status")
    /\ UNCHANGED <<generation, slotVars, sessVars, teamRunVars, at, ticketRun, verdict, rootVars,
                   owedIdle, faultVars>>

Released(t) ==
    /\ at[t] = "release" /\ todo[t] = {}
    /\ at' = [at EXCEPT ![t] = "free"] /\ ticketRun' = [ticketRun EXCEPT ![t] = 0]
    /\ UNCHANGED <<agentVars, slotVars, sessVars, teamRunVars, todo, verdict, rootVars, owedIdle, faultVars>>

\* The worker's process dies.
WorkerDies(t) ==
    /\ ~Gone(t)
    /\ IF "status" \in todo[t] THEN torn < MaxTorn /\ torn' = torn + 1 /\ UNCHANGED lapses
                               ELSE lapses < MaxLapses /\ lapses' = lapses + 1 /\ UNCHANGED torn
    /\ at' = [at EXCEPT ![t] = "dead"]
    /\ todo' = [todo EXCEPT ![t] = {}]
    /\ UNCHANGED <<agentVars, slotVars, sessVars, teamRunVars, ticketRun, verdict, rootVars, owedIdle>>

-----------------------------------------------------------------------------
(* Expiry, and the sweeps that follow it. *)

ExpireSlot(s) ==
    /\ slotLive[s]
    /\ Lapse(slotTicket[s])
    /\ slotLive' = [slotLive EXCEPT ![s] = FALSE]
    /\ UNCHANGED <<agentVars, slotTicket, slotRun, sessVars, teamRunVars, workerVars, rootVars,
                   owedIdle, torn>>

ExpireSession(s) ==
    /\ sessLive[s]
    /\ Lapse(sessTicket[s])
    /\ sessLive' = [sessLive EXCEPT ![s] = FALSE]
    /\ UNCHANGED <<agentVars, slotVars, sessTicket, teamRunVars, workerVars, rootVars, owedIdle, torn>>

RecoverSlot(s) ==
    /\ s \in ExpiredSlots
    /\ FreeSlots({s})
    /\ UNCHANGED <<agentVars, sessVars, teamRunVars, workerVars, rootVars, owedIdle, faultVars>>

\* Mutant: the sweep clears the session it has found, expired or not.
SweepableHeld(s) == sessTicket[s] # NoTicket

\* Mutant: a sweep that waits for the agent to be running.
SweepableRunning(s) == sessTicket[s] # NoTicket /\ ~sessLive[s] /\ agentStatus[s[1]] = "running"

Sweepable(s) == sessTicket[s] # NoTicket /\ ~sessLive[s]

\* recoverExpiredAgentSessionRuns: the session first, then the agent.
RecoverSession(s) ==
    /\ Sweepable(s)
    /\ FreeSession(s)
    /\ owedIdle' = owedIdle \cup {s}
    /\ UNCHANGED <<agentVars, slotVars, teamRunVars, workerVars, rootVars, faultVars>>

RecoverAgent(s) ==
    /\ s \in owedIdle
    /\ \E status \in {"idle", "failed"} :
          /\ status = "failed" => \E r \in TeamRuns : runSession[r] = s /\ runState[r] = "over"
          /\ AfterRun(s, status)
    /\ owedIdle' = owedIdle \ {s}
    /\ UNCHANGED <<generation, slotVars, sessVars, teamRunVars, workerVars, rootVars, faultVars>>

-----------------------------------------------------------------------------
(* ManageAgent: Root's commands, one at a time for an agent. *)

SetCommand(a, action, step) == command' = [command EXCEPT ![a] = [action |-> action, step |-> step]]

OldSessionFree(a) ==
    LET s == <<a, generation[a]>> IN sessTicket[s] = NoTicket \/ ~sessLive[s]

StartCommand(a, action) ==
    /\ command[a] = NoCommand
    /\ action = "interrupt" => agentStatus[a] \in {"running", "idle", "paused"}
    /\ action = "reopen" => agentStatus[a] \in Stopped /\ OldSessionFree(a)
    /\ action = "reopen" => generation[a] < Generations
    /\ SetCommand(a, action, "set")
    /\ UNCHANGED <<agentVars, slotVars, sessVars, teamRunVars, workerVars, revoked, owedIdle, faultVars>>

Stop(a) ==
    /\ command[a].step = "set" /\ command[a].action \in {"interrupt", "close"}
    /\ agentStatus' = [agentStatus EXCEPT ![a] = IF command[a].action = "close" THEN "completed" ELSE "paused"]
    /\ SetCommand(a, command[a].action, "session")
    /\ UNCHANGED <<generation, slotVars, sessVars, teamRunVars, workerVars, revoked, owedIdle, faultVars>>

RevokeSession(a) ==
    LET s == <<a, generation[a]>> IN
    /\ command[a].step = "session"
    /\ FreeSession(s)
    /\ revoked' = revoked \cup {s}
    /\ SetCommand(a, command[a].action, "slots")
    /\ UNCHANGED <<agentVars, slotVars, teamRunVars, workerVars, owedIdle, faultVars>>

RevokeSlots(a) ==
    /\ command[a].step = "slots"
    /\ FreeSlots({s \in Slots : slotTicket[s] # NoTicket
                                /\ runSession[slotRun[s]] = <<a, generation[a]>>})
    /\ SetCommand(a, command[a].action, "cancel")
    /\ UNCHANGED <<agentVars, sessVars, teamRunVars, workerVars, revoked, owedIdle, faultVars>>

\* requestAgentSessionRunCancellation.
CancelSessionRun(a) ==
    LET R == {r \in TeamRuns : runSession[r] = <<a, generation[a]>>
                               /\ runState[r] \in {"queued", "running", "recoverable"}}
    IN
    /\ command[a].step = "cancel"
    /\ cancelled' = cancelled \cup R
    /\ runState' = [r \in TeamRuns |-> IF r \in R /\ runState[r] # "running" THEN "over" ELSE runState[r]]
    /\ command' = [command EXCEPT ![a] = NoCommand]
    /\ UNCHANGED <<agentVars, slotVars, sessVars, runSession, runTicket, workerVars, revoked,
                   owedIdle, faultVars>>

Reopen(a) ==
    /\ command[a] = [action |-> "reopen", step |-> "set"]
    /\ IF agentStatus[a] \in Stopped
       THEN /\ agentStatus' = [agentStatus EXCEPT ![a] = "idle"]
            /\ generation' = [generation EXCEPT ![a] = @ + 1]
       ELSE UNCHANGED agentVars
    /\ command' = [command EXCEPT ![a] = NoCommand]
    /\ UNCHANGED <<slotVars, sessVars, teamRunVars, workerVars, revoked, owedIdle, faultVars>>

-----------------------------------------------------------------------------
AcquireStep(t) ==
    \/ \E r \in TeamRuns : LeaseRun(t, r)
    \/ Eligible(t) \/ Ineligible(t)
    \/ \E s \in Slots : ClaimSlot(t, s)
    \/ SlotRefused(t) \/ SlotChecked(t) \/ ClaimSession(t) \/ SessionRefused(t)
    \/ SetRunning(t) \/ VerifySession(t)

ExecuteStep(t) ==
    \/ Undispatched(t) \/ CheckFences(t) \/ Detached(t) \/ MarkAgent(t)
    \/ Finish(t, "over", "idle") \/ Finish(t, "recoverable", "idle")
    \/ Finish(t, "over", "failed") \/ Finish(t, "over", "paused")

ReleaseStep(t) == ReleaseSlot(t) \/ ReleaseSession(t) \/ ReleaseAgent(t) \/ Released(t)

SweepStep ==
    \/ \E r \in TeamRuns : ExpireRunLease(r) \/ RequeueMemberRun(r)
    \/ \E s \in Slots : ExpireSlot(s) \/ RecoverSlot(s)
    \/ \E s \in Sessions : ExpireSession(s) \/ RecoverSession(s) \/ RecoverAgent(s)

ManageStep(a) ==
    \/ \E action \in {"interrupt", "close", "reopen"} : StartCommand(a, action)
    \/ Stop(a) \/ RevokeSession(a) \/ RevokeSlots(a) \/ CancelSessionRun(a) \/ Reopen(a)

LeaseNext ==
    \/ \E r \in TeamRuns, a \in Agents : CreateMemberRun(r, a)
    \/ \E t \in Tickets : AcquireStep(t) \/ ExecuteStep(t) \/ ReleaseStep(t) \/ WorkerDies(t)
    \/ SweepStep
    \/ \E a \in Agents : ManageStep(a)

\* Workers go on, time passes for the leases of the dead, the sweep repeats.
LeaseFairness ==
    /\ \A t \in Tickets : WF_leaseVars(AcquireStep(t)) /\ WF_leaseVars(ExecuteStep(t))
    /\ \A t \in Tickets : WF_leaseVars(ReleaseSlot(t)) /\ WF_leaseVars(Released(t))
    /\ \A t \in Tickets : WF_leaseVars(ReleaseSession(t)) /\ WF_leaseVars(ReleaseAgent(t))
    /\ \A r \in TeamRuns : WF_leaseVars(ExpireRunLease(r)) /\ WF_leaseVars(RequeueMemberRun(r))
    /\ \A s \in Slots : WF_leaseVars(ExpireSlot(s)) /\ WF_leaseVars(RecoverSlot(s))
    /\ \A s \in Sessions : /\ WF_leaseVars(ExpireSession(s)) /\ WF_leaseVars(RecoverSession(s))
                           /\ WF_leaseVars(RecoverAgent(s))

LeaseSpec     == LeaseInit /\ [][LeaseNext]_leaseVars
FairLeaseSpec == LeaseSpec /\ LeaseFairness

-----------------------------------------------------------------------------
(* Properties. *)

\* Once an interruption or a close has revoked a session, no execution writes
\* it again, however its claim was under way meanwhile.
RevokedNotWritten ==
    \A t \in Tickets : at[t] \in {"executing", "checked"} /\ CanWriteSession(t)
                       => SessionOf(t) \notin revoked

\* A stopped agent becomes runnable by Reopen alone: no release, sweep or late
\* execution of an earlier run revives it.
StoppedUntilReopened ==
    [][\A a \in Agents : agentStatus[a] \in Stopped /\ agentStatus'[a] \in Runnable
                         => generation'[a] = generation[a] + 1]_leaseVars

\* The slot and the session of a worker that died do not stay taken.
DeadLeasesFreed ==
    /\ \A s \in Slots : []<>(slotTicket[s] = NoTicket \/ ~Gone(slotTicket[s]))
    /\ \A s \in Sessions : []<>(sessTicket[s] = NoTicket \/ ~Gone(sessTicket[s]))

\* A run that its sweep has made recoverable is queued again, unless its agent
\* was stopped or it was cancelled.
RecoverableResumes ==
    \A r \in TeamRuns : [](runState[r] = "recoverable"
        => <>(runState[r] # "recoverable" \/ agentStatus[runSession[r][1]] \in Stopped
              \/ ~Current(runSession[r]) \/ r \in cancelled))
=============================================================================
