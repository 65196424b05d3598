---------------------------- MODULE TurnJournal ----------------------------
(***************************************************************************)
(* One agent run from the model's request to the results of its tools, and *)
(* what is left of it when the server that executes it stops.  A host      *)
(* takes the lease of the run, closes the calls an earlier host left open,  *)
(* and then asks the model again and again: the calls of a response are    *)
(* written to the transcript, each call is entered in the run as its       *)
(* current action, executed, answered in the transcript and taken out of   *)
(* the run.  A call of a team tool is a command with a receipt of its own, *)
(* written in fenced phases, and may be repeated; any other call may not.  *)
(*                                                                         *)
(* The transcript is a conversation or the session of a team member.  It   *)
(* keeps calls and results; words, order, images and the size of a result  *)
(* are left out, and so are the two copies a compacted transcript has.     *)
(***************************************************************************)
EXTENDS Integers, FiniteSets

CONSTANTS MaxHosts,      \* servers that can execute the run
          MaxCalls,      \* calls the model makes
          MaxLeases,     \* times the run is leased
          MaxFaults,     \* hosts that stop, turns that fail, leases that lapse under a host
          Phases         \* writes of a team command

ASSUME JournalAssumption ==
    /\ MaxHosts \in Nat \ {0}
    /\ MaxCalls \in Nat /\ MaxLeases \in Nat \ {0}
    /\ MaxFaults \in Nat /\ Phases \in Nat \ {0}

VARIABLES
    keeper,                                  \* what keeps the transcript
    runPhase, runOwner, runLive, runStop, runAction, leases, recovered,   \* the AgentRun document
    made, sort, answers,                     \* the transcript: calls, their tools, results
    effects,                                 \* executions of each call's tool
    receipt, rholder, rfresh, done,            \* command receipts and their writes
    working,                                 \* the member's task is running
    hplace, hlease, seen, closed, hstart, hparked, todo, out, cstep,   \* a host's local state
    faults

runDoc     == <<runPhase, runOwner, runLive, runStop, runAction, leases, recovered>>
journal == <<made, sort, answers>>
commandDoc == <<receipt, rholder, rfresh, done>>
hostVars   == <<hplace, hlease, seen, closed, hstart, hparked, todo, out, cstep>>
journalVars == <<keeper, runDoc, journal, effects, commandDoc, working, hostVars, faults>>

Hosts  == 1..MaxHosts
Nobody == 0
Calls  == 1..MaxCalls
NoCall == 0
Model  == MaxCalls + 1
Results == {"answer", "error", "rejected", "interrupted", "unknown", "orphan"}
Places  == {"idle", "load", "recover", "close", "closed", "turn", "model", "made", "calls",
            "execute", "begin", "reserve", "permit", "write", "settle", "answer", "answered",
            "abort", "ask", "finish"}

JournalTypeOK ==
    /\ keeper \in {"conversation", "session"}
    /\ runPhase \in {"queued", "running", "recoverable", "waiting", "completed", "cancelled", "failed"}
    /\ runOwner \in Hosts \cup {Nobody} /\ runLive \in BOOLEAN /\ runStop \in BOOLEAN
    /\ runAction \in 0..Model /\ leases \in 0..MaxLeases /\ recovered \in BOOLEAN
    /\ made \subseteq Calls
    /\ sort \in [Calls -> {"none", "plain", "team", "submit", "bad"}]
    /\ answers \subseteq [call : Calls, as : Results, lease : 1..MaxLeases]
    /\ effects \in [Calls -> Nat]
    /\ receipt \in [Calls -> {"none", "processing", "completed", "failed"}]
    /\ rholder \in [Calls -> 0..MaxLeases] /\ rfresh \in [Calls -> BOOLEAN]
    /\ done \in [Calls -> SUBSET (1..Phases)]
    /\ working \in BOOLEAN
    /\ hplace \in [Hosts -> Places] /\ hlease \in [Hosts -> 0..MaxLeases]
    /\ seen \in [Hosts -> SUBSET Calls] /\ closed \in [Hosts -> SUBSET Calls]
    /\ hstart \in [Hosts -> 0..Model] /\ hparked \in [Hosts -> BOOLEAN] /\ todo \in [Hosts -> SUBSET Calls]
    /\ out \in [Hosts -> Results \cup {"none"}] /\ cstep \in [Hosts -> 1..(Phases + 1)]
    /\ faults \in 0..MaxFaults
    /\ (runOwner = Nobody) = (runPhase # "running")

JournalInit ==
    /\ keeper \in {"conversation", "session"}
    /\ runPhase = "queued" /\ runOwner = Nobody /\ runLive = FALSE /\ runStop = FALSE
    /\ runAction = NoCall /\ leases = 0 /\ recovered = FALSE
    /\ made = {} /\ sort = [c \in Calls |-> "none"] /\ answers = {}
    /\ effects = [c \in Calls |-> 0]
    /\ receipt = [c \in Calls |-> "none"] /\ rholder = [c \in Calls |-> 0]
    /\ rfresh = [c \in Calls |-> FALSE] /\ done = [c \in Calls |-> {}]
    /\ working = TRUE
    /\ hplace = [h \in Hosts |-> "idle"] /\ hlease = [h \in Hosts |-> 0]
    /\ seen = [h \in Hosts |-> {}] /\ closed = [h \in Hosts |-> {}]
    /\ hstart = [h \in Hosts |-> NoCall] /\ hparked = [h \in Hosts |-> FALSE]
    /\ todo = [h \in Hosts |-> {}]
    /\ out = [h \in Hosts |-> "none"] /\ cstep = [h \in Hosts |-> 1]
    /\ faults = 0

-----------------------------------------------------------------------------
(* The filter of every write to the run: its owner, while it is running. *)
OwnsRun(h) == runOwner = h
(* validateAgentRunLeaseFence: and the lease has time left, and nobody asked it to stop. *)
Fenced(h) == OwnsRun(h) /\ runLive /\ ~runStop

(* Mutant: the member, too, goes by its heartbeat. *)
MayWriteAny(h) == TRUE

(* A member looks at its fences before each of its writes; the route of a conversation
   only at what its heartbeat has told it. *)
MayWrite(h) == keeper = "session" => Fenced(h)
MayUpdate(h) == OwnsRun(h) /\ MayWrite(h)

(* The local state of a host, when it goes to another place or leaves. *)
Goes(h, place) == hplace' = [hplace EXCEPT ![h] = place]
Leaves(h) ==
    /\ Goes(h, "idle")
    /\ hlease' = [hlease EXCEPT ![h] = 0]
    /\ seen' = [seen EXCEPT ![h] = {}] /\ closed' = [closed EXCEPT ![h] = {}]
    /\ hstart' = [hstart EXCEPT ![h] = NoCall] /\ hparked' = [hparked EXCEPT ![h] = FALSE]
    /\ todo' = [todo EXCEPT ![h] = {}]
    /\ out' = [out EXCEPT ![h] = "none"] /\ cstep' = [cstep EXCEPT ![h] = 1]

Steady == UNCHANGED <<hlease, seen, closed, hstart, hparked, todo, out, cstep>>
Elsewhere == UNCHANGED <<keeper, leases, runStop, recovered>>

(* AgentRunLeaseLost and MemberSessionLeaseLost: the host leaves, the run stays as it is. *)
Detached(h) == Leaves(h) /\ UNCHANGED <<runPhase, runOwner, runLive, runAction>>

(* Mutant: the lease stays on a run that has ended. *)
EndsOwned(h, status) ==
    /\ OwnsRun(h)
    /\ runPhase' = status /\ runLive' = FALSE /\ UNCHANGED runOwner
    /\ Leaves(h)

(* setRunStatus, which clears the lease of a run that is not running. *)
Ends(h, status) ==
    /\ OwnsRun(h)
    /\ runPhase' = status /\ runOwner' = Nobody /\ runLive' = FALSE
    /\ Leaves(h)

(* The call at hand: the one the run was left in, or the next of the response. *)
Repeats(h) == hstart[h] # NoCall
First(S) == CHOOSE c \in S : \A d \in S : c <= d
Hand(h) == IF Repeats(h) THEN hstart[h] ELSE First(todo[h])
IsTeam(c) == sort[c] \in {"team", "submit"}

-----------------------------------------------------------------------------
(* The lease of the run: who executes it, from which action on.  Hosts are alike, and the
   first idle one takes it. *)
LeaseRun(h) ==
    /\ hplace[h] = "idle" /\ (\A g \in 1..(h - 1) : hplace[g] # "idle")
    /\ runPhase \in {"queued", "recoverable"} /\ ~runStop
    /\ leases < MaxLeases
    /\ leases' = leases + 1
    /\ runPhase' = "running" /\ runOwner' = h /\ runLive' = TRUE
    /\ Goes(h, "load")
    /\ hlease' = [hlease EXCEPT ![h] = leases + 1]
    /\ hstart' = [hstart EXCEPT ![h] = runAction]
    /\ UNCHANGED <<keeper, runStop, runAction, recovered, journal, effects, commandDoc, working,
                   seen, closed, hparked, todo, out, cstep, faults>>

(* The transcript as it is when the host starts. *)
Answered == {a.call : a \in answers}

(* A member whose task no longer runs goes on only to close a team call that had begun. *)
Resumable(h) ==
    \/ keeper = "conversation" \/ working
    \/ hstart[h] \in made /\ IsTeam(hstart[h]) /\ receipt[hstart[h]] \in {"processing", "completed"}

Load(h) ==
    /\ hplace[h] = "load"
    /\ IF ~MayWrite(h) THEN Detached(h)
       ELSE IF Resumable(h)
       THEN /\ seen' = [seen EXCEPT ![h] = made] /\ closed' = [closed EXCEPT ![h] = Answered]
            /\ hparked' = [hparked EXCEPT ![h] = keeper = "session" /\ ~working]
            /\ Goes(h, "recover")
            /\ UNCHANGED <<runPhase, runOwner, runLive, runAction, hlease, hstart, todo, out, cstep>>
       ELSE Ends(h, "failed") /\ UNCHANGED runAction
    /\ Elsewhere /\ UNCHANGED <<journal, effects, commandDoc, working, faults>>

(* buildSelectiveToolRecoveryMessage: the call the run was left in has an answer already,
   is a team command and is repeated, or is answered as unknown.  A model request is made
   again. *)
Recover(h) ==
    /\ hplace[h] = "recover"
    /\ LET c == hstart[h]
           open == c \in seen[h] \ closed[h]
       IN  /\ \/ open /\ IsTeam(c) /\ Goes(h, "begin") /\ UNCHANGED out
              \/ open /\ IsTeam(c) /\ Goes(h, "close") /\ out' = [out EXCEPT ![h] = "error"]
              \/ open /\ ~IsTeam(c) /\ Goes(h, "close") /\ out' = [out EXCEPT ![h] = "unknown"]
              \/ ~open /\ Goes(h, "close") /\ UNCHANGED out
    /\ UNCHANGED <<keeper, runDoc, journal, effects, commandDoc, working,
                   hlease, seen, closed, hstart, hparked, todo, cstep, faults>>

(* What is appended to the transcript at once, and the host's own copy of it. *)
Adds(h, calls, results) ==
    /\ made' = made \cup calls
    /\ answers' = answers \cup {[call |-> c, as |-> results[c], lease |-> hlease[h]] : c \in DOMAIN results}
    /\ seen' = [seen EXCEPT ![h] = @ \cup calls]
    /\ closed' = [closed EXCEPT ![h] = @ \cup DOMAIN results]

(* buildOrphanedToolRecoveryMessage: every other call without an answer is closed too; in
   a conversation only if the run was left before. *)
Recovers(h) == keeper = "session" \/ recovered \/ hstart[h] # NoCall

(* Mutants: the call the run was left in counts as one that was not begun; calls no action
   was written for are not looked for. *)
OrphansWithCurrent(h) == IF ~Recovers(h) THEN {} ELSE seen[h] \ closed[h]
OrphansIgnored(h) == {}

Orphans(h) ==
    IF ~Recovers(h) THEN {}
    ELSE seen[h] \ (closed[h] \cup (IF out[h] = "none" THEN {} ELSE {hstart[h]}))

Close(h) ==
    /\ hplace[h] = "close"
    /\ IF MayWrite(h)
       THEN /\ Adds(h, {}, [c \in Orphans(h) \cup (IF out[h] = "none" THEN {} ELSE {hstart[h]}) |->
                              IF c \in Orphans(h) THEN "orphan" ELSE out[h]])
            /\ Goes(h, "closed")
            /\ UNCHANGED <<runPhase, runOwner, runLive, runAction, hlease, hstart, hparked, todo, out,
                           cstep>>
       ELSE Detached(h) /\ UNCHANGED <<made, answers>>
    /\ Elsewhere /\ UNCHANGED <<sort, effects, commandDoc, working, faults>>

(* advanceRunCheckpoint, or setRunCurrentAction to nothing; a member whose task is over
   has nothing more to do. *)
Closed(h) ==
    /\ hplace[h] = "closed"
    /\ IF hstart[h] # NoCall /\ ~OwnsRun(h) THEN Detached(h)
       ELSE IF hparked[h] /\ ~working THEN Ends(h, "completed") /\ runAction' = NoCall
       ELSE /\ runAction' = IF hstart[h] # NoCall THEN NoCall ELSE runAction
            /\ Goes(h, "turn") /\ hstart' = [hstart EXCEPT ![h] = NoCall]
            /\ out' = [out EXCEPT ![h] = "none"] /\ cstep' = [cstep EXCEPT ![h] = 1]
            /\ UNCHANGED <<runPhase, runOwner, runLive, hlease, seen, closed, hparked, todo>>
    /\ Elsewhere /\ UNCHANGED <<journal, effects, commandDoc, working, faults>>

-----------------------------------------------------------------------------
(* The top of the loop: a stop that was asked for, or the next request to the model. *)
Turn(h) ==
    /\ hplace[h] = "turn"
    /\ IF runStop
       THEN IF keeper = "session" THEN Detached(h)
            ELSE Goes(h, "abort") /\ Steady /\ UNCHANGED <<runPhase, runOwner, runLive, runAction>>
       ELSE IF MayUpdate(h)
       THEN /\ runAction' = Model /\ Goes(h, "model") /\ Steady
            /\ UNCHANGED <<runPhase, runOwner, runLive>>
       ELSE Detached(h)
    /\ Elsewhere /\ UNCHANGED <<journal, effects, commandDoc, working, faults>>

(* The model answers with calls: one or two of them, in order.  A call is bad if its input
   is refused, or if a call that must stand alone does not. *)
NewCalls(n) == Cardinality(made) + 1 .. Cardinality(made) + n
Sorts(n) ==
    [NewCalls(n) -> {"plain", "team", "bad"}]
    \cup (IF n = 1 /\ keeper = "session" THEN [NewCalls(n) -> {"submit"}] ELSE {})

(* The response is appended; if a stop was asked for meanwhile, with a result for each
   call. *)
Respond(h) ==
    /\ hplace[h] = "model"
    /\ \E n \in 1..2 :
          /\ Cardinality(made) + n <= MaxCalls
          /\ IF MayWrite(h)
             THEN /\ \E kinds \in Sorts(n) :
                        sort' = [c \in Calls |-> IF c \in NewCalls(n) THEN kinds[c] ELSE sort[c]]
                  /\ Adds(h, NewCalls(n), [c \in IF runStop THEN NewCalls(n) ELSE {} |-> "interrupted"])
                  /\ Goes(h, "made") /\ todo' = [todo EXCEPT ![h] = NewCalls(n)]
                  /\ UNCHANGED <<runPhase, runOwner, runLive, runAction, hlease, hstart, hparked, out, cstep>>
             ELSE Detached(h) /\ UNCHANGED journal
    /\ Elsewhere /\ UNCHANGED <<effects, commandDoc, working, faults>>

(* ... and the model's action is over. *)
ModelDone(h) ==
    /\ hplace[h] = "made"
    /\ IF MayUpdate(h)
       THEN /\ runAction' = NoCall
            /\ Goes(h, IF todo[h] \subseteq closed[h] THEN "abort" ELSE "calls") /\ Steady
            /\ UNCHANGED <<runPhase, runOwner, runLive>>
       ELSE Detached(h)
    /\ Elsewhere /\ UNCHANGED <<journal, effects, commandDoc, working, faults>>

(* It answers with words, or with a question to the user, which is not kept as a call. *)
Conclude(h, place) ==
    /\ hplace[h] = "model"
    /\ place = "ask" => keeper = "conversation"
    /\ IF MayUpdate(h)
       THEN /\ runAction' = NoCall /\ Goes(h, IF runStop THEN "abort" ELSE place) /\ Steady
            /\ UNCHANGED <<runPhase, runOwner, runLive>>
       ELSE Detached(h)
    /\ Elsewhere /\ UNCHANGED <<journal, effects, commandDoc, working, faults>>

(* The run is over, was stopped, or waits for the user; a member looks at its fences once
   more before that. *)
EndStatus == [finish |-> "completed", abort |-> "cancelled", ask |-> "waiting"]
Finish(h) ==
    /\ hplace[h] \in DOMAIN EndStatus
    /\ IF MayUpdate(h) THEN Ends(h, EndStatus[hplace[h]]) /\ UNCHANGED runAction ELSE Detached(h)
    /\ Elsewhere /\ UNCHANGED <<journal, effects, commandDoc, working, faults>>

-----------------------------------------------------------------------------
(* The next call of the response.  A stop answers every call that is left; a bad call is
   answered at once; any other is entered in the run first. *)
NextCall(h) ==
    /\ hplace[h] = "calls"
    /\ IF todo[h] = {}
       THEN Goes(h, "turn") /\ Steady
            /\ UNCHANGED <<runPhase, runOwner, runLive, runAction, made, answers>>
       ELSE IF runStop
       THEN IF MayWrite(h)
            THEN /\ Adds(h, {}, [c \in todo[h] |-> "interrupted"])
                 /\ Goes(h, "abort")
                 /\ UNCHANGED <<runPhase, runOwner, runLive, runAction, hlease, hstart, hparked, todo,
                                out, cstep>>
            ELSE Detached(h) /\ UNCHANGED <<made, answers>>
       ELSE IF sort[Hand(h)] = "bad"
       THEN /\ Goes(h, "answer") /\ out' = [out EXCEPT ![h] = "rejected"]
            /\ UNCHANGED <<runPhase, runOwner, runLive, runAction, made, answers, hlease, seen, closed,
                           hstart, hparked, todo, cstep>>
       ELSE IF MayUpdate(h)
       THEN /\ runAction' = Hand(h)
            /\ Goes(h, IF IsTeam(Hand(h)) THEN "begin" ELSE "execute") /\ Steady
            /\ UNCHANGED <<runPhase, runOwner, runLive, made, answers>>
       ELSE Detached(h) /\ UNCHANGED <<made, answers>>
    /\ Elsewhere /\ UNCHANGED <<sort, effects, commandDoc, working, faults>>

(* executeTool, of a tool that is not of the team. *)
Execute(h) ==
    /\ hplace[h] = "execute"
    /\ effects' = [effects EXCEPT ![Hand(h)] = @ + 1]
    /\ Goes(h, "answer") /\ out' = [out EXCEPT ![h] = "answer"]
    /\ UNCHANGED <<keeper, runDoc, journal, commandDoc, working, hlease, seen, closed, hstart,
                   hparked, todo, cstep, faults>>

(* The result is a checkpoint of its own ... *)
Answer(h) ==
    /\ hplace[h] = "answer"
    /\ IF MayWrite(h)
       THEN /\ Adds(h, {}, [c \in {Hand(h)} |-> out[h]])
            /\ Goes(h, "answered")
            /\ UNCHANGED <<runPhase, runOwner, runLive, runAction, hlease, hstart, hparked, todo, out, cstep>>
       ELSE Detached(h) /\ UNCHANGED <<made, answers>>
    /\ Elsewhere /\ UNCHANGED <<sort, effects, commandDoc, working, faults>>

(* ... and then the call leaves the run.  A result that was submitted ends the turn. *)
CallDone(h) ==
    /\ hplace[h] = "answered"
    /\ LET c == Hand(h)
       IN  IF sort[c] = "bad" \/ MayUpdate(h)
           THEN /\ runAction' = IF sort[c] = "bad" THEN runAction ELSE NoCall
                /\ Goes(h, IF sort[c] = "submit" /\ out[h] = "answer" THEN "finish" ELSE "calls")
                /\ todo' = [todo EXCEPT ![h] = @ \ {c}]
                /\ out' = [out EXCEPT ![h] = "none"] /\ cstep' = [cstep EXCEPT ![h] = 1]
                /\ UNCHANGED <<runPhase, runOwner, runLive, hlease, seen, closed, hstart, hparked>>
           ELSE Detached(h)
    /\ Elsewhere /\ UNCHANGED <<journal, effects, commandDoc, working, faults>>

-----------------------------------------------------------------------------
(* A team command leaves with a result, to where it was called from. *)
Returns(h, result) ==
    /\ Goes(h, IF Repeats(h) THEN "close" ELSE "answer")
    /\ out' = [out EXCEPT ![h] = result]
    /\ UNCHANGED <<hlease, seen, closed, hstart, hparked, todo, cstep>>

InCommand(h, place) == hplace[h] = place /\ UNCHANGED <<keeper, runDoc, journal, effects, faults>>

(* withCommand: a host that has lost its lease does not get a receipt. *)
Begin(h) ==
    /\ InCommand(h, "begin")
    /\ IF Fenced(h) THEN Goes(h, "reserve") /\ Steady ELSE Returns(h, "error")
    /\ UNCHANGED <<commandDoc, working>>

(* beginCommand: a receipt of the call, the one that is completed, or one that failed or
   whose lease has run out. *)
Reserve(h) ==
    /\ InCommand(h, "reserve")
    /\ LET c == Hand(h)
       IN  IF \/ receipt[c] \in {"none", "failed"}
              \/ receipt[c] = "processing" /\ ~rfresh[c]
           THEN /\ receipt' = [receipt EXCEPT ![c] = "processing"]
                /\ rholder' = [rholder EXCEPT ![c] = hlease[h]] /\ rfresh' = [rfresh EXCEPT ![c] = TRUE]
                /\ Goes(h, "permit") /\ Steady
           ELSE /\ Returns(h, IF receipt[c] = "completed" THEN "answer" ELSE "error")
                /\ UNCHANGED <<receipt, rholder, rfresh>>
    /\ UNCHANGED <<done, working>>

HoldsReceipt(h) == LET c == Hand(h) IN receipt[c] = "processing" /\ rholder[c] = hlease[h]

(* failCommand, and the error the model reads. *)
FailsCommand(h) ==
    /\ LET c == Hand(h)
       IN  IF HoldsReceipt(h)
           THEN /\ receipt' = [receipt EXCEPT ![c] = "failed"] /\ rfresh' = [rfresh EXCEPT ![c] = FALSE]
                /\ rholder' = [rholder EXCEPT ![c] = 0]
           ELSE UNCHANGED <<receipt, rholder, rfresh>>
    /\ Returns(h, "error")

(* assertWriteFence: the leases of the run and of the receipt, before each write and before
   the end. *)
Permit(h) ==
    /\ InCommand(h, "permit")
    /\ IF Fenced(h) /\ HoldsReceipt(h) /\ rfresh[Hand(h)]
       THEN /\ Goes(h, IF cstep[h] <= Phases THEN "write" ELSE "settle") /\ Steady
            /\ UNCHANGED <<receipt, rholder, rfresh>>
       ELSE FailsCommand(h)
    /\ UNCHANGED <<done, working>>

(* A write of the command, keyed so that it is made once.  The first one of a submission
   takes the task out of its run. *)
Write(h) ==
    /\ InCommand(h, "write")
    /\ done' = [done EXCEPT ![Hand(h)] = @ \cup {cstep[h]}]
    /\ working' = (working /\ sort[Hand(h)] # "submit")
    /\ cstep' = [cstep EXCEPT ![h] = @ + 1] /\ Goes(h, "permit")
    /\ UNCHANGED <<receipt, rholder, rfresh, hlease, seen, closed, hstart, hparked, todo, out>>

(* The command itself may refuse, before it has written anything. *)
Refuse(h) ==
    /\ InCommand(h, "write") /\ cstep[h] = 1
    /\ FailsCommand(h) /\ UNCHANGED <<done, working>>

(* completeCommand. *)
Settle(h) ==
    /\ InCommand(h, "settle")
    /\ LET c == Hand(h)
       IN  IF HoldsReceipt(h) /\ rfresh[c]
           THEN /\ receipt' = [receipt EXCEPT ![c] = "completed"] /\ rfresh' = [rfresh EXCEPT ![c] = FALSE]
                /\ rholder' = [rholder EXCEPT ![c] = 0]
                /\ Returns(h, "answer")
           ELSE FailsCommand(h)
    /\ UNCHANGED <<done, working>>

-----------------------------------------------------------------------------
(* The user asks the run to stop; the answer to a question continues it. *)
RequestStop ==
    /\ runPhase \in {"queued", "running", "recoverable", "waiting"} /\ ~runStop
    /\ runStop' = TRUE
    /\ UNCHANGED <<keeper, runPhase, runOwner, runLive, runAction, leases, recovered, journal,
                   effects, commandDoc, working, hostVars, faults>>

ContinueRun ==
    /\ runPhase = "waiting" /\ ~runStop /\ leases < MaxLeases
    /\ runPhase' = "queued"
    /\ UNCHANGED <<keeper, runOwner, runLive, runStop, runAction, leases, recovered, journal,
                   effects, commandDoc, working, hostVars, faults>>

(* The lease of the run runs out, and the sweeps find it: to be taken over, or cancelled. *)
ExpireRunLease ==
    /\ runPhase = "running" /\ runLive
    /\ IF hlease[runOwner] = leases THEN faults < MaxFaults /\ faults' = faults + 1 ELSE UNCHANGED faults
    /\ runLive' = FALSE
    /\ UNCHANGED <<keeper, runPhase, runOwner, runStop, runAction, leases, recovered, journal,
                   effects, commandDoc, working, hostVars>>

SweepRun ==
    /\ \/ runPhase = "running" /\ ~runLive
       \/ runStop /\ runPhase \in {"queued", "recoverable", "waiting"}
    /\ runPhase' = IF runStop THEN "cancelled" ELSE "recoverable"
    /\ runOwner' = Nobody
    /\ runAction' = IF runStop THEN NoCall ELSE runAction
    /\ recovered' = (recovered \/ ~runStop)
    /\ UNCHANGED <<keeper, runLive, runStop, leases, journal, effects, commandDoc, working,
                   hostVars, faults>>

ExpireReceipt(c) ==
    /\ receipt[c] = "processing" /\ rfresh[c]
    /\ rfresh' = [rfresh EXCEPT ![c] = FALSE]
    /\ UNCHANGED <<keeper, runDoc, journal, effects, receipt, rholder, done, working, hostVars,
                   faults>>

(* A heartbeat tells the host that the run is not its own. *)
NoticeLoss(h) ==
    /\ hplace[h] # "idle" /\ ~OwnsRun(h)
    /\ Leaves(h)
    /\ UNCHANGED <<keeper, runDoc, journal, effects, commandDoc, working, faults>>

(* The host stops, or an error ends its turn: the run fails, or is left to be recovered. *)
HostCrash(h) ==
    /\ hplace[h] # "idle" /\ faults < MaxFaults
    /\ faults' = faults + 1
    /\ Leaves(h)
    /\ UNCHANGED <<keeper, runDoc, journal, effects, commandDoc, working>>

BreakOff(h) ==
    /\ hplace[h] = "model" /\ faults < MaxFaults
    /\ faults' = faults + 1
    /\ \E status \in {"failed", "recoverable"} :
          /\ Ends(h, status)
          /\ recovered' = (recovered \/ status = "recoverable")
    /\ UNCHANGED <<keeper, runStop, runAction, leases, journal, effects, commandDoc, working>>

HostStep(h) ==
    \/ Load(h) \/ Recover(h) \/ Close(h) \/ Closed(h)
    \/ Turn(h) \/ Respond(h) \/ ModelDone(h) \/ Finish(h)
    \/ Conclude(h, "finish")
    \/ NextCall(h) \/ Execute(h) \/ Answer(h) \/ CallDone(h)
    \/ Begin(h) \/ Reserve(h) \/ Permit(h) \/ Write(h) \/ Settle(h)

JournalNext ==
    \/ \E h \in Hosts : \/ LeaseRun(h) \/ HostStep(h) \/ Conclude(h, "ask") \/ Refuse(h)
                         \/ NoticeLoss(h) \/ HostCrash(h) \/ BreakOff(h)
    \/ RequestStop \/ ContinueRun \/ ExpireRunLease \/ SweepRun
    \/ \E c \in Calls : ExpireReceipt(c)

(* Servers that run and sweeps that come again: something of this happens while it can. *)
JournalProgress ==
    \/ \E h \in Hosts : LeaseRun(h) \/ HostStep(h) \/ NoticeLoss(h)
    \/ ExpireRunLease \/ SweepRun

JournalSpec == JournalInit /\ [][JournalNext]_journalVars
FairJournalSpec ==
    /\ JournalSpec
    /\ WF_journalVars(JournalProgress)

-----------------------------------------------------------------------------
(* A call the transcript says was not run has not been run, and never will be: neither by a
   host that was thought dead, nor by one that repeats the commands of the run.  A call of
   a conversation that was found open is left out: there the host does not look at the
   lease of the run between reading the transcript and writing to it. *)
NeverRan ==
    {a.call : a \in {b \in answers : \/ b.as \in {"interrupted", "rejected"}
                                     \/ b.as = "orphan" /\ keeper = "session"}}
NotRunMeansNoEffect ==
    \A c \in NeverRan : effects[c] = 0 /\ done[c] = {} /\ receipt[c] = "none"

(* A tool that is not of the team is never repeated. *)
PlainToolOnce == \A c \in Calls : effects[c] <= 1

(* The model is asked only about a context in which each call has its result. *)
RequestIsPaired == \A h \in Hosts : hplace[h] = "model" => seen[h] \subseteq closed[h]

(* The session of a member keeps one result of a call. *)
OneResult == \A c \in made : Cardinality({a \in answers : a.call = c}) <= 1
SessionResultOnce == keeper = "session" => OneResult

(* The context a member goes on with has one result of each call. *)
ResultsPaired == RequestIsPaired /\ SessionResultOnce

(* A command that is reported as done has made all its writes. *)
AnsweredCommandIsWhole ==
    \A a \in answers : IsTeam(a.call) /\ a.as = "answer" => done[a.call] = 1..Phases

(* What the transcript says of a call is what has become of it, although the host that says
   so is not the one that ran it: not run, done in full, and never run again. *)
EffectsAsReported == NotRunMeansNoEffect /\ AnsweredCommandIsWhole /\ PlainToolOnce

(* A call in the transcript of a member is answered in the end, whatever host stops,
   unless the run has failed or was cancelled. *)
CallsAnswered ==
    \A c \in Calls :
       (keeper = "session" /\ c \in made)
          ~> (c \in Answered \/ runPhase \in {"failed", "cancelled"})

(* A stopped run leaves no call open: its host keeps the lease to write the results. *)
StopClosesCalls == runPhase = "cancelled" => made \subseteq Answered
SessionStopClosesCalls == keeper = "session" => StopClosesCalls
ConversationResultOnce == keeper = "conversation" => OneResult
=============================================================================
