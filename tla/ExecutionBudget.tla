-------------------------- MODULE ExecutionBudget --------------------------
(***************************************************************************)
(* The execution budget of a Team: every tool call of an execution is      *)
(* admitted, started and settled against one state document, and leaves a  *)
(* receipt.  The state document (counters and active reservations), the    *)
(* receipt of a call and the telemetry are written one after the other, so *)
(* an execution that dies or loses its lease leaves them apart; the next   *)
(* execution of the run, which replays the call under the same key, and    *)
(* the maintenance sweep put them together again.                          *)
(*                                                                         *)
(* Executions of the run are numbered, and the lease of the run belongs to *)
(* the current one; process 0 is the sweep.  One tool-call limit stands    *)
(* for the limits of team, agent and task, and one unit for the usage that *)
(* a call reports when it returns.                                         *)
(***************************************************************************)
EXTENDS Integers, FiniteSets

CONSTANTS Calls,          \* logical tool calls, each with its stable key
          MaxToolCalls,   \* budget.max_tool_calls
          MaxExecutions   \* executions of the run

ASSUME BudgetAssumption == Calls # {} /\ MaxToolCalls \in Nat /\ MaxExecutions \in Nat \ {0}

Sweep      == 0
Executions == 1..MaxExecutions
Procs      == 0..MaxExecutions
Attempts   == 0..MaxExecutions

VARIABLES
    current,        \* the execution that holds the lease of the run
    reservation, toolCalls, usage,   \* the AgentExecutionBudgetState document
    receipt,        \* the AgentBudgetAdmission documents
    telemetry,      \* contributions applied to AgentExecutionTelemetry
    stage, target, held, prior, consumed, back, tried,   \* local state
    called          \* attempts whose external call was made (history)

stateDoc  == <<reservation, toolCalls, usage>>
localVars == <<stage, target, held, prior, consumed, back, tried>>
budgetVars == <<current, stateDoc, receipt, telemetry, localVars, called>>

NoReservation == [status |-> "none", attempt |-> 0, owner |-> 0, charge |-> 0]
Reservations ==
    [status : {"none", "reserved", "started"}, attempt : Attempts, owner : Procs, charge : {0, 1}]
NoReceipt == [status |-> "none", attempt |-> 0, owner |-> 0]
Receipts ==
    [status : {"none", "reserved", "started", "settling", "completed", "releasing", "released",
               "abandoned"}, attempt : Attempts, owner : Procs]

AnyCall == CHOOSE c \in Calls : TRUE

BudgetTypeOK ==
    /\ current \in Executions
    /\ reservation \in [Calls -> Reservations]
    /\ \A c \in Calls : reservation[c].status = "none" => reservation[c] = NoReservation
    /\ toolCalls \in Int /\ toolCalls =< MaxToolCalls
    /\ usage \in Nat
    /\ receipt \in [Calls -> Receipts]
    /\ telemetry \subseteq Calls \X Attempts
    /\ stage \in [Procs -> {"idle", "prior", "again", "active", "reread", "admit", "reserve",
                            "receipt", "verify", "begin", "start", "started", "check", "calling",
                            "settle", "count", "report", "close", "judge",
                            "release", "uncount", "released", "abandon", "drop"}]
    /\ target \in [Procs -> Calls] /\ held \in [Procs -> Reservations]
    /\ prior \in [Procs -> Receipts] /\ consumed \in [Procs -> BOOLEAN]
    /\ back \in [Procs -> {"idle", "again", "reread"}]
    /\ tried \in [Executions -> SUBSET Calls]
    /\ called \subseteq Calls \X Attempts

BudgetInit ==
    /\ current = 1
    /\ reservation = [c \in Calls |-> NoReservation]
    /\ toolCalls = 0 /\ usage = 0
    /\ receipt = [c \in Calls |-> NoReceipt]
    /\ telemetry = {} /\ called = {}
    /\ stage = [p \in Procs |-> "idle"]
    /\ target = [p \in Procs |-> AnyCall]
    /\ held = [p \in Procs |-> NoReservation]
    /\ prior = [p \in Procs |-> NoReceipt]
    /\ consumed = [p \in Procs |-> FALSE]
    /\ back = [p \in Procs |-> "idle"]
    /\ tried = [e \in Executions |-> {}]

-----------------------------------------------------------------------------
\* fenceValid.
Fence(e) == current = e

\* The lease of the run expires and the run is executed again, while the
\* earlier execution may still be at work.
TakeOver ==
    /\ current < MaxExecutions
    /\ current' = current + 1
    /\ UNCHANGED <<stateDoc, receipt, telemetry, localVars, called>>

Step(p, next) == stage' = [stage EXCEPT ![p] = next]

\* The call is over for this process; its local state is forgotten.
Quit(p) ==
    /\ Step(p, "idle")
    /\ target' = [target EXCEPT ![p] = AnyCall]
    /\ held' = [held EXCEPT ![p] = NoReservation]
    /\ prior' = [prior EXCEPT ![p] = NoReceipt]
    /\ consumed' = [consumed EXCEPT ![p] = FALSE]
    /\ back' = [back EXCEPT ![p] = "idle"]
    /\ UNCHANGED tried

Return(p) ==
    IF back[p] = "idle" THEN Quit(p)
    ELSE Step(p, back[p]) /\ UNCHANGED <<target, held, prior, consumed, back, tried>>

\* A throw at a check of the fence.
Throw(p) == Quit(p) /\ UNCHANGED <<current, stateDoc, receipt, telemetry, called>>

ActiveCall(c) == reservation[c].status # "none"

SetReceipt(p, status) ==
    receipt' = [receipt EXCEPT ![target[p]] =
                   IF @.attempt = held[p].attempt THEN [@ EXCEPT !.status = status] ELSE @]

\* upsertReceiptFromReservation, whatever the receipt is.
PutReceipt(p, status) ==
    receipt' = [receipt EXCEPT ![target[p]] = [status |-> status, attempt |-> held[p].attempt,
                                            owner |-> held[p].owner]]

-----------------------------------------------------------------------------
(* reserveCall: what is known of the call. *)

BeginReserve(e, c) ==
    /\ stage[e] = "idle" /\ Fence(e) /\ c \notin tried[e]
    /\ Step(e, "prior")
    /\ target' = [target EXCEPT ![e] = c]
    /\ tried' = [tried EXCEPT ![e] = @ \cup {c}]
    /\ UNCHANGED <<current, stateDoc, receipt, telemetry, held, prior, consumed, back, called>>

\* A settlement or a release that was left half-way is carried through first.
ReadPrior(e) ==
    LET r == receipt[target[e]] IN
    /\ stage[e] = "prior"
    /\ IF r.status \in {"settling", "releasing"}
       THEN /\ held' = [held EXCEPT ![e] = IF r.status = "settling"
                                           THEN [NoReservation EXCEPT !.attempt = r.attempt]
                                           ELSE reservation[target[e]]]
            /\ back' = [back EXCEPT ![e] = "again"]
            /\ Step(e, IF r.status = "settling" THEN "count"
                       ELSE IF reservation[target[e]].status = "reserved" THEN "release" ELSE "again")
       ELSE Step(e, IF r.status = "none" THEN "admit" ELSE "again") /\ UNCHANGED <<held, back>>
    /\ UNCHANGED <<current, stateDoc, receipt, telemetry, target, prior, consumed, tried, called>>

ReadPriorAgain(e) ==
    LET r == receipt[target[e]] IN
    /\ stage[e] = "again"
    /\ prior' = [prior EXCEPT ![e] = r]
    /\ consumed' = [consumed EXCEPT ![e] = r.status \in {"completed", "abandoned"}]
    /\ Step(e, IF r.status \in {"reserved", "started"} THEN "active" ELSE "admit")
    /\ UNCHANGED <<current, stateDoc, receipt, telemetry, target, held, back, tried, called>>

\* A reservation whose holder lost its lease is released, or abandoned when
\* the call was started; one that is still held makes this attempt fail.
ReadActiveCall(e) ==
    LET r == reservation[target[e]] IN
    /\ stage[e] = "active"
    /\ ~(ActiveCall(target[e]) /\ Fence(r.owner))
    /\ held' = [held EXCEPT ![e] = r]
    /\ back' = [back EXCEPT ![e] = "reread"]
    /\ consumed' = [consumed EXCEPT ![e] = r.status = "started"]
    /\ Step(e, CASE r.status = "none" -> "reread"
                 [] r.status = "reserved" -> "release"
                 [] r.status = "started" -> "abandon")
    /\ UNCHANGED <<current, stateDoc, receipt, telemetry, target, prior, tried, called>>

AlreadyInProgress(e) ==
    /\ stage[e] = "active"
    /\ ActiveCall(target[e]) /\ Fence(reservation[target[e]].owner)
    /\ Throw(e)

Reread(e) ==
    /\ stage[e] = "reread"
    /\ prior' = [prior EXCEPT ![e] = receipt[target[e]]]
    /\ Step(e, "admit")
    /\ UNCHANGED <<current, stateDoc, receipt, telemetry, target, held, consumed, back, tried, called>>

-----------------------------------------------------------------------------
(* reserveCall: the admission. *)

Admit(e) ==
    /\ stage[e] = "admit" /\ Fence(e)
    /\ Step(e, "reserve")
    /\ back' = [back EXCEPT ![e] = "idle"]
    /\ UNCHANGED <<current, stateDoc, receipt, telemetry, target, held, prior, consumed, tried, called>>

LostFence(e) ==
    /\ stage[e] \in {"admit", "begin", "calling"} /\ ~Fence(e)
    /\ Throw(e)

\* Mutant: the limit is checked when the call is offered, not when it is written.
AdmissibleUnread(e) == ~ActiveCall(target[e])

\* A call that has already consumed its admission passes the gates uncharged.
Admissible(e) == ~ActiveCall(target[e]) /\ (consumed[e] \/ toolCalls < MaxToolCalls)

\* reserveAtomic.
Reserve(e) ==
    LET r == [status |-> "reserved", attempt |-> prior[e].attempt + 1, owner |-> e,
              charge |-> IF consumed[e] THEN 0 ELSE 1]
    IN
    /\ stage[e] = "reserve" /\ Admissible(e)
    /\ reservation' = [reservation EXCEPT ![target[e]] = r]
    /\ toolCalls' = toolCalls + r.charge
    /\ held' = [held EXCEPT ![e] = r]
    /\ Step(e, "receipt")
    /\ UNCHANGED <<current, usage, receipt, telemetry, target, prior, consumed, back, tried, called>>

\* Refused, also after the sweep has had its turn.
RefuseCall(e) ==
    /\ stage[e] = "reserve" /\ ~Admissible(e)
    /\ Throw(e)

WriteReceipt(e) ==
    /\ stage[e] = "receipt"
    /\ PutReceipt(e, "reserved")
    /\ Step(e, "verify")
    /\ UNCHANGED <<current, stateDoc, telemetry, target, held, prior, consumed, back, tried, called>>

VerifyAdmission(e) ==
    /\ stage[e] = "verify"
    /\ Step(e, IF Fence(e) THEN "begin" ELSE "release")
    /\ UNCHANGED <<current, stateDoc, receipt, telemetry, target, held, prior, consumed, back, tried,
                   called>>

-----------------------------------------------------------------------------
(* markCallStarted, the external call, completeCall. *)

Begin(e) ==
    /\ stage[e] = "begin" /\ Fence(e)
    /\ Step(e, "start")
    /\ UNCHANGED <<current, stateDoc, receipt, telemetry, target, held, prior, consumed, back, tried,
                   called>>

Mine(p, status) ==
    LET r == reservation[target[p]] IN r.attempt = held[p].attempt /\ r.status = status

Startable(e) == Mine(e, "reserved") /\ reservation[target[e]].owner = e

StartCall(e) ==
    /\ stage[e] = "start" /\ Startable(e)
    /\ reservation' = [reservation EXCEPT ![target[e]].status = "started"]
    /\ held' = [held EXCEPT ![e].status = "started"]
    /\ Step(e, "started")
    /\ UNCHANGED <<current, toolCalls, usage, receipt, telemetry, target, prior, consumed, back, tried,
                   called>>

\* Where the receipt says that the attempt of this number is started, the call is let through.
StartedBefore(e) ==
    LET r == receipt[target[e]] IN
    /\ stage[e] = "start" /\ ~Startable(e)
    /\ r.attempt = held[e].attempt /\ r.status = "started"
    /\ Step(e, "calling")
    /\ called' = called \cup {<<target[e], held[e].attempt>>}
    /\ UNCHANGED <<current, stateDoc, receipt, telemetry, target, held, prior, consumed, back, tried>>

NotStartable(e) ==
    LET r == receipt[target[e]] IN
    /\ stage[e] = "start" /\ ~Startable(e)
    /\ ~(r.attempt = held[e].attempt /\ r.status = "started")
    /\ Throw(e)

ReceiptStarted(e) ==
    /\ stage[e] = "started"
    /\ SetReceipt(e, "started")
    /\ Step(e, "check")
    /\ UNCHANGED <<current, stateDoc, telemetry, target, held, prior, consumed, back, tried, called>>

CheckStart(e) ==
    /\ stage[e] = "check"
    /\ IF Fence(e)
       THEN /\ Step(e, "calling")
            /\ called' = called \cup {<<target[e], held[e].attempt>>}
       ELSE Step(e, "abandon") /\ UNCHANGED called
    /\ UNCHANGED <<current, stateDoc, receipt, telemetry, target, held, prior, consumed, back, tried>>

CallReturns(e) ==
    /\ stage[e] = "calling" /\ Fence(e)
    /\ Step(e, "settle")
    /\ UNCHANGED <<current, stateDoc, receipt, telemetry, target, held, prior, consumed, back, tried,
                   called>>

\* Mutant: the receipt is read again for the telemetry, and may be that of a later attempt.
ContributionReread(e) == <<target[e], receipt[target[e]].attempt>>

\* What a settled receipt adds to the telemetry, under the number of its attempt.
Contribution(e) == <<target[e], held[e].attempt>>

Settle(e) ==
    LET r == receipt[target[e]] IN
    /\ stage[e] = "settle"
    /\ r.attempt = held[e].attempt /\ r.status = "started" /\ r.owner = e
    /\ SetReceipt(e, "settling")
    /\ Step(e, "count")
    /\ UNCHANGED <<current, stateDoc, telemetry, target, held, prior, consumed, back, tried, called>>

\* Another execution, that gave its attempt the same number, is settling the receipt.
JoinSettlement(e) ==
    LET r == receipt[target[e]] IN
    /\ stage[e] = "settle"
    /\ r.attempt = held[e].attempt /\ r.status = "settling"
    /\ Step(e, "count")
    /\ UNCHANGED <<current, stateDoc, receipt, telemetry, target, held, prior, consumed, back, tried,
                   called>>

\* It has settled it.
SettledBefore(e) ==
    LET r == receipt[target[e]] IN
    /\ stage[e] = "settle"
    /\ r.attempt = held[e].attempt /\ r.status = "completed"
    /\ telemetry' = telemetry \cup {Contribution(e)}
    /\ Quit(e)
    /\ UNCHANGED <<current, stateDoc, receipt, called>>

\* The receipt was taken over by a release, an abandonment or another attempt.
SettleRefused(e) ==
    LET r == receipt[target[e]] IN
    /\ stage[e] = "settle"
    /\ \/ r.attempt # held[e].attempt
       \/ r.status \notin {"started", "settling", "completed"}
       \/ r.status = "started" /\ r.owner # e
    /\ Throw(e)

\* Mutant: the usage is counted whether or not the reservation is still there.
CountableAlways(p) == ~ActiveCall(target[p]) \/ Mine(p, "started")

\* finishSettlingReceipt, for an own call or for the one before it.
Countable(p) == Mine(p, "started")

Count(e) ==
    /\ stage[e] = "count" /\ Countable(e)
    /\ reservation' = [reservation EXCEPT ![target[e]] = NoReservation]
    /\ usage' = usage + 1
    /\ Step(e, "report")
    /\ UNCHANGED <<current, toolCalls, receipt, telemetry, target, held, prior, consumed, back, tried,
                   called>>

CountedBefore(e) ==
    /\ stage[e] = "count" /\ ~Countable(e)
    /\ IF ActiveCall(target[e]) THEN Quit(e)
       ELSE Step(e, "report") /\ UNCHANGED <<target, held, prior, consumed, back, tried>>
    /\ UNCHANGED <<current, stateDoc, receipt, telemetry, called>>

Report(e) ==
    /\ stage[e] = "report"
    /\ telemetry' = telemetry \cup {Contribution(e)}
    /\ Step(e, "close")
    /\ UNCHANGED <<current, stateDoc, receipt, target, held, prior, consumed, back, tried, called>>

Close(e) ==
    /\ stage[e] = "close"
    /\ SetReceipt(e, "completed")
    /\ Return(e)
    /\ UNCHANGED <<current, stateDoc, telemetry, called>>

-----------------------------------------------------------------------------
(* releaseReservationInternal and abandonStartedInternal. *)

MarkReleasing(p) ==
    /\ stage[p] = "release"
    /\ PutReceipt(p, "releasing")
    /\ Step(p, "uncount")
    /\ UNCHANGED <<current, stateDoc, telemetry, target, held, prior, consumed, back, tried, called>>

\* Mutant: the release does not ask whether the call was started meanwhile.
ReleasableStarted(p) == Mine(p, "reserved") \/ Mine(p, "started")

ReleasableReservation(p) == Mine(p, "reserved")

Uncount(p) ==
    /\ stage[p] = "uncount" /\ ReleasableReservation(p)
    /\ reservation' = [reservation EXCEPT ![target[p]] = NoReservation]
    /\ toolCalls' = toolCalls - held[p].charge
    /\ Step(p, "released")
    /\ UNCHANGED <<current, usage, receipt, telemetry, target, held, prior, consumed, back, tried, called>>

UncountRefused(p) ==
    /\ stage[p] = "uncount" /\ ~ReleasableReservation(p)
    /\ IF ActiveCall(target[p]) THEN Return(p)
       ELSE Step(p, "released") /\ UNCHANGED <<target, held, prior, consumed, back, tried>>
    /\ UNCHANGED <<current, stateDoc, receipt, telemetry, called>>

MarkReleased(p) ==
    /\ stage[p] = "released"
    /\ SetReceipt(p, "released")
    /\ Return(p)
    /\ UNCHANGED <<current, stateDoc, telemetry, called>>

MarkAbandoned(p) ==
    /\ stage[p] = "abandon"
    /\ PutReceipt(p, "abandoned")
    /\ Step(p, "drop")
    /\ UNCHANGED <<current, stateDoc, telemetry, target, held, prior, consumed, back, tried, called>>

DropStarted(p) ==
    /\ stage[p] = "drop"
    /\ reservation' = [reservation EXCEPT ![target[p]] = IF Mine(p, "started") THEN NoReservation ELSE @]
    /\ Return(p)
    /\ UNCHANGED <<current, toolCalls, usage, receipt, telemetry, called>>

-----------------------------------------------------------------------------
(* recoverStaleAdmissions. *)

SweepRead(c) ==
    /\ stage[Sweep] = "idle" /\ ActiveCall(c)
    /\ target' = [target EXCEPT ![Sweep] = c]
    /\ held' = [held EXCEPT ![Sweep] = reservation[c]]
    /\ Step(Sweep, "judge")
    /\ UNCHANGED <<current, stateDoc, receipt, telemetry, prior, consumed, back, tried, called>>

\* Mutant: the sweep leaves calls that were started alone.
StaleFormStarted(r) == IF r.status = "reserved" THEN "release" ELSE "idle"

StaleForm(r) == IF r.status = "reserved" THEN "release" ELSE "abandon"

SweepJudge ==
    /\ stage[Sweep] = "judge"
    /\ IF Fence(held[Sweep].owner) THEN Quit(Sweep)
       ELSE Step(Sweep, StaleForm(held[Sweep])) /\ UNCHANGED <<target, held, prior, consumed, back, tried>>
    /\ UNCHANGED <<current, stateDoc, receipt, telemetry, called>>

-----------------------------------------------------------------------------
Undo(p) ==
    MarkReleasing(p) \/ Uncount(p) \/ UncountRefused(p) \/ MarkReleased(p)
    \/ MarkAbandoned(p) \/ DropStarted(p)

CallStep(e) ==
    \/ \E c \in Calls : BeginReserve(e, c)
    \/ ReadPrior(e) \/ ReadPriorAgain(e) \/ ReadActiveCall(e) \/ AlreadyInProgress(e) \/ Reread(e)
    \/ Admit(e) \/ LostFence(e) \/ Reserve(e) \/ RefuseCall(e) \/ WriteReceipt(e)
    \/ VerifyAdmission(e) \/ Begin(e) \/ StartCall(e) \/ StartedBefore(e) \/ NotStartable(e)
    \/ ReceiptStarted(e) \/ CheckStart(e) \/ CallReturns(e)
    \/ Settle(e) \/ JoinSettlement(e) \/ SettledBefore(e) \/ SettleRefused(e)
    \/ Count(e) \/ CountedBefore(e) \/ Report(e) \/ Close(e)

BudgetNext ==
    \/ TakeOver
    \/ \E e \in Executions : CallStep(e)
    \/ \E p \in Procs : Undo(p)
    \/ SweepJudge
    \/ \E c \in Calls : SweepRead(c)

\* The maintenance sweep goes through all reservations again and again.
BudgetFairness ==
    /\ \A c \in Calls : SF_budgetVars(SweepRead(c))
    /\ WF_budgetVars(SweepJudge)
    /\ WF_budgetVars(Undo(Sweep))

BudgetSpec     == BudgetInit /\ [][BudgetNext]_budgetVars
FairBudgetSpec == BudgetSpec /\ BudgetFairness

-----------------------------------------------------------------------------
(* Properties. *)

CalledOnce == {x[1] : x \in called}

\* max_tool_calls is strict: a call that was made is counted and stays counted,
\* whatever stale release, sweep or replay meets it, and no more are admitted.
StrictCeiling == Cardinality(CalledOnce) =< toolCalls /\ toolCalls =< MaxToolCalls

\* The usage of an attempt is added to the budget once at most, although an
\* execution and its successor may both carry its settlement through.
UsageCountedOnce == usage =< Cardinality(called)

\* Nothing is reported that was not called, although executions that number their attempts alike
\* go through and settle each other's receipts.
ReportedWasCalled == telemetry \subseteq called

\* No third execution has taken over; it may number an attempt as the second did.
AtMostTwo == current =< 2

\* The budget reports nothing that was not called, and until a third execution takes over it has
\* counted what was called: neither less, nor twice.
BudgetExact == ReportedWasCalled /\ (AtMostTwo => StrictCeiling /\ UsageCountedOnce)

\* A call is charged once, however often its execution is replayed.
ChargedOnce == toolCalls =< Cardinality(Calls)

Stale(c) == ActiveCall(c) /\ ~Fence(reservation[c].owner)

\* A reservation whose holder has lost its lease does not stay in the budget.
StaleCleared == \A c \in Calls : []<>~Stale(c)
=============================================================================
