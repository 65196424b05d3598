----------------------- MODULE ExecutionBudget_proofs -----------------------
(***************************************************************************)
(* Proofs about the execution budget of a Team: max_tool_calls is strict   *)
(* and usage is counted once, although the state document, the receipts    *)
(* and the telemetry are written one after the other and an execution, its *)
(* successor and the maintenance sweep meet between any two writes.        *)
(*                                                                         *)
(* However often the run is executed (Standing), attempts are numbered by  *)
(* executions, the count is never above the limit and nothing is reported  *)
(* that was not called.  Until its third execution (Exact) the invariant   *)
(* also says who may know of which attempt: while the first execution      *)
(* holds the lease it is alone with its calls, and until the second one    *)
(* has reserved a call nothing is left of it but the first attempt.  So a  *)
(* stale release finds the reservation it has read or none, the charge it  *)
(* takes back is the one that was counted, and an attempt is called once,  *)
(* by one execution.  The count is then at least the number of calls that  *)
(* were started and of those that are still reserved; a call that was made *)
(* has been started.                                                       *)
(***************************************************************************)
EXTENDS ExecutionBudget, FiniteSetTheorems, TLAPS

(* Where a process stands: undoing a reservation, past its own reservation of the call, holding
   a copy of the reservation it will judge or undo, looking for what is known of the call, and
   working on a call that counts as spent. *)
Undoing  == {"release", "uncount", "released", "abandon", "drop"}
Own      == {"receipt", "verify", "begin", "start", "started", "check", "calling", "settle"}
Holding  == {"judge", "receipt", "verify", "release", "uncount"}
Looking  == {"prior", "again", "active", "reread", "admit", "reserve"}
Spending == {"started", "check", "calling", "settle", "count", "report", "close", "abandon", "drop"}

\* The execution has not reserved the call it works on.
BeforeReserve(e) == stage[e] \in Looking \/ back[e] # "idle"

\* It has been past its reservation of the call.
Past(e, c) == c \in tried[e] /\ ~(BeforeReserve(e) /\ target[e] = c)

Second(c) == \E e \in Executions : e = 2 /\ Past(e, c)

\* What a process has in hand where it stands.
PlaceOf(p) ==
    /\ p = Sweep => stage[p] \in {"idle", "judge"} \cup Undoing /\ back[p] = "idle"
    /\ p # Sweep => stage[p] # "judge"
    /\ stage[p] = "idle" => back[p] = "idle" /\ prior[p].attempt = 0 /\ held[p].attempt = 0
    /\ stage[p] \in Own \cup {"reserve"} => back[p] = "idle"
    /\ prior[p].attempt = 0 => ~consumed[p]
    /\ stage[p] = "prior" => prior[p].attempt = 0
    /\ stage[p] = "judge" => held[p].status # "none"
    /\ stage[p] \in {"active", "reread"} \/ back[p] = "reread" => prior[p].attempt # 0
    /\ stage[p] \notin Looking \cup {"idle"} => held[p].attempt # 0

PlacePart ==
    /\ \A p \in Procs : PlaceOf(p)
    /\ \A e \in Executions :
          /\ stage[e] # "idle" => target[e] \in tried[e]
          /\ e > current => stage[e] = "idle" /\ tried[e] = {}

\* A process that knows of a receipt of its call: there is one, and stays one.
KnowsReceipt(p) ==
    stage[p] \in {"verify", "begin", "start", "started", "check", "again", "active", "reread"}
    \/ back[p] # "idle"

\* A receipt has an attempt, and a call that was made has a receipt.
DocPart ==
    /\ \A c \in Calls :
          /\ receipt[c].status = "none" <=> receipt[c].attempt = 0
          /\ ActiveCall(c) => reservation[c].attempt # 0 /\ reservation[c].owner \in 1..current
    /\ \A p \in Procs : KnowsReceipt(p) => receipt[target[p]].attempt # 0
    /\ \A x \in called : receipt[x[1]].attempt # 0

\* The highest number an attempt at a call may have: executions number theirs one after the other.
Latest(c) == IF Past(current, c) THEN current ELSE current - 1

NumberPart ==
    /\ \A c \in Calls : receipt[c].attempt <= Latest(c) /\ reservation[c].attempt <= Latest(c)
    /\ \A p \in Procs : held[p].attempt <= Latest(target[p]) /\ prior[p].attempt <= Latest(target[p])
    /\ \A e \in Executions : stage[e] = "reserve" => prior[e].attempt < e

\* The first execution while it holds the lease: no other process has a part in its calls.
FirstAlone ==
    /\ stage[1] \notin {"again", "active", "reread"} /\ back[1] = "idle"
    /\ prior[1].attempt = 0
    /\ stage[1] \in Looking => receipt[target[1]].attempt = 0
    /\ \A c \in Calls : receipt[c].attempt # 0 => c \in tried[1]
    /\ stage[Sweep] \in {"idle", "judge"}
    /\ stage[Sweep] = "judge" => held[Sweep].owner = 1

FirstPart ==
    /\ stage[1] = "reserve" => prior[1].attempt = 0
    /\ stage[1] \in Own => held[1].attempt = 1
    /\ current = 1 => FirstAlone

\* Before the second execution reserves a call, nothing knows of a second attempt at it.
SecondPart ==
    /\ \A c \in Calls : ~Second(c) =>
          receipt[c].attempt <= 1 /\ reservation[c].attempt <= 1 /\ <<c, 2>> \notin called
    /\ \A p \in Procs : ~Second(target[p]) => held[p].attempt <= 1 /\ prior[p].attempt <= 1

\* The first attempt is charged, and who will undo a reservation knows its charge unless it
\* has been replaced.
ChargePart ==
    /\ \A c \in Calls : reservation[c].attempt = 1 => reservation[c].charge = 1
    /\ \A p \in Procs : stage[p] \in Holding =>
          /\ held[p].attempt = 1 => held[p].charge = 1
          /\ held[p].attempt = reservation[target[p]].attempt
                => held[p].charge = reservation[target[p]].charge

\* The calls that are counted and may still be uncounted.
Promised == {c \in Calls : reservation[c].status = "reserved" /\ reservation[c].charge = 1}

(* The calls of X have been started: a call that was made is one of them, and so is one that is
   started, is not charged, or has a receipt that consumes its admission. *)
Spent(X) ==
    /\ \A x \in called : x[1] \in X
    /\ \A c \in Calls :
          /\ reservation[c].status = "started" => c \in X
          /\ ActiveCall(c) /\ reservation[c].charge = 0 => c \in X
          /\ receipt[c].status \in {"started", "settling", "completed", "abandoned"} => c \in X
    /\ \A p \in Procs :
          /\ stage[p] \in Spending => target[p] \in X
          /\ consumed[p] => target[p] \in X
          /\ stage[p] = "judge" /\ held[p].status = "started" => target[p] \in X

\* Each call that was started and each that is promised is counted, apart.
MoneyPart ==
    /\ IsFiniteSet(Promised)
    /\ \E X \in SUBSET Calls :
          IsFiniteSet(X) /\ Spent(X) /\ Cardinality(X) + Cardinality(Promised) <= toolCalls

(* What is reported has been called: the telemetry has no attempt but those that were, and a receipt
   is settled only by who called, or by who finds it in settlement. *)
ReportPart ==
    /\ telemetry \subseteq called
    /\ \A p \in Procs :
          stage[p] \in {"calling", "settle", "count", "report", "close"}
              => <<target[p], held[p].attempt>> \in called
    /\ \A c \in Calls :
          receipt[c].status \in {"settling", "completed"} => <<c, receipt[c].attempt>> \in called

\* The attempts that were called and whose usage is still to be added.
Going == {x \in called : reservation[x[1]].status = "started" /\ reservation[x[1]].attempt = x[2]}

\* The usage is that of attempts that were called and are over.
CalledPart == IsFiniteSet(called) /\ usage <= Cardinality(called \ Going)

Started == {"start", "started", "check"}

(* An attempt that is on the way to its call has not been called, and the two executions are not
   on the way to the same attempt. *)
NewPart ==
    /\ (stage[1] = "start" \/ (current = 1 /\ stage[1] \in {"receipt", "verify", "begin"}))
          => <<target[1], 1>> \notin called
    /\ \A e \in Executions : e = 2 =>
          /\ \/ stage[e] \in {"admit", "reserve"} /\ prior[e].attempt = 0
             \/ stage[e] \in {"receipt", "verify", "begin"} \cup Started /\ held[e].attempt = 1
             => /\ <<target[e], 1>> \notin called
                /\ stage[1] \in Started => target[1] # target[e]
          /\ stage[e] \in {"receipt", "verify", "begin", "start"}
                => <<target[e], held[e].attempt>> \notin called

AtCall == {"started", "check", "calling", "settle"}
Ending == {"count", "report", "close"}

(* No two executions are at the same attempt: the receipt of an attempt that is not started yet
   does not say so, and that of an attempt that is started is not settled by another execution. *)
ApartPart ==
    /\ \A e \in Executions :
          /\ stage[e] = "start" \/ (e = current /\ stage[e] \in {"verify", "begin"})
                => ~(receipt[target[e]].attempt = held[e].attempt
                       /\ receipt[target[e]].status = "started")
          /\ stage[e] \in AtCall
                => ~(receipt[target[e]].attempt = held[e].attempt
                       /\ receipt[target[e]].status \in {"settling", "completed"})
    /\ \A e, f \in Executions :
          e # f /\ stage[e] \in AtCall /\ stage[f] \in AtCall \cup Ending /\ target[e] = target[f]
              => held[e].attempt # held[f].attempt

\* What holds however often the run is executed, and what holds until its third execution.
Standing == BudgetTypeOK /\ PlacePart /\ DocPart /\ NumberPart /\ ReportPart
Exact    == FirstPart /\ SecondPart /\ ChargePart /\ MoneyPart /\ CalledPart /\ NewPart /\ ApartPart

BInv == Standing /\ (AtMostTwo => Exact)

StepOf(p) ==
    \/ p \in Executions /\ CallStep(p)
    \/ Undo(p)
    \/ p = Sweep /\ (SweepJudge \/ \E c \in Calls : SweepRead(c))

LEMMA StepsCovered == BudgetNext => TakeOver \/ \E p \in Procs : StepOf(p)
BY BudgetAssumption DEF BudgetNext, StepOf, Executions, Procs, Sweep

LEMMA Processes ==
  /\ 1 \in Executions /\ Sweep \in Procs /\ Sweep \notin Executions /\ MaxExecutions \in Nat
  /\ \A e \in Executions : e \in Procs /\ e \in Attempts /\ e # Sweep /\ e \in Nat \ {0}
  /\ \A p \in Procs : p = Sweep \/ p \in Executions
BY BudgetAssumption DEF Executions, Procs, Attempts, Sweep

LEMMA Blank ==
  /\ NoReceipt.status = "none" /\ NoReceipt.attempt = 0
  /\ NoReservation.status = "none" /\ NoReservation.attempt = 0 /\ NoReservation.charge = 0
BY DEF NoReceipt, NoReservation

Same(q) ==
    /\ stage'[q] = stage[q] /\ target'[q] = target[q] /\ held'[q] = held[q]
    /\ prior'[q] = prior[q] /\ consumed'[q] = consumed[q] /\ back'[q] = back[q]

(* A step moves one process. *)
LEMMA OthersStay ==
  ASSUME NEW p \in Procs, StepOf(p), BudgetTypeOK, NEW q \in Procs, q # p
  PROVE  Same(q)
<1>1. CASE p \in Executions /\ \E c \in Calls : BeginReserve(p, c)
  BY BudgetTypeOK, <1>1 DEF BeginReserve, Step, BudgetTypeOK, Same, localVars
<1>2. CASE p \in Executions /\ ReadPrior(p)
  BY BudgetTypeOK, <1>2 DEF ReadPrior, Step, BudgetTypeOK, Same, localVars
<1>3. CASE p \in Executions /\ ReadPriorAgain(p)
  BY BudgetTypeOK, <1>3 DEF ReadPriorAgain, Step, BudgetTypeOK, Same, localVars
<1>4. CASE p \in Executions /\ ReadActiveCall(p)
  BY BudgetTypeOK, <1>4 DEF ReadActiveCall, Step, BudgetTypeOK, Same, localVars
<1>5. CASE p \in Executions /\ AlreadyInProgress(p)
  BY BudgetTypeOK, <1>5 DEF AlreadyInProgress, Throw, Quit, Step, BudgetTypeOK, Same, localVars
<1>6. CASE p \in Executions /\ Reread(p)
  BY BudgetTypeOK, <1>6 DEF Reread, Step, BudgetTypeOK, Same, localVars
<1>7. CASE p \in Executions /\ Admit(p)
  BY BudgetTypeOK, <1>7 DEF Admit, Step, BudgetTypeOK, Same, localVars
<1>8. CASE p \in Executions /\ LostFence(p)
  BY BudgetTypeOK, <1>8 DEF LostFence, Throw, Quit, Step, BudgetTypeOK, Same, localVars
<1>9. CASE p \in Executions /\ Reserve(p)
  BY BudgetTypeOK, <1>9 DEF Reserve, Step, BudgetTypeOK, Same, localVars
<1>10. CASE p \in Executions /\ RefuseCall(p)
  BY BudgetTypeOK, <1>10 DEF RefuseCall, Throw, Quit, Step, BudgetTypeOK, Same, localVars
<1>11. CASE p \in Executions /\ WriteReceipt(p)
  BY BudgetTypeOK, <1>11 DEF WriteReceipt, Step, BudgetTypeOK, Same, localVars
<1>12. CASE p \in Executions /\ VerifyAdmission(p)
  BY BudgetTypeOK, <1>12 DEF VerifyAdmission, Step, BudgetTypeOK, Same, localVars
<1>13. CASE p \in Executions /\ Begin(p)
  BY BudgetTypeOK, <1>13 DEF Begin, Step, BudgetTypeOK, Same, localVars
<1>14. CASE p \in Executions /\ StartCall(p)
  BY BudgetTypeOK, <1>14 DEF StartCall, Step, BudgetTypeOK, Same, localVars
<1>15. CASE p \in Executions /\ NotStartable(p)
  BY BudgetTypeOK, <1>15 DEF NotStartable, Throw, Quit, Step, BudgetTypeOK, Same, localVars
<1>16. CASE p \in Executions /\ ReceiptStarted(p)
  BY BudgetTypeOK, <1>16 DEF ReceiptStarted, Step, BudgetTypeOK, Same, localVars
<1>17. CASE p \in Executions /\ CheckStart(p)
  BY BudgetTypeOK, <1>17 DEF CheckStart, Step, BudgetTypeOK, Same, localVars
<1>18. CASE p \in Executions /\ CallReturns(p)
  BY BudgetTypeOK, <1>18 DEF CallReturns, Step, BudgetTypeOK, Same, localVars
<1>19. CASE p \in Executions /\ Settle(p)
  BY BudgetTypeOK, <1>19 DEF Settle, Step, BudgetTypeOK, Same, localVars
<1>20. CASE p \in Executions /\ SettleRefused(p)
  BY BudgetTypeOK, <1>20 DEF SettleRefused, Throw, Quit, Step, BudgetTypeOK, Same, localVars
<1>21. CASE p \in Executions /\ Count(p)
  BY BudgetTypeOK, <1>21 DEF Count, Step, BudgetTypeOK, Same, localVars
<1>22. CASE p \in Executions /\ CountedBefore(p)
  BY BudgetTypeOK, <1>22 DEF CountedBefore, Quit, Step, BudgetTypeOK, Same, localVars
<1>23. CASE p \in Executions /\ Report(p)
  BY BudgetTypeOK, <1>23 DEF Report, Step, BudgetTypeOK, Same, localVars
<1>24. CASE p \in Executions /\ Close(p)
  BY BudgetTypeOK, <1>24 DEF Close, Return, Quit, Step, BudgetTypeOK, Same, localVars
<1>25. CASE MarkReleasing(p)
  BY BudgetTypeOK, <1>25 DEF MarkReleasing, Step, BudgetTypeOK, Same, localVars
<1>26. CASE Uncount(p)
  BY BudgetTypeOK, <1>26 DEF Uncount, Step, BudgetTypeOK, Same, localVars
<1>27. CASE UncountRefused(p)
  BY BudgetTypeOK, <1>27 DEF UncountRefused, Return, Quit, Step, BudgetTypeOK, Same, localVars
<1>28. CASE MarkReleased(p)
  BY BudgetTypeOK, <1>28 DEF MarkReleased, Return, Quit, Step, BudgetTypeOK, Same, localVars
<1>29. CASE MarkAbandoned(p)
  BY BudgetTypeOK, <1>29 DEF MarkAbandoned, Step, BudgetTypeOK, Same, localVars
<1>30. CASE DropStarted(p)
  BY BudgetTypeOK, <1>30 DEF DropStarted, Return, Quit, Step, BudgetTypeOK, Same, localVars
<1>31. CASE p = Sweep /\ SweepJudge
  BY BudgetTypeOK, <1>31 DEF SweepJudge, Quit, Step, BudgetTypeOK, Same, localVars
<1>32. CASE p = Sweep /\ \E c \in Calls : SweepRead(c)
  BY BudgetTypeOK, <1>32 DEF SweepRead, Step, BudgetTypeOK, Same, localVars
<1>33. CASE p \in Executions /\ StartedBefore(p)
  BY BudgetTypeOK, <1>33 DEF StartedBefore, Step, BudgetTypeOK, Same, localVars
<1>34. CASE p \in Executions /\ JoinSettlement(p)
  BY BudgetTypeOK, <1>34 DEF JoinSettlement, Step, BudgetTypeOK, Same, localVars
<1>35. CASE p \in Executions /\ SettledBefore(p)
  BY BudgetTypeOK, <1>35 DEF SettledBefore, Quit, Step, BudgetTypeOK, Same, localVars
<1> QED
  BY <1>1, <1>2, <1>3, <1>4, <1>5, <1>6, <1>7, <1>8, <1>9, <1>10, <1>11, <1>12, <1>13, <1>14,
     <1>15, <1>16, <1>17, <1>18, <1>19, <1>20, <1>21, <1>22, <1>23, <1>24, <1>25, <1>26, <1>27,
     <1>28, <1>29, <1>30, <1>31, <1>32, <1>33, <1>34, <1>35
  DEF StepOf, CallStep, Undo

(* What a process knows when its call is over. *)
Rested(p) ==
    /\ stage'[p] = "idle" /\ back'[p] = "idle" /\ prior'[p] = NoReceipt /\ consumed'[p] = FALSE
    /\ held'[p] = NoReservation

LEMMA QuitRests ==
  ASSUME NEW p \in Procs, BudgetTypeOK, Quit(p)
  PROVE  Rested(p)
BY DEF Quit, Step, Rested, BudgetTypeOK

LEMMA RestedPlace ==
  ASSUME NEW p \in Procs, Rested(p)
  PROVE  PlaceOf(p)'
BY Blank DEF Rested, PlaceOf, Own, Looking

LEMMA RestedAttempts ==
  ASSUME NEW p \in Procs, Rested(p)
  PROVE  held'[p].attempt = 0 /\ prior'[p].attempt = 0 /\ stage'[p] = "idle"
BY Blank DEF Rested

\* A process goes back to what it was about, or ends.
Returned(p) ==
    \/ Rested(p)
    \/ /\ back[p] # "idle" /\ stage'[p] = back[p]
       /\ target'[p] = target[p] /\ held'[p] = held[p] /\ prior'[p] = prior[p]
       /\ consumed'[p] = consumed[p] /\ back'[p] = back[p]

LEMMA ReturnGoesBack ==
  ASSUME NEW p \in Procs, BudgetTypeOK, Return(p)
  PROVE  Returned(p)
BY QuitRests DEF Return, Returned, Step, BudgetTypeOK

(* What each step reads and writes of the documents: those of its call. *)
LEMMA DocumentsMove ==
  ASSUME NEW p \in Procs, StepOf(p), BudgetTypeOK, PlacePart, DocPart
  PROVE  /\ current' = current
         /\ \A c \in Calls :
               /\ c # target[p] => reservation'[c] = reservation[c] /\ receipt'[c] = receipt[c]
               /\ \/ receipt'[c] = receipt[c]
                  \/ /\ c = target[p] /\ held[p].attempt # 0
                     /\ receipt'[c].attempt = held[p].attempt /\ receipt'[c].status # "none"
<1> USE DEF Looking, Undoing, NoReceipt
<1>a. PlaceOf(p)
  BY DEF PlacePart
<1>1. CASE p \in Executions /\ \E c \in Calls : BeginReserve(p, c)
  BY <1>a, <1>1
  DEF BeginReserve, Step, BudgetTypeOK, PlaceOf, stateDoc, SetReceipt, PutReceipt, Receipts,
      ActiveCall, DocPart
<1>2. CASE p \in Executions /\ ReadPrior(p)
  BY <1>a, <1>2
  DEF ReadPrior, Step, BudgetTypeOK, PlaceOf, stateDoc, SetReceipt, PutReceipt, Receipts,
      ActiveCall, DocPart
<1>3. CASE p \in Executions /\ ReadPriorAgain(p)
  BY <1>a, <1>3
  DEF ReadPriorAgain, Step, BudgetTypeOK, PlaceOf, stateDoc, SetReceipt, PutReceipt, Receipts,
      ActiveCall, DocPart
<1>4. CASE p \in Executions /\ ReadActiveCall(p)
  BY <1>a, <1>4
  DEF ReadActiveCall, Step, BudgetTypeOK, PlaceOf, stateDoc, SetReceipt, PutReceipt, Receipts,
      ActiveCall, DocPart
<1>5. CASE p \in Executions /\ AlreadyInProgress(p)
  BY <1>a, <1>5
  DEF AlreadyInProgress, Throw, Quit, Step, BudgetTypeOK, PlaceOf, stateDoc, SetReceipt,
      PutReceipt, Receipts, ActiveCall, DocPart
<1>6. CASE p \in Executions /\ Reread(p)
  BY <1>a, <1>6
  DEF Reread, Step, BudgetTypeOK, PlaceOf, stateDoc, SetReceipt, PutReceipt, Receipts, ActiveCall,
      DocPart
<1>7. CASE p \in Executions /\ Admit(p)
  BY <1>a, <1>7
  DEF Admit, Step, BudgetTypeOK, PlaceOf, stateDoc, SetReceipt, PutReceipt, Receipts, ActiveCall,
      DocPart
<1>8. CASE p \in Executions /\ LostFence(p)
  BY <1>a, <1>8
  DEF LostFence, Throw, Quit, Step, BudgetTypeOK, PlaceOf, stateDoc, SetReceipt, PutReceipt,
      Receipts, ActiveCall, DocPart
<1>9. CASE p \in Executions /\ Reserve(p)
  BY <1>a, <1>9
  DEF Reserve, Step, BudgetTypeOK, PlaceOf, stateDoc, SetReceipt, PutReceipt, Receipts,
      ActiveCall, DocPart
<1>10. CASE p \in Executions /\ RefuseCall(p)
  BY <1>a, <1>10
  DEF RefuseCall, Throw, Quit, Step, BudgetTypeOK, PlaceOf, stateDoc, SetReceipt, PutReceipt,
      Receipts, ActiveCall, DocPart
<1>11. CASE p \in Executions /\ WriteReceipt(p)
  BY <1>a, <1>11
  DEF WriteReceipt, Step, BudgetTypeOK, PlaceOf, stateDoc, SetReceipt, PutReceipt, Receipts,
      ActiveCall, DocPart
<1>12. CASE p \in Executions /\ VerifyAdmission(p)
  BY <1>a, <1>12
  DEF VerifyAdmission, Step, BudgetTypeOK, PlaceOf, stateDoc, SetReceipt, PutReceipt, Receipts,
      ActiveCall, DocPart
<1>13. CASE p \in Executions /\ Begin(p)
  BY <1>a, <1>13
  DEF Begin, Step, BudgetTypeOK, PlaceOf, stateDoc, SetReceipt, PutReceipt, Receipts, ActiveCall,
      DocPart
<1>14. CASE p \in Executions /\ StartCall(p)
  BY <1>a, <1>14
  DEF StartCall, Step, BudgetTypeOK, PlaceOf, stateDoc, SetReceipt, PutReceipt, Receipts,
      ActiveCall, DocPart
<1>15. CASE p \in Executions /\ NotStartable(p)
  BY <1>a, <1>15
  DEF NotStartable, Throw, Quit, Step, BudgetTypeOK, PlaceOf, stateDoc, SetReceipt, PutReceipt,
      Receipts, ActiveCall, DocPart
<1>16. CASE p \in Executions /\ ReceiptStarted(p)
  BY <1>a, <1>16
  DEF ReceiptStarted, Step, BudgetTypeOK, PlaceOf, stateDoc, SetReceipt, PutReceipt, Receipts,
      ActiveCall, DocPart
<1>17. CASE p \in Executions /\ CheckStart(p)
  BY <1>a, <1>17
  DEF CheckStart, Step, BudgetTypeOK, PlaceOf, stateDoc, SetReceipt, PutReceipt, Receipts,
      ActiveCall, DocPart
<1>18. CASE p \in Executions /\ CallReturns(p)
  BY <1>a, <1>18
  DEF CallReturns, Step, BudgetTypeOK, PlaceOf, stateDoc, SetReceipt, PutReceipt, Receipts,
      ActiveCall, DocPart
<1>19. CASE p \in Executions /\ Settle(p)
  BY <1>a, <1>19
  DEF Settle, Step, BudgetTypeOK, PlaceOf, stateDoc, SetReceipt, PutReceipt, Receipts, ActiveCall,
      DocPart
<1>20. CASE p \in Executions /\ SettleRefused(p)
  BY <1>a, <1>20
  DEF SettleRefused, Throw, Quit, Step, BudgetTypeOK, PlaceOf, stateDoc, SetReceipt, PutReceipt,
      Receipts, ActiveCall, DocPart
<1>21. CASE p \in Executions /\ Count(p)
  BY <1>a, <1>21
  DEF Count, Step, BudgetTypeOK, PlaceOf, stateDoc, SetReceipt, PutReceipt, Receipts, ActiveCall,
      DocPart
<1>22. CASE p \in Executions /\ CountedBefore(p)
  BY <1>a, <1>22
  DEF CountedBefore, Quit, Step, BudgetTypeOK, PlaceOf, stateDoc, SetReceipt, PutReceipt,
      Receipts, ActiveCall, DocPart
<1>23. CASE p \in Executions /\ Report(p)
  BY <1>a, <1>23
  DEF Report, Step, BudgetTypeOK, PlaceOf, stateDoc, SetReceipt, PutReceipt, Receipts, ActiveCall,
      DocPart
<1>24. CASE p \in Executions /\ Close(p)
  BY <1>a, <1>24
  DEF Close, Return, Quit, Step, BudgetTypeOK, PlaceOf, stateDoc, SetReceipt, PutReceipt,
      Receipts, ActiveCall, DocPart
<1>25. CASE MarkReleasing(p)
  BY <1>a, <1>25
  DEF MarkReleasing, Step, BudgetTypeOK, PlaceOf, stateDoc, SetReceipt, PutReceipt, Receipts,
      ActiveCall, DocPart
<1>26. CASE Uncount(p)
  BY <1>a, <1>26
  DEF Uncount, Step, BudgetTypeOK, PlaceOf, stateDoc, SetReceipt, PutReceipt, Receipts,
      ActiveCall, DocPart
<1>27. CASE UncountRefused(p)
  BY <1>a, <1>27
  DEF UncountRefused, Return, Quit, Step, BudgetTypeOK, PlaceOf, stateDoc, SetReceipt, PutReceipt,
      Receipts, ActiveCall, DocPart
<1>28. CASE MarkReleased(p)
  BY <1>a, <1>28
  DEF MarkReleased, Return, Quit, Step, BudgetTypeOK, PlaceOf, stateDoc, SetReceipt, PutReceipt,
      Receipts, ActiveCall, DocPart
<1>29. CASE MarkAbandoned(p)
  BY <1>a, <1>29
  DEF MarkAbandoned, Step, BudgetTypeOK, PlaceOf, stateDoc, SetReceipt, PutReceipt, Receipts,
      ActiveCall, DocPart
<1>30. CASE DropStarted(p)
  BY <1>a, <1>30
  DEF DropStarted, Return, Quit, Step, BudgetTypeOK, PlaceOf, stateDoc, SetReceipt, PutReceipt,
      Receipts, ActiveCall, DocPart
<1>31. CASE p = Sweep /\ SweepJudge
  BY <1>a, <1>31
  DEF SweepJudge, Quit, Step, BudgetTypeOK, PlaceOf, stateDoc, SetReceipt, PutReceipt, Receipts,
      ActiveCall, DocPart
<1>32. CASE p = Sweep /\ \E c \in Calls : SweepRead(c)
  BY <1>a, <1>32
  DEF SweepRead, Step, BudgetTypeOK, PlaceOf, stateDoc, SetReceipt, PutReceipt, Receipts,
      ActiveCall, DocPart
<1>33. CASE p \in Executions /\ StartedBefore(p)
  BY <1>a, <1>33
  DEF StartedBefore, Step, BudgetTypeOK, PlaceOf, stateDoc, SetReceipt, PutReceipt, Receipts,
      ActiveCall, DocPart
<1>34. CASE p \in Executions /\ JoinSettlement(p)
  BY <1>a, <1>34
  DEF JoinSettlement, Step, BudgetTypeOK, PlaceOf, stateDoc, SetReceipt, PutReceipt, Receipts,
      ActiveCall, DocPart
<1>35. CASE p \in Executions /\ SettledBefore(p)
  BY <1>a, <1>35
  DEF SettledBefore, Quit, Step, BudgetTypeOK, PlaceOf, stateDoc, SetReceipt, PutReceipt,
      Receipts, ActiveCall, DocPart
<1> QED
  BY <1>1, <1>2, <1>3, <1>4, <1>5, <1>6, <1>7, <1>8, <1>9, <1>10, <1>11, <1>12, <1>13, <1>14,
     <1>15, <1>16, <1>17, <1>18, <1>19, <1>20, <1>21, <1>22, <1>23, <1>24, <1>25, <1>26, <1>27,
     <1>28, <1>29, <1>30, <1>31, <1>32, <1>33, <1>34, <1>35
  DEF StepOf, CallStep, Undo

(* The tries and the lease. *)
LEMMA TriedGrows ==
  ASSUME NEW p \in Procs, StepOf(p), BudgetTypeOK, PlacePart
  PROVE  /\ \A e \in Executions : e # p => tried'[e] = tried[e]
         /\ p \in Executions =>
               /\ \A c \in tried[p] : c \in tried'[p]
               /\ ~(p > current)
               /\ stage'[p] # "idle" => target'[p] \in tried'[p]
<1>1. CASE p \in Executions /\ \E c \in Calls : BeginReserve(p, c)
  BY Processes, <1>1 DEF BeginReserve, Step, BudgetTypeOK, PlacePart, Fence
<1>2. CASE p \in Executions /\ ReadPrior(p)
  BY Processes, <1>2 DEF ReadPrior, Step, BudgetTypeOK, PlacePart, Fence
<1>3. CASE p \in Executions /\ ReadPriorAgain(p)
  BY Processes, <1>3 DEF ReadPriorAgain, Step, BudgetTypeOK, PlacePart, Fence
<1>4. CASE p \in Executions /\ ReadActiveCall(p)
  BY Processes, <1>4 DEF ReadActiveCall, Step, BudgetTypeOK, PlacePart, Fence
<1>5. CASE p \in Executions /\ AlreadyInProgress(p)
  BY Processes, <1>5 DEF AlreadyInProgress, Throw, Quit, Step, BudgetTypeOK, PlacePart, Fence
<1>6. CASE p \in Executions /\ Reread(p)
  BY Processes, <1>6 DEF Reread, Step, BudgetTypeOK, PlacePart, Fence
<1>7. CASE p \in Executions /\ Admit(p)
  BY Processes, <1>7 DEF Admit, Step, BudgetTypeOK, PlacePart, Fence
<1>8. CASE p \in Executions /\ LostFence(p)
  BY Processes, <1>8 DEF LostFence, Throw, Quit, Step, BudgetTypeOK, PlacePart, Fence
<1>9. CASE p \in Executions /\ Reserve(p)
  BY Processes, <1>9 DEF Reserve, Step, BudgetTypeOK, PlacePart, Fence
<1>10. CASE p \in Executions /\ RefuseCall(p)
  BY Processes, <1>10 DEF RefuseCall, Throw, Quit, Step, BudgetTypeOK, PlacePart, Fence
<1>11. CASE p \in Executions /\ WriteReceipt(p)
  BY Processes, <1>11 DEF WriteReceipt, Step, BudgetTypeOK, PlacePart, Fence
<1>12. CASE p \in Executions /\ VerifyAdmission(p)
  BY Processes, <1>12 DEF VerifyAdmission, Step, BudgetTypeOK, PlacePart, Fence
<1>13. CASE p \in Executions /\ Begin(p)
  BY Processes, <1>13 DEF Begin, Step, BudgetTypeOK, PlacePart, Fence
<1>14. CASE p \in Executions /\ StartCall(p)
  BY Processes, <1>14 DEF StartCall, Step, BudgetTypeOK, PlacePart, Fence
<1>15. CASE p \in Executions /\ NotStartable(p)
  BY Processes, <1>15 DEF NotStartable, Throw, Quit, Step, BudgetTypeOK, PlacePart, Fence
<1>16. CASE p \in Executions /\ ReceiptStarted(p)
  BY Processes, <1>16 DEF ReceiptStarted, Step, BudgetTypeOK, PlacePart, Fence
<1>17. CASE p \in Executions /\ CheckStart(p)
  BY Processes, <1>17 DEF CheckStart, Step, BudgetTypeOK, PlacePart, Fence
<1>18. CASE p \in Executions /\ CallReturns(p)
  BY Processes, <1>18 DEF CallReturns, Step, BudgetTypeOK, PlacePart, Fence
<1>19. CASE p \in Executions /\ Settle(p)
  BY Processes, <1>19 DEF Settle, Step, BudgetTypeOK, PlacePart, Fence
<1>20. CASE p \in Executions /\ SettleRefused(p)
  BY Processes, <1>20 DEF SettleRefused, Throw, Quit, Step, BudgetTypeOK, PlacePart, Fence
<1>21. CASE p \in Executions /\ Count(p)
  BY Processes, <1>21 DEF Count, Step, BudgetTypeOK, PlacePart, Fence
<1>22. CASE p \in Executions /\ CountedBefore(p)
  BY Processes, <1>22 DEF CountedBefore, Quit, Step, BudgetTypeOK, PlacePart, Fence
<1>23. CASE p \in Executions /\ Report(p)
  BY Processes, <1>23 DEF Report, Step, BudgetTypeOK, PlacePart, Fence
<1>24. CASE p \in Executions /\ Close(p)
  BY Processes, <1>24 DEF Close, Return, Quit, Step, BudgetTypeOK, PlacePart, Fence
<1>25. CASE MarkReleasing(p)
  BY Processes, <1>25 DEF MarkReleasing, Step, BudgetTypeOK, PlacePart, Fence
<1>26. CASE Uncount(p)
  BY Processes, <1>26 DEF Uncount, Step, BudgetTypeOK, PlacePart, Fence
<1>27. CASE UncountRefused(p)
  BY Processes, <1>27 DEF UncountRefused, Return, Quit, Step, BudgetTypeOK, PlacePart, Fence
<1>28. CASE MarkReleased(p)
  BY Processes, <1>28 DEF MarkReleased, Return, Quit, Step, BudgetTypeOK, PlacePart, Fence
<1>29. CASE MarkAbandoned(p)
  BY Processes, <1>29 DEF MarkAbandoned, Step, BudgetTypeOK, PlacePart, Fence
<1>30. CASE DropStarted(p)
  BY Processes, <1>30 DEF DropStarted, Return, Quit, Step, BudgetTypeOK, PlacePart, Fence
<1>31. CASE p = Sweep /\ SweepJudge
  BY Processes, <1>31 DEF SweepJudge, Quit, Step, BudgetTypeOK, PlacePart, Fence
<1>32. CASE p = Sweep /\ \E c \in Calls : SweepRead(c)
  BY Processes, <1>32 DEF SweepRead, Step, BudgetTypeOK, PlacePart, Fence
<1>33. CASE p \in Executions /\ StartedBefore(p)
  BY Processes, <1>33 DEF StartedBefore, Step, BudgetTypeOK, PlacePart, Fence
<1>34. CASE p \in Executions /\ JoinSettlement(p)
  BY Processes, <1>34 DEF JoinSettlement, Step, BudgetTypeOK, PlacePart, Fence
<1>35. CASE p \in Executions /\ SettledBefore(p)
  BY Processes, <1>35 DEF SettledBefore, Quit, Step, BudgetTypeOK, PlacePart, Fence
<1> QED
  BY <1>1, <1>2, <1>3, <1>4, <1>5, <1>6, <1>7, <1>8, <1>9, <1>10, <1>11, <1>12, <1>13, <1>14,
     <1>15, <1>16, <1>17, <1>18, <1>19, <1>20, <1>21, <1>22, <1>23, <1>24, <1>25, <1>26, <1>27,
     <1>28, <1>29, <1>30, <1>31, <1>32, <1>33, <1>34, <1>35
  DEF StepOf, CallStep, Undo

LEMMA PlaceOfMover ==
  ASSUME NEW p \in Procs, StepOf(p), BudgetTypeOK, PlacePart, DocPart
  PROVE  PlaceOf(p)'
<1> USE DEF Looking, Undoing, Own
<1>a. PlaceOf(p) /\ (p \in Executions => p # Sweep)
  BY Processes DEF PlacePart
<1> DEFINE r == receipt[target[p]]
           s == reservation[target[p]]
<1>b. /\ r.status = "none" <=> r.attempt = 0
      /\ s.status # "none" => s.attempt # 0
      /\ KnowsReceipt(p) => r.attempt # 0
      /\ s.status \in {"none", "reserved", "started"}
  BY DEF BudgetTypeOK, DocPart, ActiveCall, Reservations
<1>c. prior[p].attempt \in Nat
  BY DEF BudgetTypeOK, Receipts, Attempts
<1> HIDE DEF r, s
<1>1. CASE p \in Executions /\ \E c \in Calls : BeginReserve(p, c)
  BY <1>a, <1>1 DEF BeginReserve, Step, BudgetTypeOK, PlaceOf
<1>2. CASE p \in Executions /\ ReadPrior(p)
  BY <1>a, <1>b, <1>2 DEF ReadPrior, Step, BudgetTypeOK, PlaceOf, r, s, NoReservation
<1>3. CASE p \in Executions /\ ReadPriorAgain(p)
  BY <1>a, <1>b, <1>3 DEF ReadPriorAgain, Step, BudgetTypeOK, PlaceOf, KnowsReceipt, r
<1>4. CASE p \in Executions /\ ReadActiveCall(p)
  BY <1>a, <1>b, <1>4 DEF ReadActiveCall, Step, BudgetTypeOK, PlaceOf, r, s, NoReservation
<1>5. CASE p \in Executions /\ AlreadyInProgress(p)
  BY <1>5, QuitRests, RestedPlace DEF AlreadyInProgress, Throw
<1>6. CASE p \in Executions /\ Reread(p)
  BY <1>a, <1>b, <1>6 DEF Reread, Step, BudgetTypeOK, PlaceOf, KnowsReceipt, r
<1>7. CASE p \in Executions /\ Admit(p)
  BY <1>a, <1>7 DEF Admit, Step, BudgetTypeOK, PlaceOf
<1>8. CASE p \in Executions /\ LostFence(p)
  BY <1>8, QuitRests, RestedPlace DEF LostFence, Throw
<1>9. CASE p \in Executions /\ Reserve(p)
  BY <1>a, <1>c, <1>9 DEF Reserve, Step, BudgetTypeOK, PlaceOf
<1>10. CASE p \in Executions /\ RefuseCall(p)
  BY <1>10, QuitRests, RestedPlace DEF RefuseCall, Throw
<1>11. CASE p \in Executions /\ WriteReceipt(p)
  BY <1>a, <1>11 DEF WriteReceipt, Step, BudgetTypeOK, PlaceOf
<1>12. CASE p \in Executions /\ VerifyAdmission(p)
  BY <1>a, <1>12 DEF VerifyAdmission, Step, BudgetTypeOK, PlaceOf
<1>13. CASE p \in Executions /\ Begin(p)
  BY <1>a, <1>13 DEF Begin, Step, BudgetTypeOK, PlaceOf
<1>14. CASE p \in Executions /\ StartCall(p)
  BY <1>a, <1>14 DEF StartCall, Step, BudgetTypeOK, PlaceOf
<1>15. CASE p \in Executions /\ NotStartable(p)
  BY <1>15, QuitRests, RestedPlace DEF NotStartable, Throw
<1>16. CASE p \in Executions /\ ReceiptStarted(p)
  BY <1>a, <1>16 DEF ReceiptStarted, Step, BudgetTypeOK, PlaceOf
<1>17. CASE p \in Executions /\ CheckStart(p)
  BY <1>a, <1>17 DEF CheckStart, Step, BudgetTypeOK, PlaceOf
<1>18. CASE p \in Executions /\ CallReturns(p)
  BY <1>a, <1>18 DEF CallReturns, Step, BudgetTypeOK, PlaceOf
<1>19. CASE p \in Executions /\ Settle(p)
  BY <1>a, <1>19 DEF Settle, Step, BudgetTypeOK, PlaceOf
<1>20. CASE p \in Executions /\ SettleRefused(p)
  BY <1>20, QuitRests, RestedPlace DEF SettleRefused, Throw
<1>21. CASE p \in Executions /\ Count(p)
  BY <1>a, <1>21 DEF Count, Step, BudgetTypeOK, PlaceOf
<1>22. CASE p \in Executions /\ CountedBefore(p)
  BY <1>a, <1>22, QuitRests, RestedPlace DEF CountedBefore, Step, PlaceOf, BudgetTypeOK
<1>23. CASE p \in Executions /\ Report(p)
  BY <1>a, <1>23 DEF Report, Step, BudgetTypeOK, PlaceOf
<1>24. CASE p \in Executions /\ Close(p)
  BY <1>a, <1>24, ReturnGoesBack, RestedPlace DEF Close, PlaceOf, BudgetTypeOK, Returned
<1>25. CASE MarkReleasing(p)
  BY <1>a, <1>25 DEF MarkReleasing, Step, BudgetTypeOK, PlaceOf
<1>26. CASE Uncount(p)
  BY <1>a, <1>26 DEF Uncount, Step, BudgetTypeOK, PlaceOf
<1>27. CASE UncountRefused(p)
  BY <1>a, <1>27, ReturnGoesBack, RestedPlace
  DEF UncountRefused, Step, PlaceOf, BudgetTypeOK, Returned
<1>28. CASE MarkReleased(p)
  BY <1>a, <1>28, ReturnGoesBack, RestedPlace DEF MarkReleased, PlaceOf, BudgetTypeOK, Returned
<1>29. CASE MarkAbandoned(p)
  BY <1>a, <1>29 DEF MarkAbandoned, Step, BudgetTypeOK, PlaceOf
<1>30. CASE DropStarted(p)
  BY <1>a, <1>30, ReturnGoesBack, RestedPlace DEF DropStarted, PlaceOf, BudgetTypeOK, Returned
<1>31. CASE p = Sweep /\ SweepJudge
  BY <1>a, <1>31, QuitRests, RestedPlace DEF SweepJudge, Step, PlaceOf, BudgetTypeOK, StaleForm
<1>32. CASE p = Sweep /\ \E c \in Calls : SweepRead(c)
  BY <1>a, <1>32 DEF SweepRead, Step, BudgetTypeOK, PlaceOf, DocPart, ActiveCall
<1>33. CASE p \in Executions /\ StartedBefore(p)
  BY <1>a, <1>33 DEF StartedBefore, Step, BudgetTypeOK, PlaceOf
<1>34. CASE p \in Executions /\ JoinSettlement(p)
  BY <1>a, <1>34 DEF JoinSettlement, Step, BudgetTypeOK, PlaceOf
<1>35. CASE p \in Executions /\ SettledBefore(p)
  BY <1>35, QuitRests, RestedPlace DEF SettledBefore
<1> QED
  BY <1>1, <1>2, <1>3, <1>4, <1>5, <1>6, <1>7, <1>8, <1>9, <1>10, <1>11, <1>12, <1>13, <1>14,
     <1>15, <1>16, <1>17, <1>18, <1>19, <1>20, <1>21, <1>22, <1>23, <1>24, <1>25, <1>26, <1>27,
     <1>28, <1>29, <1>30, <1>31, <1>32, <1>33, <1>34, <1>35
  DEF StepOf, CallStep, Undo

LEMMA PlaceKept ==
  ASSUME NEW p \in Procs, StepOf(p), BudgetTypeOK, PlacePart, DocPart
  PROVE  PlacePart'
<1>1. ASSUME NEW q \in Procs PROVE PlaceOf(q)'
  <2>1. CASE q = p
    BY <2>1, PlaceOfMover
  <2>2. CASE q # p
    BY <2>2, OthersStay DEF PlacePart, PlaceOf, Same
  <2> QED
    BY <2>1, <2>2
<1>2. ASSUME NEW e \in Executions, stage'[e] # "idle" PROVE target'[e] \in tried'[e]
  <2>1. CASE e = p
    BY <1>2, <2>1, TriedGrows
  <2>2. CASE e # p
    BY <1>2, <2>2, OthersStay, TriedGrows, Processes DEF PlacePart, Same
  <2> QED
    BY <2>1, <2>2
<1>3. ASSUME NEW e \in Executions, e > current' PROVE stage'[e] = "idle" /\ tried'[e] = {}
  <2>1. current' = current /\ e # p
    BY <1>3, DocumentsMove, TriedGrows
  <2> QED
    BY <1>3, <2>1, OthersStay, TriedGrows, Processes DEF PlacePart, Same
<1> QED
  BY <1>1, <1>2, <1>3 DEF PlacePart

(* Type correctness. *)

Stages ==
    {"idle", "prior", "again", "active", "reread", "admit", "reserve", "receipt", "verify", "begin",
     "start", "started", "check", "calling", "settle", "count", "report", "close", "judge",
     "release", "uncount", "released", "abandon", "drop"}
Backs == {"idle", "again", "reread"}

LocalTyped ==
    /\ stage \in [Procs -> Stages] /\ target \in [Procs -> Calls]
    /\ held \in [Procs -> Reservations] /\ prior \in [Procs -> Receipts]
    /\ consumed \in [Procs -> BOOLEAN] /\ back \in [Procs -> Backs]
    /\ tried \in [Executions -> SUBSET Calls]

DocumentsTyped ==
    /\ current \in Executions
    /\ reservation \in [Calls -> Reservations]
    /\ \A c \in Calls : reservation[c].status = "none" => reservation[c] = NoReservation
    /\ toolCalls \in Int /\ toolCalls <= MaxToolCalls /\ usage \in Nat
    /\ receipt \in [Calls -> Receipts]
    /\ telemetry \subseteq Calls \X Attempts /\ called \subseteq Calls \X Attempts

LEMMA Typed == BudgetTypeOK <=> LocalTyped /\ DocumentsTyped
BY DEF BudgetTypeOK, LocalTyped, DocumentsTyped, Stages, Backs

LEMMA BlankTyped ==
  /\ NoReservation \in Reservations /\ NoReceipt \in Receipts
  /\ \A n \in Attempts : [NoReservation EXCEPT !.attempt = n] \in Reservations
BY BudgetAssumption DEF NoReservation, NoReceipt, Reservations, Receipts, Attempts, Procs

LEMMA QuitTyped ==
  ASSUME NEW p \in Procs, LocalTyped, Quit(p), AnyCall \in Calls
  PROVE  LocalTyped'
BY BlankTyped DEF LocalTyped, Quit, Step, Stages, Backs

LEMMA ReturnTyped ==
  ASSUME NEW p \in Procs, LocalTyped, Return(p), AnyCall \in Calls
  PROVE  LocalTyped'
BY QuitTyped DEF LocalTyped, Return, Step, Stages, Backs

\* The reservation an execution writes.
Planned(p) == [status |-> "reserved", attempt |-> prior[p].attempt + 1, owner |-> p,
               charge |-> IF consumed[p] THEN 0 ELSE 1]

LEMMA ReservedTyped ==
  ASSUME NEW p \in Executions, stage[p] = "reserve", BudgetTypeOK, NumberPart
  PROVE  Planned(p) \in Reservations /\ prior[p].attempt + 1 <= p
<1>1. p \in Procs /\ p \in Nat /\ p <= MaxExecutions /\ MaxExecutions \in Nat
  BY Processes DEF Executions
<1>2. prior[p].attempt \in Nat /\ prior[p].attempt < p
  BY <1>1 DEF BudgetTypeOK, NumberPart, Receipts, Attempts
<1>3. prior[p].attempt + 1 \in Attempts /\ prior[p].attempt + 1 <= p
  BY <1>1, <1>2 DEF Attempts
<1> QED
  BY <1>1, <1>3 DEF Planned, Reservations

LEMMA StartedTyped ==
  ASSUME NEW r \in Reservations
  PROVE  [r EXCEPT !.status = "started"] \in Reservations
BY DEF Reservations

LEMMA LocalKept ==
  ASSUME NEW p \in Procs, StepOf(p), LocalTyped, DocumentsTyped, BudgetTypeOK, NumberPart
  PROVE  LocalTyped'
<1> USE DEF Stages, Backs
<1>a. AnyCall \in Calls
  BY DEF AnyCall, LocalTyped
<1>b. /\ target[p] \in Calls /\ receipt[target[p]] \in Receipts
      /\ reservation[target[p]] \in Reservations
      /\ receipt[target[p]].attempt \in Attempts
      /\ reservation[target[p]].status \in {"none", "reserved", "started"}
  BY DEF LocalTyped, DocumentsTyped, Receipts, Reservations
<1>1. CASE p \in Executions /\ \E c \in Calls : BeginReserve(p, c)
  BY BlankTyped, <1>1 DEF BeginReserve, Step, LocalTyped, DocumentsTyped
<1>2. CASE p \in Executions /\ ReadPrior(p)
  BY <1>b, BlankTyped, <1>2 DEF ReadPrior, Step, LocalTyped
<1>3. CASE p \in Executions /\ ReadPriorAgain(p)
  BY BlankTyped, <1>3 DEF ReadPriorAgain, Step, LocalTyped, DocumentsTyped
<1>4. CASE p \in Executions /\ ReadActiveCall(p)
  BY <1>b, BlankTyped, <1>4 DEF ReadActiveCall, Step, LocalTyped
<1>5. CASE p \in Executions /\ AlreadyInProgress(p)
  BY <1>a, <1>5, QuitTyped DEF AlreadyInProgress, Throw
<1>6. CASE p \in Executions /\ Reread(p)
  BY BlankTyped, <1>6 DEF Reread, Step, LocalTyped, DocumentsTyped
<1>7. CASE p \in Executions /\ Admit(p)
  BY BlankTyped, <1>7 DEF Admit, Step, LocalTyped, DocumentsTyped
<1>8. CASE p \in Executions /\ LostFence(p)
  BY <1>a, <1>8, QuitTyped DEF LostFence, Throw
<1>9. CASE p \in Executions /\ Reserve(p)
  BY <1>9, ReservedTyped DEF Reserve, Step, LocalTyped, Planned
<1>10. CASE p \in Executions /\ RefuseCall(p)
  BY <1>a, <1>10, QuitTyped DEF RefuseCall, Throw
<1>11. CASE p \in Executions /\ WriteReceipt(p)
  BY BlankTyped, <1>11 DEF WriteReceipt, Step, LocalTyped, DocumentsTyped
<1>12. CASE p \in Executions /\ VerifyAdmission(p)
  BY BlankTyped, <1>12 DEF VerifyAdmission, Step, LocalTyped, DocumentsTyped
<1>13. CASE p \in Executions /\ Begin(p)
  BY BlankTyped, <1>13 DEF Begin, Step, LocalTyped, DocumentsTyped
<1>14. CASE p \in Executions /\ StartCall(p)
  BY <1>14, StartedTyped DEF StartCall, Step, LocalTyped
<1>15. CASE p \in Executions /\ NotStartable(p)
  BY <1>a, <1>15, QuitTyped DEF NotStartable, Throw
<1>16. CASE p \in Executions /\ ReceiptStarted(p)
  BY BlankTyped, <1>16 DEF ReceiptStarted, Step, LocalTyped, DocumentsTyped
<1>17. CASE p \in Executions /\ CheckStart(p)
  BY BlankTyped, <1>17 DEF CheckStart, Step, LocalTyped, DocumentsTyped
<1>18. CASE p \in Executions /\ CallReturns(p)
  BY BlankTyped, <1>18 DEF CallReturns, Step, LocalTyped, DocumentsTyped
<1>19. CASE p \in Executions /\ Settle(p)
  BY BlankTyped, <1>19 DEF Settle, Step, LocalTyped, DocumentsTyped
<1>20. CASE p \in Executions /\ SettleRefused(p)
  BY <1>a, <1>20, QuitTyped DEF SettleRefused, Throw
<1>21. CASE p \in Executions /\ Count(p)
  BY BlankTyped, <1>21 DEF Count, Step, LocalTyped, DocumentsTyped
<1>22. CASE p \in Executions /\ CountedBefore(p)
  BY <1>a, <1>22, QuitTyped DEF CountedBefore, Step, LocalTyped
<1>23. CASE p \in Executions /\ Report(p)
  BY BlankTyped, <1>23 DEF Report, Step, LocalTyped, DocumentsTyped
<1>24. CASE p \in Executions /\ Close(p)
  BY <1>a, <1>24, ReturnTyped DEF Close, Step, LocalTyped
<1>25. CASE MarkReleasing(p)
  BY BlankTyped, <1>25 DEF MarkReleasing, Step, LocalTyped, DocumentsTyped
<1>26. CASE Uncount(p)
  BY BlankTyped, <1>26 DEF Uncount, Step, LocalTyped, DocumentsTyped
<1>27. CASE UncountRefused(p)
  BY <1>a, <1>27, ReturnTyped DEF UncountRefused, Step, LocalTyped
<1>28. CASE MarkReleased(p)
  BY <1>a, <1>28, ReturnTyped DEF MarkReleased, Step, LocalTyped
<1>29. CASE MarkAbandoned(p)
  BY BlankTyped, <1>29 DEF MarkAbandoned, Step, LocalTyped, DocumentsTyped
<1>30. CASE DropStarted(p)
  BY <1>a, <1>30, ReturnTyped DEF DropStarted, Step, LocalTyped
<1>31. CASE p = Sweep /\ SweepJudge
  BY <1>a, <1>31, QuitTyped DEF SweepJudge, StaleForm, Step, LocalTyped
<1>32. CASE p = Sweep /\ \E c \in Calls : SweepRead(c)
  BY <1>b, <1>32 DEF SweepRead, Step, LocalTyped, DocumentsTyped
<1>33. CASE p \in Executions /\ StartedBefore(p)
  BY BlankTyped, <1>33 DEF StartedBefore, Step, LocalTyped, DocumentsTyped
<1>34. CASE p \in Executions /\ JoinSettlement(p)
  BY BlankTyped, <1>34 DEF JoinSettlement, Step, LocalTyped, DocumentsTyped
<1>35. CASE p \in Executions /\ SettledBefore(p)
  BY <1>a, <1>35, QuitTyped DEF SettledBefore
<1> QED
  BY <1>1, <1>2, <1>3, <1>4, <1>5, <1>6, <1>7, <1>8, <1>9, <1>10, <1>11, <1>12, <1>13, <1>14,
     <1>15, <1>16, <1>17, <1>18, <1>19, <1>20, <1>21, <1>22, <1>23, <1>24, <1>25, <1>26, <1>27,
     <1>28, <1>29, <1>30, <1>31, <1>32, <1>33, <1>34, <1>35
  DEF StepOf, CallStep, Undo

LEMMA ReceiptsTyped ==
  ASSUME NEW p \in Procs, BudgetTypeOK,
         NEW status \in {"reserved", "started", "settling", "completed", "releasing", "released",
                         "abandoned"},
         SetReceipt(p, status) \/ PutReceipt(p, status)
  PROVE  receipt' \in [Calls -> Receipts]
<1>1. /\ target[p] \in Calls /\ receipt[target[p]] \in Receipts /\ held[p].attempt \in Attempts
      /\ receipt[target[p]].attempt \in Attempts /\ held[p].owner \in Procs
  BY DEF BudgetTypeOK, Receipts, Reservations
<1>2. /\ [receipt[target[p]] EXCEPT !.status = status] \in Receipts
      /\ [status |-> status, attempt |-> held[p].attempt, owner |-> held[p].owner] \in Receipts
  BY <1>1 DEF Receipts
<1> QED
  BY <1>1, <1>2 DEF SetReceipt, PutReceipt, BudgetTypeOK

LEMMA DocumentsKept ==
  ASSUME NEW p \in Procs, StepOf(p), DocumentsTyped, BudgetTypeOK, NumberPart
  PROVE  DocumentsTyped'
<1>a. /\ target[p] \in Calls /\ held[p].attempt \in Attempts /\ held[p].charge \in {0, 1}
      /\ reservation[target[p]] \in Reservations /\ MaxToolCalls \in Nat
      /\ NoReservation.status = "none" /\ NoReservation \in Reservations
  BY BlankTyped, BudgetAssumption DEF BudgetTypeOK, Reservations, NoReservation
<1>1. CASE p \in Executions /\ \E c \in Calls : BeginReserve(p, c)
  BY <1>a, <1>1 DEF BeginReserve, Step, DocumentsTyped, stateDoc
<1>2. CASE p \in Executions /\ ReadPrior(p)
  BY <1>a, <1>2 DEF ReadPrior, Step, DocumentsTyped, stateDoc
<1>3. CASE p \in Executions /\ ReadPriorAgain(p)
  BY <1>a, <1>3 DEF ReadPriorAgain, Step, DocumentsTyped, stateDoc
<1>4. CASE p \in Executions /\ ReadActiveCall(p)
  BY <1>a, <1>4 DEF ReadActiveCall, Step, DocumentsTyped, stateDoc
<1>5. CASE p \in Executions /\ AlreadyInProgress(p)
  BY <1>a, <1>5 DEF AlreadyInProgress, Throw, Quit, Step, DocumentsTyped, stateDoc
<1>6. CASE p \in Executions /\ Reread(p)
  BY <1>a, <1>6 DEF Reread, Step, DocumentsTyped, stateDoc
<1>7. CASE p \in Executions /\ Admit(p)
  BY <1>a, <1>7 DEF Admit, Step, DocumentsTyped, stateDoc
<1>8. CASE p \in Executions /\ LostFence(p)
  BY <1>a, <1>8 DEF LostFence, Throw, Quit, Step, DocumentsTyped, stateDoc
<1>9. CASE p \in Executions /\ Reserve(p)
  BY <1>9, ReservedTyped, <1>a DEF Reserve, DocumentsTyped, Planned, Admissible
<1>10. CASE p \in Executions /\ RefuseCall(p)
  BY <1>a, <1>10 DEF RefuseCall, Throw, Quit, Step, DocumentsTyped, stateDoc
<1>11. CASE p \in Executions /\ WriteReceipt(p)
  BY <1>11, <1>a, ReceiptsTyped DEF WriteReceipt, DocumentsTyped, stateDoc
<1>12. CASE p \in Executions /\ VerifyAdmission(p)
  BY <1>a, <1>12 DEF VerifyAdmission, Step, DocumentsTyped, stateDoc
<1>13. CASE p \in Executions /\ Begin(p)
  BY <1>a, <1>13 DEF Begin, Step, DocumentsTyped, stateDoc
<1>14. CASE p \in Executions /\ StartCall(p)
  BY <1>14, StartedTyped, <1>a DEF StartCall, Startable, DocumentsTyped, Mine
<1>15. CASE p \in Executions /\ NotStartable(p)
  BY <1>a, <1>15 DEF NotStartable, Throw, Quit, Step, DocumentsTyped, stateDoc
<1>16. CASE p \in Executions /\ ReceiptStarted(p)
  BY <1>16, <1>a, ReceiptsTyped DEF ReceiptStarted, DocumentsTyped, stateDoc
<1>17. CASE p \in Executions /\ CheckStart(p)
  BY <1>a, <1>17 DEF CheckStart, Step, DocumentsTyped, stateDoc
<1>18. CASE p \in Executions /\ CallReturns(p)
  BY <1>a, <1>18 DEF CallReturns, Step, DocumentsTyped, stateDoc
<1>19. CASE p \in Executions /\ Settle(p)
  BY <1>19, <1>a, ReceiptsTyped DEF Settle, DocumentsTyped, stateDoc
<1>20. CASE p \in Executions /\ SettleRefused(p)
  BY <1>a, <1>20 DEF SettleRefused, Throw, Quit, Step, DocumentsTyped, stateDoc
<1>21. CASE p \in Executions /\ Count(p)
  BY <1>a, <1>21 DEF Count, Step, DocumentsTyped, stateDoc
<1>22. CASE p \in Executions /\ CountedBefore(p)
  BY <1>a, <1>22 DEF CountedBefore, Quit, Step, DocumentsTyped, stateDoc
<1>23. CASE p \in Executions /\ Report(p)
  BY <1>a, <1>23 DEF Report, Contribution, Step, DocumentsTyped, stateDoc
<1>24. CASE p \in Executions /\ Close(p)
  BY <1>24, <1>a, ReceiptsTyped DEF Close, DocumentsTyped, stateDoc
<1>25. CASE MarkReleasing(p)
  BY <1>25, <1>a, ReceiptsTyped DEF MarkReleasing, DocumentsTyped, stateDoc
<1>26. CASE Uncount(p)
  BY <1>a, <1>26 DEF Uncount, Step, DocumentsTyped, stateDoc
<1>27. CASE UncountRefused(p)
  BY <1>a, <1>27 DEF UncountRefused, Return, Quit, Step, DocumentsTyped, stateDoc
<1>28. CASE MarkReleased(p)
  BY <1>28, <1>a, ReceiptsTyped DEF MarkReleased, DocumentsTyped, stateDoc
<1>29. CASE MarkAbandoned(p)
  BY <1>29, <1>a, ReceiptsTyped DEF MarkAbandoned, DocumentsTyped, stateDoc
<1>30. CASE DropStarted(p)
  BY <1>a, <1>30 DEF DropStarted, Return, Quit, Step, DocumentsTyped, stateDoc
<1>31. CASE p = Sweep /\ SweepJudge
  BY <1>a, <1>31 DEF SweepJudge, Quit, Step, DocumentsTyped, stateDoc
<1>32. CASE p = Sweep /\ \E c \in Calls : SweepRead(c)
  BY <1>a, <1>32 DEF SweepRead, Step, DocumentsTyped, stateDoc
<1>33. CASE p \in Executions /\ StartedBefore(p)
  BY <1>a, <1>33 DEF StartedBefore, Step, DocumentsTyped, stateDoc
<1>34. CASE p \in Executions /\ JoinSettlement(p)
  BY <1>a, <1>34 DEF JoinSettlement, Step, DocumentsTyped, stateDoc
<1>35. CASE p \in Executions /\ SettledBefore(p)
  BY <1>a, <1>35 DEF SettledBefore, Contribution, Quit, Step, DocumentsTyped, stateDoc
<1> QED
  BY <1>1, <1>2, <1>3, <1>4, <1>5, <1>6, <1>7, <1>8, <1>9, <1>10, <1>11, <1>12, <1>13, <1>14,
     <1>15, <1>16, <1>17, <1>18, <1>19, <1>20, <1>21, <1>22, <1>23, <1>24, <1>25, <1>26, <1>27,
     <1>28, <1>29, <1>30, <1>31, <1>32, <1>33, <1>34, <1>35
  DEF StepOf, CallStep, Undo

LEMMA TypeKept ==
  ASSUME NEW p \in Procs, StepOf(p), BudgetTypeOK, NumberPart
  PROVE  BudgetTypeOK'
<1>1. LocalTyped' /\ DocumentsTyped' => BudgetTypeOK'
  BY DEF BudgetTypeOK, LocalTyped, DocumentsTyped, Stages, Backs
<1> QED
  BY <1>1, Typed, LocalKept, DocumentsKept

(* The documents and what is known of them. *)

LEMMA ActiveMoves ==
  ASSUME NEW p \in Procs, StepOf(p), BudgetTypeOK
  PROVE  \A c \in Calls :
            \/ reservation'[c] = reservation[c] \/ reservation'[c] = NoReservation
            \/ /\ c = target[p] /\ p \in Executions /\ StartCall(p) /\ ActiveCall(c)
               /\ reservation[c].status = "reserved" /\ reservation[c].attempt = held[p].attempt
               /\ reservation'[c] = [reservation[c] EXCEPT !.status = "started"]
            \/ /\ c = target[p] /\ p \in Executions /\ Reserve(p) /\ ~ActiveCall(c)
               /\ reservation'[c] = Planned(p)
<1>a. target[p] \in Calls
  BY DEF BudgetTypeOK
<1>1. CASE p \in Executions /\ \E c \in Calls : BeginReserve(p, c)
  BY <1>a, <1>1 DEF BeginReserve, BudgetTypeOK, stateDoc
<1>2. CASE p \in Executions /\ ReadPrior(p)
  BY <1>a, <1>2 DEF ReadPrior, BudgetTypeOK, stateDoc
<1>3. CASE p \in Executions /\ ReadPriorAgain(p)
  BY <1>a, <1>3 DEF ReadPriorAgain, BudgetTypeOK, stateDoc
<1>4. CASE p \in Executions /\ ReadActiveCall(p)
  BY <1>a, <1>4 DEF ReadActiveCall, BudgetTypeOK, stateDoc
<1>5. CASE p \in Executions /\ AlreadyInProgress(p)
  BY <1>a, <1>5 DEF AlreadyInProgress, Throw, Quit, BudgetTypeOK, stateDoc
<1>6. CASE p \in Executions /\ Reread(p)
  BY <1>a, <1>6 DEF Reread, BudgetTypeOK, stateDoc
<1>7. CASE p \in Executions /\ Admit(p)
  BY <1>a, <1>7 DEF Admit, BudgetTypeOK, stateDoc
<1>8. CASE p \in Executions /\ LostFence(p)
  BY <1>a, <1>8 DEF LostFence, Throw, Quit, BudgetTypeOK, stateDoc
<1>9. CASE p \in Executions /\ Reserve(p)
  BY <1>9, <1>a DEF Reserve, BudgetTypeOK, Planned, Admissible, Step
<1>10. CASE p \in Executions /\ RefuseCall(p)
  BY <1>a, <1>10 DEF RefuseCall, Throw, Quit, BudgetTypeOK, stateDoc
<1>11. CASE p \in Executions /\ WriteReceipt(p)
  BY <1>a, <1>11 DEF WriteReceipt, BudgetTypeOK, stateDoc
<1>12. CASE p \in Executions /\ VerifyAdmission(p)
  BY <1>a, <1>12 DEF VerifyAdmission, BudgetTypeOK, stateDoc
<1>13. CASE p \in Executions /\ Begin(p)
  BY <1>a, <1>13 DEF Begin, BudgetTypeOK, stateDoc
<1>14. CASE p \in Executions /\ StartCall(p)
  BY <1>14, <1>a DEF StartCall, Startable, BudgetTypeOK, Mine, ActiveCall, Step
<1>15. CASE p \in Executions /\ NotStartable(p)
  BY <1>a, <1>15 DEF NotStartable, Throw, Quit, BudgetTypeOK, stateDoc
<1>16. CASE p \in Executions /\ ReceiptStarted(p)
  BY <1>a, <1>16 DEF ReceiptStarted, BudgetTypeOK, stateDoc
<1>17. CASE p \in Executions /\ CheckStart(p)
  BY <1>a, <1>17 DEF CheckStart, BudgetTypeOK, stateDoc
<1>18. CASE p \in Executions /\ CallReturns(p)
  BY <1>a, <1>18 DEF CallReturns, BudgetTypeOK, stateDoc
<1>19. CASE p \in Executions /\ Settle(p)
  BY <1>a, <1>19 DEF Settle, BudgetTypeOK, stateDoc
<1>20. CASE p \in Executions /\ SettleRefused(p)
  BY <1>a, <1>20 DEF SettleRefused, Throw, Quit, BudgetTypeOK, stateDoc
<1>21. CASE p \in Executions /\ Count(p)
  BY <1>a, <1>21 DEF Count, BudgetTypeOK, stateDoc
<1>22. CASE p \in Executions /\ CountedBefore(p)
  BY <1>a, <1>22 DEF CountedBefore, Quit, BudgetTypeOK, stateDoc
<1>23. CASE p \in Executions /\ Report(p)
  BY <1>a, <1>23 DEF Report, BudgetTypeOK, stateDoc
<1>24. CASE p \in Executions /\ Close(p)
  BY <1>a, <1>24 DEF Close, Return, Quit, BudgetTypeOK, stateDoc
<1>25. CASE MarkReleasing(p)
  BY <1>a, <1>25 DEF MarkReleasing, BudgetTypeOK, stateDoc
<1>26. CASE Uncount(p)
  BY <1>a, <1>26 DEF Uncount, BudgetTypeOK, stateDoc
<1>27. CASE UncountRefused(p)
  BY <1>a, <1>27 DEF UncountRefused, Return, Quit, BudgetTypeOK, stateDoc
<1>28. CASE MarkReleased(p)
  BY <1>a, <1>28 DEF MarkReleased, Return, Quit, BudgetTypeOK, stateDoc
<1>29. CASE MarkAbandoned(p)
  BY <1>a, <1>29 DEF MarkAbandoned, BudgetTypeOK, stateDoc
<1>30. CASE DropStarted(p)
  BY <1>a, <1>30 DEF DropStarted, Return, Quit, BudgetTypeOK, stateDoc
<1>31. CASE p = Sweep /\ SweepJudge
  BY <1>a, <1>31 DEF SweepJudge, Quit, BudgetTypeOK, stateDoc
<1>32. CASE p = Sweep /\ \E c \in Calls : SweepRead(c)
  BY <1>a, <1>32 DEF SweepRead, BudgetTypeOK, stateDoc
<1>33. CASE p \in Executions /\ StartedBefore(p)
  BY <1>a, <1>33 DEF StartedBefore, BudgetTypeOK, stateDoc
<1>34. CASE p \in Executions /\ JoinSettlement(p)
  BY <1>a, <1>34 DEF JoinSettlement, BudgetTypeOK, stateDoc
<1>35. CASE p \in Executions /\ SettledBefore(p)
  BY <1>a, <1>35 DEF SettledBefore, Quit, BudgetTypeOK, stateDoc
<1> QED
  BY <1>1, <1>2, <1>3, <1>4, <1>5, <1>6, <1>7, <1>8, <1>9, <1>10, <1>11, <1>12, <1>13, <1>14,
     <1>15, <1>16, <1>17, <1>18, <1>19, <1>20, <1>21, <1>22, <1>23, <1>24, <1>25, <1>26, <1>27,
     <1>28, <1>29, <1>30, <1>31, <1>32, <1>33, <1>34, <1>35
  DEF StepOf, CallStep, Undo

LEMMA PlannedFields ==
  ASSUME NEW p
  PROVE  /\ Planned(p).status = "reserved" /\ Planned(p).attempt = prior[p].attempt + 1
         /\ Planned(p).owner = p /\ Planned(p).charge = IF consumed[p] THEN 0 ELSE 1
BY DEF Planned

LEMMA StartedFields ==
  ASSUME NEW r \in Reservations
  PROVE  LET s == [r EXCEPT !.status = "started"]
         IN  s.status = "started" /\ s.attempt = r.attempt /\ s.owner = r.owner /\ s.charge = r.charge
BY DEF Reservations

LEMMA CurrentStays ==
  ASSUME NEW p \in Procs, StepOf(p)
  PROVE  current' = current
<1>1. CASE p \in Executions /\ \E c \in Calls : BeginReserve(p, c)
  BY <1>1 DEF BeginReserve, Throw
<1>2. CASE p \in Executions /\ ReadPrior(p)
  BY <1>2 DEF ReadPrior, Throw
<1>3. CASE p \in Executions /\ ReadPriorAgain(p)
  BY <1>3 DEF ReadPriorAgain, Throw
<1>4. CASE p \in Executions /\ ReadActiveCall(p)
  BY <1>4 DEF ReadActiveCall, Throw
<1>5. CASE p \in Executions /\ AlreadyInProgress(p)
  BY <1>5 DEF AlreadyInProgress, Throw, Quit
<1>6. CASE p \in Executions /\ Reread(p)
  BY <1>6 DEF Reread, Throw
<1>7. CASE p \in Executions /\ Admit(p)
  BY <1>7 DEF Admit, Throw
<1>8. CASE p \in Executions /\ LostFence(p)
  BY <1>8 DEF LostFence, Throw, Quit
<1>9. CASE p \in Executions /\ Reserve(p)
  BY <1>9 DEF Reserve, Throw
<1>10. CASE p \in Executions /\ RefuseCall(p)
  BY <1>10 DEF RefuseCall, Throw, Quit
<1>11. CASE p \in Executions /\ WriteReceipt(p)
  BY <1>11 DEF WriteReceipt, Throw
<1>12. CASE p \in Executions /\ VerifyAdmission(p)
  BY <1>12 DEF VerifyAdmission, Throw
<1>13. CASE p \in Executions /\ Begin(p)
  BY <1>13 DEF Begin, Throw
<1>14. CASE p \in Executions /\ StartCall(p)
  BY <1>14 DEF StartCall, Throw
<1>15. CASE p \in Executions /\ NotStartable(p)
  BY <1>15 DEF NotStartable, Throw, Quit
<1>16. CASE p \in Executions /\ ReceiptStarted(p)
  BY <1>16 DEF ReceiptStarted, Throw
<1>17. CASE p \in Executions /\ CheckStart(p)
  BY <1>17 DEF CheckStart, Throw
<1>18. CASE p \in Executions /\ CallReturns(p)
  BY <1>18 DEF CallReturns, Throw
<1>19. CASE p \in Executions /\ Settle(p)
  BY <1>19 DEF Settle, Throw
<1>20. CASE p \in Executions /\ SettleRefused(p)
  BY <1>20 DEF SettleRefused, Throw, Quit
<1>21. CASE p \in Executions /\ Count(p)
  BY <1>21 DEF Count, Throw
<1>22. CASE p \in Executions /\ CountedBefore(p)
  BY <1>22 DEF CountedBefore, Quit, Throw
<1>23. CASE p \in Executions /\ Report(p)
  BY <1>23 DEF Report, Throw
<1>24. CASE p \in Executions /\ Close(p)
  BY <1>24 DEF Close, Return, Quit, Throw
<1>25. CASE MarkReleasing(p)
  BY <1>25 DEF MarkReleasing, Throw
<1>26. CASE Uncount(p)
  BY <1>26 DEF Uncount, Throw
<1>27. CASE UncountRefused(p)
  BY <1>27 DEF UncountRefused, Return, Quit, Throw
<1>28. CASE MarkReleased(p)
  BY <1>28 DEF MarkReleased, Return, Quit, Throw
<1>29. CASE MarkAbandoned(p)
  BY <1>29 DEF MarkAbandoned, Throw
<1>30. CASE DropStarted(p)
  BY <1>30 DEF DropStarted, Return, Quit, Throw
<1>31. CASE p = Sweep /\ SweepJudge
  BY <1>31 DEF SweepJudge, Quit, Throw
<1>32. CASE p = Sweep /\ \E c \in Calls : SweepRead(c)
  BY <1>32 DEF SweepRead, Throw
<1>33. CASE p \in Executions /\ StartedBefore(p)
  BY <1>33 DEF StartedBefore, Throw
<1>34. CASE p \in Executions /\ JoinSettlement(p)
  BY <1>34 DEF JoinSettlement, Throw
<1>35. CASE p \in Executions /\ SettledBefore(p)
  BY <1>35 DEF SettledBefore, Quit
<1> QED
  BY <1>1, <1>2, <1>3, <1>4, <1>5, <1>6, <1>7, <1>8, <1>9, <1>10, <1>11, <1>12, <1>13, <1>14,
     <1>15, <1>16, <1>17, <1>18, <1>19, <1>20, <1>21, <1>22, <1>23, <1>24, <1>25, <1>26, <1>27,
     <1>28, <1>29, <1>30, <1>31, <1>32, <1>33, <1>34, <1>35
  DEF StepOf, CallStep, Undo

LEMMA ReceiptsStay ==
  ASSUME NEW p \in Procs, StepOf(p), BudgetTypeOK, PlacePart, DocPart
  PROVE  \A c \in Calls : receipt[c].attempt # 0 => receipt'[c].attempt # 0
BY DocumentsMove

LEMMA KnowsKept ==
  ASSUME NEW p \in Procs, StepOf(p), BudgetTypeOK, PlacePart, DocPart, KnowsReceipt(p)'
  PROVE  receipt'[target'[p]].attempt # 0
<1>a. /\ target[p] \in Calls /\ PlaceOf(p)
      /\ receipt[target[p]].attempt # 0 => receipt'[target[p]].attempt # 0
      /\ receipt[target[p]].status # "none" => receipt[target[p]].attempt # 0
      /\ KnowsReceipt(p) => receipt[target[p]].attempt # 0
  BY ReceiptsStay DEF BudgetTypeOK, PlacePart, DocPart
<1>1. CASE p \in Executions /\ \E c \in Calls : BeginReserve(p, c)
  BY <1>1, <1>a DEF BeginReserve, KnowsReceipt, Step, BudgetTypeOK, PlaceOf
<1>2. CASE p \in Executions /\ ReadPrior(p)
  BY <1>a, <1>2 DEF ReadPrior, Step, KnowsReceipt, BudgetTypeOK
<1>3. CASE p \in Executions /\ ReadPriorAgain(p)
  BY <1>a, <1>3 DEF ReadPriorAgain, Step, KnowsReceipt, BudgetTypeOK
<1>4. CASE p \in Executions /\ ReadActiveCall(p)
  BY <1>a, <1>4 DEF ReadActiveCall, Step, KnowsReceipt, BudgetTypeOK
<1>5. CASE p \in Executions /\ AlreadyInProgress(p)
  BY <1>5, <1>a, QuitRests DEF AlreadyInProgress, Throw, KnowsReceipt, Rested, Step, BudgetTypeOK
<1>6. CASE p \in Executions /\ Reread(p)
  BY <1>a, <1>6 DEF Reread, Step, KnowsReceipt, BudgetTypeOK
<1>7. CASE p \in Executions /\ Admit(p)
  BY <1>a, <1>7 DEF Admit, Step, KnowsReceipt, BudgetTypeOK
<1>8. CASE p \in Executions /\ LostFence(p)
  BY <1>8, <1>a, QuitRests DEF LostFence, Throw, KnowsReceipt, Rested, Step, BudgetTypeOK
<1>9. CASE p \in Executions /\ Reserve(p)
  BY <1>a, <1>9 DEF Reserve, Step, KnowsReceipt, BudgetTypeOK
<1>10. CASE p \in Executions /\ RefuseCall(p)
  BY <1>10, <1>a, QuitRests DEF RefuseCall, Throw, KnowsReceipt, Rested, Step, BudgetTypeOK
<1>11. CASE p \in Executions /\ WriteReceipt(p)
  BY <1>11, <1>a DEF WriteReceipt, Step, KnowsReceipt, BudgetTypeOK, PutReceipt, PlaceOf, Looking
<1>12. CASE p \in Executions /\ VerifyAdmission(p)
  BY <1>a, <1>12 DEF VerifyAdmission, Step, KnowsReceipt, BudgetTypeOK
<1>13. CASE p \in Executions /\ Begin(p)
  BY <1>a, <1>13 DEF Begin, Step, KnowsReceipt, BudgetTypeOK
<1>14. CASE p \in Executions /\ StartCall(p)
  BY <1>a, <1>14 DEF StartCall, Step, KnowsReceipt, BudgetTypeOK
<1>15. CASE p \in Executions /\ NotStartable(p)
  BY <1>15, <1>a, QuitRests DEF NotStartable, Throw, KnowsReceipt, Rested, Step, BudgetTypeOK
<1>16. CASE p \in Executions /\ ReceiptStarted(p)
  BY <1>a, <1>16 DEF ReceiptStarted, Step, KnowsReceipt, BudgetTypeOK
<1>17. CASE p \in Executions /\ CheckStart(p)
  BY <1>a, <1>17 DEF CheckStart, Step, KnowsReceipt, BudgetTypeOK
<1>18. CASE p \in Executions /\ CallReturns(p)
  BY <1>a, <1>18 DEF CallReturns, Step, KnowsReceipt, BudgetTypeOK
<1>19. CASE p \in Executions /\ Settle(p)
  BY <1>a, <1>19 DEF Settle, Step, KnowsReceipt, BudgetTypeOK
<1>20. CASE p \in Executions /\ SettleRefused(p)
  BY <1>20, <1>a, QuitRests DEF SettleRefused, Throw, KnowsReceipt, Rested, Step, BudgetTypeOK
<1>21. CASE p \in Executions /\ Count(p)
  BY <1>a, <1>21 DEF Count, Step, KnowsReceipt, BudgetTypeOK
<1>22. CASE p \in Executions /\ CountedBefore(p)
  BY <1>22, <1>a, QuitRests DEF CountedBefore, Throw, KnowsReceipt, Rested, Step, BudgetTypeOK
<1>23. CASE p \in Executions /\ Report(p)
  BY <1>a, <1>23 DEF Report, Step, KnowsReceipt, BudgetTypeOK
<1>24. CASE p \in Executions /\ Close(p)
  BY <1>24, <1>a, ReturnGoesBack DEF Close, KnowsReceipt, Rested, Returned, Step, BudgetTypeOK
<1>25. CASE MarkReleasing(p)
  BY <1>a, <1>25 DEF MarkReleasing, Step, KnowsReceipt, BudgetTypeOK
<1>26. CASE Uncount(p)
  BY <1>a, <1>26 DEF Uncount, Step, KnowsReceipt, BudgetTypeOK
<1>27. CASE UncountRefused(p)
  BY <1>27, <1>a, ReturnGoesBack
  DEF UncountRefused, KnowsReceipt, Rested, Returned, Step, BudgetTypeOK
<1>28. CASE MarkReleased(p)
  BY <1>28, <1>a, ReturnGoesBack
  DEF MarkReleased, KnowsReceipt, Rested, Returned, Step, BudgetTypeOK
<1>29. CASE MarkAbandoned(p)
  BY <1>a, <1>29 DEF MarkAbandoned, Step, KnowsReceipt, BudgetTypeOK
<1>30. CASE DropStarted(p)
  BY <1>30, <1>a, ReturnGoesBack
  DEF DropStarted, KnowsReceipt, Rested, Returned, Step, BudgetTypeOK
<1>31. CASE p = Sweep /\ SweepJudge
  BY <1>31, <1>a, QuitRests
  DEF SweepJudge, StaleForm, KnowsReceipt, Rested, Step, BudgetTypeOK, PlaceOf
<1>32. CASE p = Sweep /\ \E c \in Calls : SweepRead(c)
  BY <1>32, <1>a DEF SweepRead, KnowsReceipt, Step, BudgetTypeOK, PlaceOf
<1>33. CASE p \in Executions /\ StartedBefore(p)
  BY <1>a, <1>33 DEF StartedBefore, Step, KnowsReceipt, BudgetTypeOK
<1>34. CASE p \in Executions /\ JoinSettlement(p)
  BY <1>a, <1>34 DEF JoinSettlement, Step, KnowsReceipt, BudgetTypeOK
<1>35. CASE p \in Executions /\ SettledBefore(p)
  BY <1>35, <1>a, QuitRests DEF SettledBefore, KnowsReceipt, Rested, Step, BudgetTypeOK
<1> QED
  BY <1>1, <1>2, <1>3, <1>4, <1>5, <1>6, <1>7, <1>8, <1>9, <1>10, <1>11, <1>12, <1>13, <1>14,
     <1>15, <1>16, <1>17, <1>18, <1>19, <1>20, <1>21, <1>22, <1>23, <1>24, <1>25, <1>26, <1>27,
     <1>28, <1>29, <1>30, <1>31, <1>32, <1>33, <1>34, <1>35
  DEF StepOf, CallStep, Undo

LEMMA CallsMade ==
  ASSUME NEW p \in Procs, StepOf(p), BudgetTypeOK
  PROVE  \/ called' = called
         \/ /\ p \in Executions /\ (stage[p] = "check" \/ StartedBefore(p))
            /\ called' = called \cup {<<target[p], held[p].attempt>>}
            /\ reservation' = reservation /\ receipt' = receipt /\ UNCHANGED <<usage, telemetry>>
            /\ stage'[p] = "calling" /\ target'[p] = target[p] /\ held'[p] = held[p]
<1>1. CASE p \in Executions /\ \E c \in Calls : BeginReserve(p, c)
  BY BudgetTypeOK, <1>1 DEF BeginReserve, stateDoc, Step, BudgetTypeOK
<1>2. CASE p \in Executions /\ ReadPrior(p)
  BY BudgetTypeOK, <1>2 DEF ReadPrior, stateDoc, Step, BudgetTypeOK
<1>3. CASE p \in Executions /\ ReadPriorAgain(p)
  BY BudgetTypeOK, <1>3 DEF ReadPriorAgain, stateDoc, Step, BudgetTypeOK
<1>4. CASE p \in Executions /\ ReadActiveCall(p)
  BY BudgetTypeOK, <1>4 DEF ReadActiveCall, stateDoc, Step, BudgetTypeOK
<1>5. CASE p \in Executions /\ AlreadyInProgress(p)
  BY BudgetTypeOK, <1>5 DEF AlreadyInProgress, Throw, Quit, stateDoc, Step, BudgetTypeOK
<1>6. CASE p \in Executions /\ Reread(p)
  BY BudgetTypeOK, <1>6 DEF Reread, stateDoc, Step, BudgetTypeOK
<1>7. CASE p \in Executions /\ Admit(p)
  BY BudgetTypeOK, <1>7 DEF Admit, stateDoc, Step, BudgetTypeOK
<1>8. CASE p \in Executions /\ LostFence(p)
  BY BudgetTypeOK, <1>8 DEF LostFence, Throw, Quit, stateDoc, Step, BudgetTypeOK
<1>9. CASE p \in Executions /\ Reserve(p)
  BY BudgetTypeOK, <1>9 DEF Reserve, stateDoc, Step, BudgetTypeOK
<1>10. CASE p \in Executions /\ RefuseCall(p)
  BY BudgetTypeOK, <1>10 DEF RefuseCall, Throw, Quit, stateDoc, Step, BudgetTypeOK
<1>11. CASE p \in Executions /\ WriteReceipt(p)
  BY BudgetTypeOK, <1>11 DEF WriteReceipt, stateDoc, Step, BudgetTypeOK
<1>12. CASE p \in Executions /\ VerifyAdmission(p)
  BY BudgetTypeOK, <1>12 DEF VerifyAdmission, stateDoc, Step, BudgetTypeOK
<1>13. CASE p \in Executions /\ Begin(p)
  BY BudgetTypeOK, <1>13 DEF Begin, stateDoc, Step, BudgetTypeOK
<1>14. CASE p \in Executions /\ StartCall(p)
  BY BudgetTypeOK, <1>14 DEF StartCall, stateDoc, Step, BudgetTypeOK
<1>15. CASE p \in Executions /\ NotStartable(p)
  BY BudgetTypeOK, <1>15 DEF NotStartable, Throw, Quit, stateDoc, Step, BudgetTypeOK
<1>16. CASE p \in Executions /\ ReceiptStarted(p)
  BY BudgetTypeOK, <1>16 DEF ReceiptStarted, stateDoc, Step, BudgetTypeOK
<1>17. CASE p \in Executions /\ CheckStart(p)
  BY BudgetTypeOK, <1>17 DEF CheckStart, stateDoc, Step, BudgetTypeOK
<1>18. CASE p \in Executions /\ CallReturns(p)
  BY BudgetTypeOK, <1>18 DEF CallReturns, stateDoc, Step, BudgetTypeOK
<1>19. CASE p \in Executions /\ Settle(p)
  BY BudgetTypeOK, <1>19 DEF Settle, stateDoc, Step, BudgetTypeOK
<1>20. CASE p \in Executions /\ SettleRefused(p)
  BY BudgetTypeOK, <1>20 DEF SettleRefused, Throw, Quit, stateDoc, Step, BudgetTypeOK
<1>21. CASE p \in Executions /\ Count(p)
  BY BudgetTypeOK, <1>21 DEF Count, stateDoc, Step, BudgetTypeOK
<1>22. CASE p \in Executions /\ CountedBefore(p)
  BY BudgetTypeOK, <1>22 DEF CountedBefore, Quit, stateDoc, Step, BudgetTypeOK
<1>23. CASE p \in Executions /\ Report(p)
  BY BudgetTypeOK, <1>23 DEF Report, stateDoc, Step, BudgetTypeOK
<1>24. CASE p \in Executions /\ Close(p)
  BY BudgetTypeOK, <1>24 DEF Close, Return, Quit, stateDoc, Step, BudgetTypeOK
<1>25. CASE MarkReleasing(p)
  BY BudgetTypeOK, <1>25 DEF MarkReleasing, stateDoc, Step, BudgetTypeOK
<1>26. CASE Uncount(p)
  BY BudgetTypeOK, <1>26 DEF Uncount, stateDoc, Step, BudgetTypeOK
<1>27. CASE UncountRefused(p)
  BY BudgetTypeOK, <1>27 DEF UncountRefused, Return, Quit, stateDoc, Step, BudgetTypeOK
<1>28. CASE MarkReleased(p)
  BY BudgetTypeOK, <1>28 DEF MarkReleased, Return, Quit, stateDoc, Step, BudgetTypeOK
<1>29. CASE MarkAbandoned(p)
  BY BudgetTypeOK, <1>29 DEF MarkAbandoned, stateDoc, Step, BudgetTypeOK
<1>30. CASE DropStarted(p)
  BY BudgetTypeOK, <1>30 DEF DropStarted, Return, Quit, stateDoc, Step, BudgetTypeOK
<1>31. CASE p = Sweep /\ SweepJudge
  BY BudgetTypeOK, <1>31 DEF SweepJudge, Quit, stateDoc, Step, BudgetTypeOK
<1>32. CASE p = Sweep /\ \E c \in Calls : SweepRead(c)
  BY BudgetTypeOK, <1>32 DEF SweepRead, stateDoc, Step, BudgetTypeOK
<1>33. CASE p \in Executions /\ StartedBefore(p)
  BY BudgetTypeOK, <1>33 DEF StartedBefore, stateDoc, Step, BudgetTypeOK
<1>34. CASE p \in Executions /\ JoinSettlement(p)
  BY BudgetTypeOK, <1>34 DEF JoinSettlement, stateDoc, Step, BudgetTypeOK
<1>35. CASE p \in Executions /\ SettledBefore(p)
  BY BudgetTypeOK, <1>35 DEF SettledBefore, Quit, stateDoc, Step, BudgetTypeOK
<1> QED
  BY <1>1, <1>2, <1>3, <1>4, <1>5, <1>6, <1>7, <1>8, <1>9, <1>10, <1>11, <1>12, <1>13, <1>14,
     <1>15, <1>16, <1>17, <1>18, <1>19, <1>20, <1>21, <1>22, <1>23, <1>24, <1>25, <1>26, <1>27,
     <1>28, <1>29, <1>30, <1>31, <1>32, <1>33, <1>34, <1>35
  DEF StepOf, CallStep, Undo

LEMMA DocKept ==
  ASSUME NEW p \in Procs, StepOf(p), BudgetTypeOK, PlacePart, DocPart
  PROVE  DocPart'
<1>1. current' = current
  BY DocumentsMove
<1>2. ASSUME NEW c \in Calls PROVE (receipt[c].status = "none" <=> receipt[c].attempt = 0)'
  BY DocumentsMove DEF DocPart
<1>3. ASSUME NEW c \in Calls, ActiveCall(c)'
      PROVE  reservation'[c].attempt # 0 /\ reservation'[c].owner \in 1..current
  <2>1. CASE reservation'[c] = reservation[c]
    BY <1>3, <2>1 DEF DocPart, ActiveCall
  <2>2. CASE reservation'[c] = [reservation[c] EXCEPT !.status = "started"] /\ ActiveCall(c)
    <3>1. reservation[c] \in Reservations
      BY DEF BudgetTypeOK
    <3> QED
      BY <2>2, <3>1, StartedFields DEF DocPart
  <2>3. CASE reservation'[c] = Planned(p) /\ p \in Executions
    <3>1. prior[p].attempt \in Nat /\ p \in Nat \ {0} /\ ~(p > current) /\ current \in Nat
      <4>1. p \in 1..MaxExecutions /\ current \in 1..MaxExecutions /\ ~(p > current)
        BY <2>3, TriedGrows DEF BudgetTypeOK, Executions
      <4>2. prior[p].attempt \in Nat
        BY DEF BudgetTypeOK, Receipts, Attempts
      <4> QED
        BY <4>1, <4>2
    <3> QED
      BY <2>3, <3>1, PlannedFields
  <2> QED
    BY <1>3, <2>1, <2>2, <2>3, ActiveMoves, Blank DEF ActiveCall
<1>4. ASSUME NEW q \in Procs, KnowsReceipt(q)' PROVE receipt'[target'[q]].attempt # 0
  <2>1. CASE q = p
    BY <1>4, <2>1, KnowsKept
  <2>2. CASE q # p
    <3>1. KnowsReceipt(q) /\ target'[q] = target[q] /\ target[q] \in Calls
      BY <1>4, <2>2, OthersStay DEF KnowsReceipt, Same, BudgetTypeOK
    <3> QED
      BY <3>1, ReceiptsStay DEF DocPart
  <2> QED
    BY <2>1, <2>2
<1>5. ASSUME NEW x \in called' PROVE receipt'[x[1]].attempt # 0
  <2>1. CASE x \in called
    BY <2>1, ReceiptsStay DEF DocPart, BudgetTypeOK
  <2>2. CASE (stage[p] = "check" \/ StartedBefore(p)) /\ x = <<target[p], held[p].attempt>>
    <3>1. KnowsReceipt(p) /\ x[1] = target[p] /\ target[p] \in Calls
      BY <2>2 DEF KnowsReceipt, BudgetTypeOK, StartedBefore
    <3> QED
      BY <3>1, ReceiptsStay DEF DocPart
  <2> QED
    BY <1>5, <2>1, <2>2, CallsMade
<1> QED
  BY <1>1, <1>2, <1>3, <1>4, <1>5 DEF DocPart

(* The first execution makes the first attempt.  While it holds the lease no other process has a
   part in its calls. *)

LEMMA FirstAttempt ==
  ASSUME NEW p \in Procs, StepOf(p), p = 1, BudgetTypeOK, PlacePart, FirstPart, AtMostTwo
  PROVE  /\ stage'[p] = "reserve" => prior'[p].attempt = 0
         /\ stage'[p] \in Own => held'[p].attempt = 1
<1> USE DEF Own
<1>a. /\ p # Sweep /\ PlaceOf(p)
      /\ stage[p] = "reserve" => prior[p].attempt = 0
      /\ stage[p] \in Own => held[p].attempt = 1
      /\ Fence(p) => prior[p].attempt = 0
      /\ held[p] \in Reservations /\ prior[p] \in Receipts
  BY Processes DEF FirstPart, FirstAlone, Fence, PlacePart, BudgetTypeOK
<1>1. CASE p \in Executions /\ \E c \in Calls : BeginReserve(p, c)
  BY <1>a, <1>1 DEF BeginReserve, Step, BudgetTypeOK
<1>2. CASE p \in Executions /\ ReadPrior(p)
  BY <1>a, <1>2 DEF ReadPrior, Step, BudgetTypeOK
<1>3. CASE p \in Executions /\ ReadPriorAgain(p)
  BY <1>a, <1>3 DEF ReadPriorAgain, Step, BudgetTypeOK
<1>4. CASE p \in Executions /\ ReadActiveCall(p)
  <2>1. reservation[target[p]].status \in {"none", "reserved", "started"}
    BY DEF BudgetTypeOK, Reservations
  <2> QED
    BY <1>4, <2>1 DEF ReadActiveCall, Step, BudgetTypeOK
<1>5. CASE p \in Executions /\ AlreadyInProgress(p)
  BY <1>5, <1>a, QuitRests DEF AlreadyInProgress, Throw, Rested
<1>6. CASE p \in Executions /\ Reread(p)
  BY <1>a, <1>6 DEF Reread, Step, BudgetTypeOK
<1>7. CASE p \in Executions /\ Admit(p)
  BY <1>a, <1>7 DEF Admit, Step, BudgetTypeOK
<1>8. CASE p \in Executions /\ LostFence(p)
  BY <1>8, <1>a, QuitRests DEF LostFence, Throw, Rested
<1>9. CASE p \in Executions /\ Reserve(p)
  BY <1>9, <1>a, PlannedFields DEF Reserve, Planned, Step, BudgetTypeOK
<1>10. CASE p \in Executions /\ RefuseCall(p)
  BY <1>10, <1>a, QuitRests DEF RefuseCall, Throw, Rested
<1>11. CASE p \in Executions /\ WriteReceipt(p)
  BY <1>a, <1>11 DEF WriteReceipt, Step, BudgetTypeOK
<1>12. CASE p \in Executions /\ VerifyAdmission(p)
  BY <1>a, <1>12 DEF VerifyAdmission, Step, BudgetTypeOK
<1>13. CASE p \in Executions /\ Begin(p)
  BY <1>a, <1>13 DEF Begin, Step, BudgetTypeOK
<1>14. CASE p \in Executions /\ StartCall(p)
  BY <1>14, <1>a, StartedFields DEF StartCall, Step, BudgetTypeOK
<1>15. CASE p \in Executions /\ NotStartable(p)
  BY <1>15, <1>a, QuitRests DEF NotStartable, Throw, Rested
<1>16. CASE p \in Executions /\ ReceiptStarted(p)
  BY <1>a, <1>16 DEF ReceiptStarted, Step, BudgetTypeOK
<1>17. CASE p \in Executions /\ CheckStart(p)
  BY <1>a, <1>17 DEF CheckStart, Step, BudgetTypeOK
<1>18. CASE p \in Executions /\ CallReturns(p)
  BY <1>a, <1>18 DEF CallReturns, Step, BudgetTypeOK
<1>19. CASE p \in Executions /\ Settle(p)
  BY <1>a, <1>19 DEF Settle, Step, BudgetTypeOK
<1>20. CASE p \in Executions /\ SettleRefused(p)
  BY <1>20, <1>a, QuitRests DEF SettleRefused, Throw, Rested
<1>21. CASE p \in Executions /\ Count(p)
  BY <1>a, <1>21 DEF Count, Step, BudgetTypeOK
<1>22. CASE p \in Executions /\ CountedBefore(p)
  BY <1>22, <1>a, QuitRests DEF CountedBefore, Rested, Step, BudgetTypeOK
<1>23. CASE p \in Executions /\ Report(p)
  BY <1>a, <1>23 DEF Report, Step, BudgetTypeOK
<1>24. CASE p \in Executions /\ Close(p)
  BY <1>24, <1>a, ReturnGoesBack DEF Close, Rested, Returned, Step, BudgetTypeOK, PlaceOf
<1>25. CASE MarkReleasing(p)
  BY <1>a, <1>25 DEF MarkReleasing, Step, BudgetTypeOK
<1>26. CASE Uncount(p)
  BY <1>a, <1>26 DEF Uncount, Step, BudgetTypeOK
<1>27. CASE UncountRefused(p)
  BY <1>27, <1>a, ReturnGoesBack DEF UncountRefused, Rested, Returned, Step, BudgetTypeOK, PlaceOf
<1>28. CASE MarkReleased(p)
  BY <1>28, <1>a, ReturnGoesBack DEF MarkReleased, Rested, Returned, Step, BudgetTypeOK, PlaceOf
<1>29. CASE MarkAbandoned(p)
  BY <1>a, <1>29 DEF MarkAbandoned, Step, BudgetTypeOK
<1>30. CASE DropStarted(p)
  BY <1>30, <1>a, ReturnGoesBack DEF DropStarted, Rested, Returned, Step, BudgetTypeOK, PlaceOf
<1>31. CASE p = Sweep /\ SweepJudge
  BY <1>a, <1>31 DEF SweepJudge, Quit, Step, BudgetTypeOK
<1>32. CASE p = Sweep /\ \E c \in Calls : SweepRead(c)
  BY <1>a, <1>32 DEF SweepRead, Step, BudgetTypeOK
<1>33. CASE p \in Executions /\ StartedBefore(p)
  BY <1>a, <1>33 DEF StartedBefore, Step, BudgetTypeOK
<1>34. CASE p \in Executions /\ JoinSettlement(p)
  BY <1>a, <1>34 DEF JoinSettlement, Step, BudgetTypeOK
<1>35. CASE p \in Executions /\ SettledBefore(p)
  BY <1>35, <1>a, QuitRests DEF SettledBefore, Rested
<1> QED
  BY <1>1, <1>2, <1>3, <1>4, <1>5, <1>6, <1>7, <1>8, <1>9, <1>10, <1>11, <1>12, <1>13, <1>14,
     <1>15, <1>16, <1>17, <1>18, <1>19, <1>20, <1>21, <1>22, <1>23, <1>24, <1>25, <1>26, <1>27,
     <1>28, <1>29, <1>30, <1>31, <1>32, <1>33, <1>34, <1>35
  DEF StepOf, CallStep, Undo

LEMMA FirstStaysAlone ==
  ASSUME NEW p \in Procs, StepOf(p), p = 1, current = 1, BudgetTypeOK, PlacePart, DocPart, FirstPart,
         AtMostTwo
  PROVE  FirstAlone'
<1>a. /\ p # Sweep /\ PlaceOf(p) /\ FirstAlone /\ Sweep \in Procs /\ 1 \in Executions
      /\ target[p] \in Calls
  BY Processes DEF FirstPart, PlacePart, BudgetTypeOK
<1>b. Same(Sweep)
  BY <1>a, OthersStay
<1>c. /\ stage[p] # "idle" => target[p] \in tried[p]
      /\ \A c \in tried[p] : c \in tried'[p]
  BY <1>a, TriedGrows DEF PlacePart
<1>d. /\ \A c \in Calls : receipt[c].status = "none" <=> receipt[c].attempt = 0
      /\ \A c \in Calls : c # target[p] => receipt'[c] = receipt[c]
  BY DocumentsMove DEF DocPart
<1>1. CASE p \in Executions /\ \E c \in Calls : BeginReserve(p, c)
  BY <1>a, <1>b, <1>c, <1>d, Blank, <1>1
  DEF BeginReserve, Step, BudgetTypeOK, FirstAlone, Same, Looking
<1>2. CASE p \in Executions /\ ReadPrior(p)
  BY <1>a, <1>b, <1>c, <1>d, Blank, <1>2
  DEF ReadPrior, Step, BudgetTypeOK, FirstAlone, Same, Looking
<1>3. CASE p \in Executions /\ ReadPriorAgain(p)
  BY <1>a, <1>b, <1>c, <1>d, Blank, <1>3
  DEF ReadPriorAgain, Step, BudgetTypeOK, FirstAlone, Same, Looking
<1>4. CASE p \in Executions /\ ReadActiveCall(p)
  BY <1>a, <1>b, <1>c, <1>d, Blank, <1>4
  DEF ReadActiveCall, Step, BudgetTypeOK, FirstAlone, Same, Looking
<1>5. CASE p \in Executions /\ AlreadyInProgress(p)
  BY <1>a, <1>b, <1>c, <1>d, Blank, <1>5
  DEF AlreadyInProgress, Throw, Quit, Step, BudgetTypeOK, FirstAlone, Same, Looking
<1>6. CASE p \in Executions /\ Reread(p)
  BY <1>a, <1>b, <1>c, <1>d, Blank, <1>6 DEF Reread, Step, BudgetTypeOK, FirstAlone, Same, Looking
<1>7. CASE p \in Executions /\ Admit(p)
  BY <1>a, <1>b, <1>c, <1>d, Blank, <1>7 DEF Admit, Step, BudgetTypeOK, FirstAlone, Same, Looking
<1>8. CASE p \in Executions /\ LostFence(p)
  BY <1>a, <1>b, <1>c, <1>d, Blank, <1>8
  DEF LostFence, Throw, Quit, Step, BudgetTypeOK, FirstAlone, Same, Looking
<1>9. CASE p \in Executions /\ Reserve(p)
  BY <1>a, <1>b, <1>c, <1>d, Blank, <1>9
  DEF Reserve, Step, BudgetTypeOK, FirstAlone, Same, Looking
<1>10. CASE p \in Executions /\ RefuseCall(p)
  BY <1>a, <1>b, <1>c, <1>d, Blank, <1>10
  DEF RefuseCall, Throw, Quit, Step, BudgetTypeOK, FirstAlone, Same, Looking
<1>11. CASE p \in Executions /\ WriteReceipt(p)
  BY <1>a, <1>b, <1>c, <1>d, Blank, <1>11
  DEF WriteReceipt, Step, BudgetTypeOK, FirstAlone, Same, Looking
<1>12. CASE p \in Executions /\ VerifyAdmission(p)
  BY <1>a, <1>b, <1>c, <1>d, Blank, <1>12
  DEF VerifyAdmission, Step, BudgetTypeOK, FirstAlone, Same, Looking
<1>13. CASE p \in Executions /\ Begin(p)
  BY <1>a, <1>b, <1>c, <1>d, Blank, <1>13 DEF Begin, Step, BudgetTypeOK, FirstAlone, Same, Looking
<1>14. CASE p \in Executions /\ StartCall(p)
  BY <1>a, <1>b, <1>c, <1>d, Blank, <1>14
  DEF StartCall, Step, BudgetTypeOK, FirstAlone, Same, Looking
<1>15. CASE p \in Executions /\ NotStartable(p)
  BY <1>a, <1>b, <1>c, <1>d, Blank, <1>15
  DEF NotStartable, Throw, Quit, Step, BudgetTypeOK, FirstAlone, Same, Looking
<1>16. CASE p \in Executions /\ ReceiptStarted(p)
  BY <1>a, <1>b, <1>c, <1>d, Blank, <1>16
  DEF ReceiptStarted, Step, BudgetTypeOK, FirstAlone, Same, Looking
<1>17. CASE p \in Executions /\ CheckStart(p)
  BY <1>a, <1>b, <1>c, <1>d, Blank, <1>17
  DEF CheckStart, Step, BudgetTypeOK, FirstAlone, Same, Looking
<1>18. CASE p \in Executions /\ CallReturns(p)
  BY <1>a, <1>b, <1>c, <1>d, Blank, <1>18
  DEF CallReturns, Step, BudgetTypeOK, FirstAlone, Same, Looking
<1>19. CASE p \in Executions /\ Settle(p)
  BY <1>a, <1>b, <1>c, <1>d, Blank, <1>19
  DEF Settle, Step, BudgetTypeOK, FirstAlone, Same, Looking
<1>20. CASE p \in Executions /\ SettleRefused(p)
  BY <1>a, <1>b, <1>c, <1>d, Blank, <1>20
  DEF SettleRefused, Throw, Quit, Step, BudgetTypeOK, FirstAlone, Same, Looking
<1>21. CASE p \in Executions /\ Count(p)
  BY <1>a, <1>b, <1>c, <1>d, Blank, <1>21 DEF Count, Step, BudgetTypeOK, FirstAlone, Same, Looking
<1>22. CASE p \in Executions /\ CountedBefore(p)
  BY <1>a, <1>b, <1>c, <1>d, Blank, <1>22
  DEF CountedBefore, Quit, Step, BudgetTypeOK, FirstAlone, Same, Looking
<1>23. CASE p \in Executions /\ Report(p)
  BY <1>a, <1>b, <1>c, <1>d, Blank, <1>23
  DEF Report, Step, BudgetTypeOK, FirstAlone, Same, Looking
<1>24. CASE p \in Executions /\ Close(p)
  BY <1>a, <1>b, <1>c, <1>d, Blank, <1>24
  DEF Close, Return, Quit, Step, BudgetTypeOK, FirstAlone, Same, Looking
<1>25. CASE MarkReleasing(p)
  BY <1>a, <1>b, <1>c, <1>d, Blank, <1>25
  DEF MarkReleasing, Step, BudgetTypeOK, FirstAlone, Same, Looking
<1>26. CASE Uncount(p)
  BY <1>a, <1>b, <1>c, <1>d, Blank, <1>26
  DEF Uncount, Step, BudgetTypeOK, FirstAlone, Same, Looking
<1>27. CASE UncountRefused(p)
  BY <1>a, <1>b, <1>c, <1>d, Blank, <1>27
  DEF UncountRefused, Return, Quit, Step, BudgetTypeOK, FirstAlone, Same, Looking
<1>28. CASE MarkReleased(p)
  BY <1>a, <1>b, <1>c, <1>d, Blank, <1>28
  DEF MarkReleased, Return, Quit, Step, BudgetTypeOK, FirstAlone, Same, Looking
<1>29. CASE MarkAbandoned(p)
  BY <1>a, <1>b, <1>c, <1>d, Blank, <1>29
  DEF MarkAbandoned, Step, BudgetTypeOK, FirstAlone, Same, Looking
<1>30. CASE DropStarted(p)
  BY <1>a, <1>b, <1>c, <1>d, Blank, <1>30
  DEF DropStarted, Return, Quit, Step, BudgetTypeOK, FirstAlone, Same, Looking
<1>31. CASE p = Sweep /\ SweepJudge
  BY <1>a, <1>b, <1>c, <1>d, Blank, <1>31
  DEF SweepJudge, Quit, Step, BudgetTypeOK, FirstAlone, Same, Looking
<1>32. CASE p = Sweep /\ \E c \in Calls : SweepRead(c)
  BY <1>a, <1>b, <1>c, <1>d, Blank, <1>32
  DEF SweepRead, Step, BudgetTypeOK, FirstAlone, Same, Looking
<1>33. CASE p \in Executions /\ StartedBefore(p)
  BY <1>a, <1>b, <1>c, <1>d, Blank, <1>33
  DEF StartedBefore, Step, BudgetTypeOK, FirstAlone, Same, Looking
<1>34. CASE p \in Executions /\ JoinSettlement(p)
  BY <1>a, <1>b, <1>c, <1>d, Blank, <1>34
  DEF JoinSettlement, Step, BudgetTypeOK, FirstAlone, Same, Looking
<1>35. CASE p \in Executions /\ SettledBefore(p)
  BY <1>a, <1>b, <1>c, <1>d, Blank, <1>35
  DEF SettledBefore, Quit, Step, BudgetTypeOK, FirstAlone, Same, Looking
<1> QED
  BY <1>1, <1>2, <1>3, <1>4, <1>5, <1>6, <1>7, <1>8, <1>9, <1>10, <1>11, <1>12, <1>13, <1>14,
     <1>15, <1>16, <1>17, <1>18, <1>19, <1>20, <1>21, <1>22, <1>23, <1>24, <1>25, <1>26, <1>27,
     <1>28, <1>29, <1>30, <1>31, <1>32, <1>33, <1>34, <1>35
  DEF StepOf, CallStep, Undo

LEMMA FirstKept ==
  ASSUME NEW p \in Procs, StepOf(p), BudgetTypeOK, PlacePart, DocPart, FirstPart, AtMostTwo
  PROVE  FirstPart'
<1>1. 1 \in Procs /\ Sweep \in Procs /\ 1 # Sweep /\ 1 \in Executions
  BY Processes
<1>2. stage'[1] = "reserve" => prior'[1].attempt = 0
  BY <1>1, OthersStay, FirstAttempt DEF Same, FirstPart
<1>3. stage'[1] \in Own => held'[1].attempt = 1
  BY <1>1, OthersStay, FirstAttempt DEF Same, FirstPart
<1>4. ASSUME current = 1 PROVE FirstAlone'
  <2>1. CASE p = 1
    BY <1>4, <2>1, FirstStaysAlone
  <2>2. CASE p = Sweep
    <3>1. FirstAlone /\ Same(1) /\ p \notin Executions
      BY <1>1, <1>4, <2>2, OthersStay, Processes DEF FirstPart
    <3>2. CASE SweepJudge
      <4>1. Quit(Sweep) /\ UNCHANGED receipt
        BY <1>4, <3>1, <3>2 DEF SweepJudge, FirstAlone, Fence
      <4> QED
        BY <1>1, <3>1, <4>1 DEF FirstAlone, Same, Quit, Step, BudgetTypeOK
    <3>3. ASSUME NEW c \in Calls, SweepRead(c) PROVE FirstAlone'
      <4>1. reservation[c].owner \in 1..1
        BY <1>4, <3>3 DEF SweepRead, DocPart
      <4> QED
        BY <1>1, <3>1, <3>3, <4>1 DEF FirstAlone, Same, SweepRead, Step, BudgetTypeOK
    <3>4. ~Undo(p)
      BY <2>2, <3>1 DEF FirstAlone, Undo, MarkReleasing, Uncount, UncountRefused, MarkReleased,
                        MarkAbandoned, DropStarted
    <3> QED
      BY <3>1, <3>2, <3>3, <3>4 DEF StepOf
  <2>3. p = 1 \/ p = Sweep
    <3>1. p \in Executions /\ p # 1 => p > current
      BY <1>4, Processes
    <3> QED
      BY <3>1, TriedGrows, Processes
  <2> QED
    BY <2>1, <2>2, <2>3
<1>5. current' = current
  BY DocumentsMove
<1> QED
  BY <1>2, <1>3, <1>4, <1>5 DEF FirstPart

(* The second attempt is the second execution's, and begins with its reservation. *)

LEMMA StillBefore ==
  ASSUME NEW p \in Executions, p \in Procs, StepOf(p), BudgetTypeOK, PlacePart, BeforeReserve(p)'
  PROVE  (BeforeReserve(p) /\ target'[p] = target[p]) \/ target'[p] \notin tried[p]
<1>a. PlaceOf(p)
  BY DEF PlacePart
<1>1. CASE p \in Executions /\ \E c \in Calls : BeginReserve(p, c)
  BY <1>a, <1>1 DEF BeginReserve, BeforeReserve, Looking, Step, BudgetTypeOK
<1>2. CASE p \in Executions /\ ReadPrior(p)
  BY <1>a, <1>2 DEF ReadPrior, BeforeReserve, Looking, Step, BudgetTypeOK
<1>3. CASE p \in Executions /\ ReadPriorAgain(p)
  BY <1>a, <1>3 DEF ReadPriorAgain, BeforeReserve, Looking, Step, BudgetTypeOK
<1>4. CASE p \in Executions /\ ReadActiveCall(p)
  BY <1>a, <1>4 DEF ReadActiveCall, BeforeReserve, Looking, Step, BudgetTypeOK
<1>5. CASE p \in Executions /\ AlreadyInProgress(p)
  BY <1>5, <1>a, QuitRests DEF AlreadyInProgress, Throw, Rested, BeforeReserve, Looking
<1>6. CASE p \in Executions /\ Reread(p)
  BY <1>a, <1>6 DEF Reread, BeforeReserve, Looking, Step, BudgetTypeOK
<1>7. CASE p \in Executions /\ Admit(p)
  BY <1>a, <1>7 DEF Admit, BeforeReserve, Looking, Step, BudgetTypeOK
<1>8. CASE p \in Executions /\ LostFence(p)
  BY <1>8, <1>a, QuitRests DEF LostFence, Throw, Rested, BeforeReserve, Looking
<1>9. CASE p \in Executions /\ Reserve(p)
  BY <1>a, <1>9 DEF Reserve, BeforeReserve, Looking, Step, BudgetTypeOK
<1>10. CASE p \in Executions /\ RefuseCall(p)
  BY <1>10, <1>a, QuitRests DEF RefuseCall, Throw, Rested, BeforeReserve, Looking
<1>11. CASE p \in Executions /\ WriteReceipt(p)
  BY <1>11, <1>a DEF WriteReceipt, Step, BudgetTypeOK, BeforeReserve, Looking, PlaceOf, Own
<1>12. CASE p \in Executions /\ VerifyAdmission(p)
  BY <1>12, <1>a DEF VerifyAdmission, Step, BudgetTypeOK, BeforeReserve, Looking, PlaceOf, Own
<1>13. CASE p \in Executions /\ Begin(p)
  BY <1>13, <1>a DEF Begin, Step, BudgetTypeOK, BeforeReserve, Looking, PlaceOf, Own
<1>14. CASE p \in Executions /\ StartCall(p)
  BY <1>14, <1>a DEF StartCall, Step, BudgetTypeOK, BeforeReserve, Looking, PlaceOf, Own
<1>15. CASE p \in Executions /\ NotStartable(p)
  BY <1>15, <1>a, QuitRests DEF NotStartable, Throw, Rested, BeforeReserve, Looking
<1>16. CASE p \in Executions /\ ReceiptStarted(p)
  BY <1>16, <1>a DEF ReceiptStarted, Step, BudgetTypeOK, BeforeReserve, Looking, PlaceOf, Own
<1>17. CASE p \in Executions /\ CheckStart(p)
  BY <1>17, <1>a DEF CheckStart, Step, BudgetTypeOK, BeforeReserve, Looking, PlaceOf, Own
<1>18. CASE p \in Executions /\ CallReturns(p)
  BY <1>18, <1>a DEF CallReturns, Step, BudgetTypeOK, BeforeReserve, Looking, PlaceOf, Own
<1>19. CASE p \in Executions /\ Settle(p)
  BY <1>19, <1>a DEF Settle, Step, BudgetTypeOK, BeforeReserve, Looking, PlaceOf, Own
<1>20. CASE p \in Executions /\ SettleRefused(p)
  BY <1>20, <1>a, QuitRests DEF SettleRefused, Throw, Rested, BeforeReserve, Looking
<1>21. CASE p \in Executions /\ Count(p)
  BY <1>a, <1>21 DEF Count, BeforeReserve, Looking, Step, BudgetTypeOK
<1>22. CASE p \in Executions /\ CountedBefore(p)
  BY <1>22, <1>a, QuitRests DEF CountedBefore, Rested, Step, BudgetTypeOK, BeforeReserve, Looking
<1>23. CASE p \in Executions /\ Report(p)
  BY <1>a, <1>23 DEF Report, BeforeReserve, Looking, Step, BudgetTypeOK
<1>24. CASE p \in Executions /\ Close(p)
  BY <1>24, <1>a, ReturnGoesBack
  DEF Close, Rested, Returned, Step, BudgetTypeOK, BeforeReserve, Looking
<1>25. CASE MarkReleasing(p)
  BY <1>a, <1>25 DEF MarkReleasing, BeforeReserve, Looking, Step, BudgetTypeOK
<1>26. CASE Uncount(p)
  BY <1>a, <1>26 DEF Uncount, BeforeReserve, Looking, Step, BudgetTypeOK
<1>27. CASE UncountRefused(p)
  BY <1>27, <1>a, ReturnGoesBack
  DEF UncountRefused, Rested, Returned, Step, BudgetTypeOK, BeforeReserve, Looking
<1>28. CASE MarkReleased(p)
  BY <1>28, <1>a, ReturnGoesBack
  DEF MarkReleased, Rested, Returned, Step, BudgetTypeOK, BeforeReserve, Looking
<1>29. CASE MarkAbandoned(p)
  BY <1>a, <1>29 DEF MarkAbandoned, BeforeReserve, Looking, Step, BudgetTypeOK
<1>30. CASE DropStarted(p)
  BY <1>30, <1>a, ReturnGoesBack
  DEF DropStarted, Rested, Returned, Step, BudgetTypeOK, BeforeReserve, Looking
<1>31. CASE p = Sweep /\ SweepJudge
  BY <1>31, <1>a DEF Sweep, Executions
<1>32. CASE p = Sweep /\ \E c \in Calls : SweepRead(c)
  BY <1>32, <1>a DEF Sweep, Executions
<1>33. CASE p \in Executions /\ StartedBefore(p)
  BY <1>33, <1>a DEF StartedBefore, Step, BudgetTypeOK, BeforeReserve, Looking, PlaceOf, Own
<1>34. CASE p \in Executions /\ JoinSettlement(p)
  BY <1>34, <1>a DEF JoinSettlement, Step, BudgetTypeOK, BeforeReserve, Looking, PlaceOf, Own
<1>35. CASE p \in Executions /\ SettledBefore(p)
  BY <1>35, <1>a, QuitRests DEF SettledBefore, Rested, BeforeReserve, Looking
<1> QED
  BY <1>1, <1>2, <1>3, <1>4, <1>5, <1>6, <1>7, <1>8, <1>9, <1>10, <1>11, <1>12, <1>13, <1>14,
     <1>15, <1>16, <1>17, <1>18, <1>19, <1>20, <1>21, <1>22, <1>23, <1>24, <1>25, <1>26, <1>27,
     <1>28, <1>29, <1>30, <1>31, <1>32, <1>33, <1>34, <1>35
  DEF StepOf, CallStep, Undo

LEMMA PastStays ==
  ASSUME NEW p \in Procs, StepOf(p), BudgetTypeOK, PlacePart, NEW e \in Executions, NEW c \in Calls,
         Past(e, c)
  PROVE  Past(e, c)'
<1>1. e \in Procs /\ c \in tried[e] /\ ~(BeforeReserve(e) /\ target[e] = c)
  BY Processes DEF Past
<1>2. c \in tried'[e]
  BY <1>1, TriedGrows
<1>3. CASE p = e
  <2>1. ~(BeforeReserve(e)' /\ target'[e] = c)
    BY <1>1, <1>3, StillBefore
  <2> QED
    BY <1>2, <2>1 DEF Past
<1>4. CASE p # e
  <2>1. Same(e)
    BY <1>1, <1>4, OthersStay
  <2> QED
    BY <1>1, <1>2, <2>1 DEF Past, Same, BeforeReserve
<1> QED
  BY <1>3, <1>4

LEMMA SecondStays ==
  ASSUME NEW p \in Procs, StepOf(p), BudgetTypeOK, PlacePart, NEW c \in Calls, Second(c)
  PROVE  Second(c)'
BY PastStays DEF Second

LEMMA ReservePasses ==
  ASSUME NEW p \in Procs, p \in Executions, Reserve(p), BudgetTypeOK, PlacePart
  PROVE  Past(p, target[p])' /\ ~Past(p, target[p]) /\ target'[p] = target[p]
<1>1. stage[p] = "reserve" /\ PlaceOf(p) /\ target[p] \in tried[p]
  BY DEF Reserve, PlacePart
<1>2. /\ stage'[p] = "receipt" /\ back'[p] = "idle" /\ target'[p] = target[p]
      /\ tried'[p] = tried[p]
  BY <1>1 DEF Reserve, Step, PlaceOf, BudgetTypeOK
<1> QED
  BY <1>1, <1>2 DEF Past, BeforeReserve, Looking

(* The numbers a process knows are those it knew, or has read of its call. *)
LEMMA NumbersOfMover ==
  ASSUME NEW p \in Procs, StepOf(p), BudgetTypeOK, PlacePart, NEW n \in Nat,
         held[p].attempt <= n, prior[p].attempt <= n,
         receipt[target[p]].attempt <= n, reservation[target[p]].attempt <= n
  PROVE  /\ \/ held'[p].attempt = 0 /\ prior'[p].attempt = 0
            \/ target'[p] = target[p] /\ held'[p].attempt <= n /\ prior'[p].attempt <= n
            \/ \E c \in Calls : target'[p] = c /\ held'[p] = reservation[c] /\ prior'[p].attempt = 0
            \/ p \in Executions /\ Reserve(p)
         /\ stage'[p] = "reserve" =>
               stage[p] = "admit" /\ Fence(p) /\ target'[p] = target[p] /\ prior'[p] = prior[p]
<1>a. /\ PlaceOf(p) /\ target[p] \in Calls /\ held[p] \in Reservations
      /\ stage[p] \in Stages /\ back[p] # "reserve"
  BY DEF PlacePart, BudgetTypeOK, Stages
<1>1. CASE p \in Executions /\ \E c \in Calls : BeginReserve(p, c)
  BY <1>1, <1>a DEF BeginReserve, Step, BudgetTypeOK, PlaceOf
<1>2. CASE p \in Executions /\ ReadPrior(p)
  <2>1. LET x == [NoReservation EXCEPT !.attempt = receipt[target[p]].attempt]
        IN  x.attempt = receipt[target[p]].attempt
    BY DEF NoReservation
  <2> QED
    BY <1>2, <2>1, <1>a DEF ReadPrior, Step, BudgetTypeOK
<1>3. CASE p \in Executions /\ ReadPriorAgain(p)
  BY <1>a, <1>3 DEF ReadPriorAgain, Step, BudgetTypeOK
<1>4. CASE p \in Executions /\ ReadActiveCall(p)
  <2>1. reservation[target[p]].status \in {"none", "reserved", "started"}
    BY <1>a DEF BudgetTypeOK, Reservations
  <2> QED
    BY <1>a, <1>4, <2>1 DEF ReadActiveCall, Step, BudgetTypeOK
<1>5. CASE p \in Executions /\ AlreadyInProgress(p)
  BY <1>5, <1>a, QuitRests, RestedAttempts DEF AlreadyInProgress, Throw
<1>6. CASE p \in Executions /\ Reread(p)
  BY <1>a, <1>6 DEF Reread, Step, BudgetTypeOK
<1>7. CASE p \in Executions /\ Admit(p)
  BY <1>a, <1>7 DEF Admit, Step, BudgetTypeOK
<1>8. CASE p \in Executions /\ LostFence(p)
  BY <1>8, <1>a, QuitRests, RestedAttempts DEF LostFence, Throw
<1>9. CASE p \in Executions /\ Reserve(p)
  <2>1. stage'[p] = "receipt"
    BY <1>9 DEF Reserve, Step, BudgetTypeOK
  <2> QED
    BY <1>9, <2>1
<1>10. CASE p \in Executions /\ RefuseCall(p)
  BY <1>10, <1>a, QuitRests, RestedAttempts DEF RefuseCall, Throw
<1>11. CASE p \in Executions /\ WriteReceipt(p)
  BY <1>a, <1>11 DEF WriteReceipt, Step, BudgetTypeOK
<1>12. CASE p \in Executions /\ VerifyAdmission(p)
  BY <1>a, <1>12 DEF VerifyAdmission, Step, BudgetTypeOK
<1>13. CASE p \in Executions /\ Begin(p)
  BY <1>a, <1>13 DEF Begin, Step, BudgetTypeOK
<1>14. CASE p \in Executions /\ StartCall(p)
  BY <1>14, <1>a, StartedFields DEF StartCall, Step, BudgetTypeOK
<1>15. CASE p \in Executions /\ NotStartable(p)
  BY <1>15, <1>a, QuitRests, RestedAttempts DEF NotStartable, Throw
<1>16. CASE p \in Executions /\ ReceiptStarted(p)
  BY <1>a, <1>16 DEF ReceiptStarted, Step, BudgetTypeOK
<1>17. CASE p \in Executions /\ CheckStart(p)
  BY <1>a, <1>17 DEF CheckStart, Step, BudgetTypeOK
<1>18. CASE p \in Executions /\ CallReturns(p)
  BY <1>a, <1>18 DEF CallReturns, Step, BudgetTypeOK
<1>19. CASE p \in Executions /\ Settle(p)
  BY <1>a, <1>19 DEF Settle, Step, BudgetTypeOK
<1>20. CASE p \in Executions /\ SettleRefused(p)
  BY <1>20, <1>a, QuitRests, RestedAttempts DEF SettleRefused, Throw
<1>21. CASE p \in Executions /\ Count(p)
  BY <1>a, <1>21 DEF Count, Step, BudgetTypeOK
<1>22. CASE p \in Executions /\ CountedBefore(p)
  BY <1>22, <1>a, QuitRests, RestedAttempts DEF CountedBefore, Step, BudgetTypeOK
<1>23. CASE p \in Executions /\ Report(p)
  BY <1>a, <1>23 DEF Report, Step, BudgetTypeOK
<1>24. CASE p \in Executions /\ Close(p)
  BY <1>24, <1>a, ReturnGoesBack, RestedAttempts DEF Close, Returned, Step, BudgetTypeOK
<1>25. CASE MarkReleasing(p)
  BY <1>a, <1>25 DEF MarkReleasing, Step, BudgetTypeOK
<1>26. CASE Uncount(p)
  BY <1>a, <1>26 DEF Uncount, Step, BudgetTypeOK
<1>27. CASE UncountRefused(p)
  BY <1>27, <1>a, ReturnGoesBack, RestedAttempts DEF UncountRefused, Returned, Step, BudgetTypeOK
<1>28. CASE MarkReleased(p)
  BY <1>28, <1>a, ReturnGoesBack, RestedAttempts DEF MarkReleased, Returned, Step, BudgetTypeOK
<1>29. CASE MarkAbandoned(p)
  BY <1>a, <1>29 DEF MarkAbandoned, Step, BudgetTypeOK
<1>30. CASE DropStarted(p)
  BY <1>30, <1>a, ReturnGoesBack, RestedAttempts DEF DropStarted, Returned, Step, BudgetTypeOK
<1>31. CASE p = Sweep /\ SweepJudge
  BY <1>31, <1>a, QuitRests, RestedAttempts DEF SweepJudge, StaleForm, Step, BudgetTypeOK
<1>32. CASE p = Sweep /\ \E c \in Calls : SweepRead(c)
  <2>1. PICK c \in Calls : SweepRead(c)
    BY <1>32
  <2>2. target'[p] = c /\ held'[p] = reservation[c] /\ prior'[p] = prior[p] /\ stage[p] = "idle"
    BY <1>32, <2>1 DEF SweepRead, BudgetTypeOK
  <2>3. stage'[p] = "judge" /\ prior'[p].attempt = 0
    BY <1>32, <1>a, <2>1, <2>2 DEF SweepRead, Step, BudgetTypeOK, PlaceOf
  <2> QED
    BY <2>2, <2>3
<1>33. CASE p \in Executions /\ StartedBefore(p)
  BY <1>a, <1>33 DEF StartedBefore, Step, BudgetTypeOK
<1>34. CASE p \in Executions /\ JoinSettlement(p)
  BY <1>a, <1>34 DEF JoinSettlement, Step, BudgetTypeOK
<1>35. CASE p \in Executions /\ SettledBefore(p)
  BY <1>35, <1>a, QuitRests, RestedAttempts DEF SettledBefore
<1> QED
  BY <1>1, <1>2, <1>3, <1>4, <1>5, <1>6, <1>7, <1>8, <1>9, <1>10, <1>11, <1>12, <1>13, <1>14,
     <1>15, <1>16, <1>17, <1>18, <1>19, <1>20, <1>21, <1>22, <1>23, <1>24, <1>25, <1>26, <1>27,
     <1>28, <1>29, <1>30, <1>31, <1>32, <1>33, <1>34, <1>35
  DEF StepOf, CallStep, Undo

(* Attempts at a call are numbered one execution after the other: no number is higher than that
   of the execution which has the lease. *)
LEMMA NumbersKept ==
  ASSUME NEW p \in Procs, StepOf(p), BudgetTypeOK, PlacePart, DocPart, NumberPart
  PROVE  NumberPart'
<1>1. /\ current \in Executions /\ current \in Nat \ {0} /\ current' = current
      /\ \A q \in Procs : target[q] \in Calls /\ target'[q] \in Calls
  BY CurrentStays, Processes, TypeKept DEF BudgetTypeOK
<1>2. ASSUME NEW c \in Calls
      PROVE  Latest(c) \in Nat /\ Latest(c)' \in Nat /\ Latest(c) <= Latest(c)'
  <2>1. Past(current, c) => Past(current, c)'
    BY <1>1, PastStays
  <2> QED
    BY <1>1, <2>1 DEF Latest
<1>3. ASSUME p \in Executions, Reserve(p), NEW c \in Calls, c = target[p]
      PROVE  Planned(p).attempt \in Nat /\ Planned(p).attempt <= Latest(c)'
  <2>1. Planned(p).attempt <= p /\ Planned(p).attempt \in Nat /\ p \in Nat
    BY <1>3, ReservedTyped, PlannedFields, Processes DEF Reserve, Reservations, Attempts
  <2>2. ~(p > current)
    BY <1>3, TriedGrows
  <2>3. CASE p = current
    <3>1. Past(current, c)'
      BY <1>1, <1>3, <2>3, ReservePasses DEF Past, BeforeReserve
    <3> QED
      BY <1>1, <2>1, <2>3, <3>1 DEF Latest
  <2>4. CASE p # current
    <3>1. Planned(p).attempt <= current - 1
      BY <1>1, <2>1, <2>2, <2>4
    <3> QED
      BY <1>1, <2>1, <3>1 DEF Latest
  <2> QED
    BY <2>3, <2>4
<1>4. ASSUME NEW c \in Calls
      PROVE  receipt'[c].attempt <= Latest(c)' /\ reservation'[c].attempt <= Latest(c)'
  <2>1. /\ receipt[c].attempt \in Nat /\ reservation[c].attempt \in Nat
        /\ receipt[c].attempt <= Latest(c) /\ reservation[c].attempt <= Latest(c)
        /\ held[p].attempt \in Nat /\ (c = target[p] => held[p].attempt <= Latest(c))
    BY DEF NumberPart, BudgetTypeOK, Receipts, Reservations, Attempts
  <2>2. receipt'[c].attempt <= Latest(c)'
    <3>1. receipt'[c] = receipt[c] \/ (c = target[p] /\ receipt'[c].attempt = held[p].attempt)
      BY DocumentsMove
    <3> QED
      BY <1>2, <2>1, <3>1
  <2>3. reservation'[c].attempt <= Latest(c)'
    <3>1. CASE reservation'[c] = NoReservation
      <4>1. reservation'[c].attempt = 0
        BY <3>1, Blank
      <4> QED
        BY <1>2, <4>1
    <3>2. CASE reservation'[c] = [reservation[c] EXCEPT !.status = "started"]
      <4>1. reservation'[c].attempt = reservation[c].attempt
        BY <3>2, StartedFields DEF BudgetTypeOK
      <4> QED
        BY <1>2, <2>1, <4>1
    <3>3. CASE reservation'[c] = Planned(p) /\ c = target[p] /\ p \in Executions /\ Reserve(p)
      BY <1>3, <3>3
    <3>4. CASE reservation'[c] = reservation[c]
      BY <1>2, <2>1, <3>4
    <3> QED
      BY <3>1, <3>2, <3>3, <3>4, ActiveMoves
  <2> QED
    BY <2>2, <2>3
<1>5. PICK c \in Calls : c = target[p]
  BY <1>1
<1>6. /\ held[p].attempt \in Nat /\ prior[p].attempt \in Nat
      /\ held[p].attempt <= Latest(c) /\ prior[p].attempt <= Latest(c) /\ Latest(c) \in Nat
      /\ receipt[c].attempt <= Latest(c) /\ reservation[c].attempt <= Latest(c)
  BY <1>2, <1>5 DEF NumberPart, BudgetTypeOK, Receipts, Reservations, Attempts
<1>7. PICK n \in Nat : n = Latest(c)
  BY <1>6
<1>8. /\ \/ held'[p].attempt = 0 /\ prior'[p].attempt = 0
         \/ target'[p] = target[p] /\ held'[p].attempt <= n /\ prior'[p].attempt <= n
         \/ \E d \in Calls : target'[p] = d /\ held'[p] = reservation[d] /\ prior'[p].attempt = 0
         \/ p \in Executions /\ Reserve(p)
      /\ stage'[p] = "reserve" =>
            stage[p] = "admit" /\ Fence(p) /\ target'[p] = target[p] /\ prior'[p] = prior[p]
  BY <1>5, <1>6, <1>7, NumbersOfMover
<1>9. ASSUME NEW q \in Procs
      PROVE  held'[q].attempt <= Latest(target[q])' /\ prior'[q].attempt <= Latest(target[q])'
  <2>1. PICK d \in Calls : d = target'[q]
    BY <1>1
  <2>2. Latest(target[q])' = Latest(d)'
    BY <2>1 DEF Latest, Past
  <2>3. Latest(d) \in Nat /\ Latest(d)' \in Nat /\ Latest(d) <= Latest(d)'
    BY <1>2
  <2>4. held'[q].attempt \in Nat /\ prior'[q].attempt \in Nat
    <3>1. held'[q] \in Reservations /\ prior'[q] \in Receipts
      BY TypeKept DEF BudgetTypeOK
    <3> QED
      BY <3>1 DEF Receipts, Reservations, Attempts
  <2>5. CASE q # p
    <3>1. Same(q) /\ target[q] = d
      BY <2>1, <2>5, OthersStay DEF Same
    <3>2. held[q].attempt <= Latest(d) /\ prior[q].attempt <= Latest(d)
      BY <3>1 DEF NumberPart
    <3> QED
      BY <2>2, <2>3, <2>4, <3>1, <3>2 DEF Same
  <2>6. CASE q = p
    <3>1. CASE held'[p].attempt = 0 /\ prior'[p].attempt = 0
      BY <2>2, <2>3, <2>6, <3>1
    <3>2. CASE target'[p] = target[p] /\ held'[p].attempt <= n /\ prior'[p].attempt <= n
      <4>1. c = d
        BY <1>5, <2>1, <2>6, <3>2
      <4> QED
        BY <1>7, <2>2, <2>3, <2>4, <2>6, <3>2, <4>1
    <3>3. CASE \E e \in Calls : target'[p] = e /\ held'[p] = reservation[e] /\ prior'[p].attempt = 0
      <4>1. held'[p] = reservation[d] /\ prior'[p].attempt = 0
        BY <2>1, <2>6, <3>3
      <4>2. reservation[d].attempt <= Latest(d)
        BY DEF NumberPart
      <4> QED
        BY <2>2, <2>3, <2>4, <2>6, <4>1, <4>2
    <3>4. CASE p \in Executions /\ Reserve(p)
      <4>1. held'[p] = Planned(p) /\ prior'[p] = prior[p] /\ target'[p] = target[p]
        BY <3>4 DEF Reserve, Planned, BudgetTypeOK
      <4>2. c = d
        BY <1>5, <2>1, <2>6, <4>1
      <4> QED
        BY <1>3, <1>5, <1>6, <2>2, <2>3, <2>4, <2>6, <3>4, <4>1, <4>2
    <3> QED
      BY <1>8, <3>1, <3>2, <3>3, <3>4
  <2> QED
    BY <2>5, <2>6
<1>10. ASSUME NEW e \in Executions, stage'[e] = "reserve" PROVE prior'[e].attempt < e
  <2>1. CASE e = p
    <3>1. stage[p] = "admit" /\ p = current /\ prior'[p] = prior[p]
      BY <1>8, <1>10, <2>1 DEF Fence
    <3>2. ~Past(current, c)
      BY <1>5, <3>1 DEF Past, BeforeReserve, Looking
    <3>3. Latest(c) = current - 1
      BY <3>2 DEF Latest
    <3> QED
      BY <1>1, <1>6, <2>1, <3>1, <3>3
  <2>2. CASE e # p
    BY <1>10, <2>2, OthersStay, Processes DEF NumberPart, Same
  <2> QED
    BY <2>1, <2>2
<1> QED
  BY <1>4, <1>9, <1>10 DEF NumberPart

(* While the run has been executed twice at most, the next attempt is the first or the second. *)
LEMMA NextAttempt ==
  ASSUME NEW p \in Executions, stage[p] = "reserve", AtMostTwo,
         BudgetTypeOK, PlacePart, FirstPart, SecondPart
  PROVE  /\ p = 1 \/ p = 2
         /\ prior[p].attempt \in {0, 1}
         /\ p = 1 => prior[p].attempt = 0
<1>1. /\ prior[p].attempt \in Nat /\ p \in Procs /\ p \in Nat \ {0} /\ ~(p > current)
      /\ current \in Nat /\ current <= 2
  BY Processes DEF BudgetTypeOK, PlacePart, Receipts, Attempts, AtMostTwo
<1>2. p = 1 \/ p = 2
  BY <1>1
<1>3. CASE p = 1
  BY <1>1, <1>3 DEF FirstPart
<1>4. CASE p = 2
  <2>1. ~Second(target[p])
    BY <1>4 DEF Second, Past, BeforeReserve, Looking
  <2> QED
    BY <1>1, <1>4, <2>1 DEF SecondPart
<1> QED
  BY <1>2, <1>3, <1>4

LEMMA TwoExecutions ==
  ASSUME NEW p \in Procs, StepOf(p), BudgetTypeOK, PlacePart, AtMostTwo
  PROVE  p = Sweep \/ p = 1 \/ p = 2
<1>1. current \in Nat /\ current <= 2
  BY Processes DEF BudgetTypeOK, AtMostTwo
<1>2. CASE p \in Executions
  <2>1. p \in Nat \ {0} /\ ~(p > current)
    BY <1>2, Processes, TriedGrows
  <2> QED
    BY <1>1, <2>1
<1> QED
  BY <1>2, Processes

LEMMA AttemptsOfMover ==
  ASSUME NEW p \in Procs, StepOf(p), BudgetTypeOK, PlacePart, DocPart, FirstPart, SecondPart,
         AtMostTwo,
         ~Second(target[p])'
  PROVE  held'[p].attempt <= 1 /\ prior'[p].attempt <= 1
<1>0. ASSUME NEW c \in Calls, c = target[p], Second(c) PROVE target'[p] # c
  <2>1. Second(c)'
    BY <1>0, SecondStays
  <2> QED
    BY <2>1 DEF Second, Past, BeforeReserve
<1>1. /\ target[p] \in Calls /\ MaxExecutions \in Nat
      /\ held[p].attempt \in Nat /\ prior[p].attempt \in Nat
      /\ receipt[target[p]].attempt \in Nat /\ reservation[target[p]].attempt \in Nat
  BY Processes DEF BudgetTypeOK, Receipts, Reservations, Attempts
<1>2. /\ held[p].attempt <= MaxExecutions /\ prior[p].attempt <= MaxExecutions
      /\ receipt[target[p]].attempt <= MaxExecutions
      /\ reservation[target[p]].attempt <= MaxExecutions
  BY <1>1 DEF BudgetTypeOK, Receipts, Reservations, Attempts
<1>3. ~Second(target[p]) =>
         /\ held[p].attempt <= 1 /\ prior[p].attempt <= 1
         /\ receipt[target[p]].attempt <= 1 /\ reservation[target[p]].attempt <= 1
  BY <1>1 DEF SecondPart
<1>4. \/ held'[p].attempt = 0 /\ prior'[p].attempt = 0
      \/ ~Second(target[p]) /\ held'[p].attempt <= 1 /\ prior'[p].attempt <= 1
      \/ \E c \in Calls : target'[p] = c /\ held'[p] = reservation[c] /\ prior'[p].attempt = 0
      \/ p \in Executions /\ Reserve(p)
  <2>1. CASE Second(target[p])
    <3>1. target'[p] # target[p]
      BY <1>0, <1>1, <2>1
    <3> QED
      BY <1>1, <1>2, <3>1, NumbersOfMover
  <2>2. CASE ~Second(target[p])
    BY <1>1, <1>3, <2>2, NumbersOfMover
  <2> QED
    BY <2>1, <2>2
<1>5. CASE p \in Executions /\ Reserve(p)
  <2>1. p # 2
    BY <1>5, ReservePasses DEF Second, Past, BeforeReserve
  <2>2. prior[p].attempt = 0
    BY <1>5, <2>1, NextAttempt DEF Reserve
  <2> QED
    BY <1>5, <2>2, PlannedFields DEF Reserve, Planned, Step, BudgetTypeOK
<1>6. CASE \E c \in Calls : target'[p] = c /\ held'[p] = reservation[c] /\ prior'[p].attempt = 0
  <2>1. PICK c \in Calls : target'[p] = c /\ held'[p] = reservation[c] /\ prior'[p].attempt = 0
    BY <1>6
  <2>2. ~Second(c)'
    BY <2>1 DEF Second, Past, BeforeReserve
  <2>3. reservation[c].attempt <= 1
    BY <2>2, SecondStays DEF SecondPart
  <2> QED
    BY <2>1, <2>3
<1>7. CASE held'[p].attempt = 0 /\ prior'[p].attempt = 0
  BY <1>7
<1> QED
  BY <1>4, <1>5, <1>6, <1>7

LEMMA SecondBegun ==
  ASSUME NEW p \in Procs, p = 2, p \in Executions, Reserve(p), BudgetTypeOK, PlacePart,
         NEW c, c = target[p]
  PROVE  Second(c)'
BY ReservePasses DEF Second, Past, BeforeReserve

LEMMA ReservedAttempt ==
  ASSUME NEW p \in Executions, Reserve(p), BudgetTypeOK, PlacePart, FirstPart, SecondPart, AtMostTwo
  PROVE  /\ Planned(p).attempt = 1 \/ (Planned(p).attempt = 2 /\ p = 2 /\ ~Second(target[p]))
         /\ Planned(p).attempt = 1 => Planned(p).charge = 1
         /\ Planned(p).charge = 0 => consumed[p]
         /\ Planned(p).attempt = 1 <=> prior[p].attempt = 0
<1>1. /\ prior[p].attempt \in {0, 1} /\ (p = 1 => prior[p].attempt = 0) /\ stage[p] = "reserve"
      /\ p = 1 \/ p = 2
      /\ p \in Procs
  BY NextAttempt, Processes DEF Reserve
<1>2. ~consumed[p] \/ prior[p].attempt # 0
  BY <1>1 DEF PlacePart, PlaceOf
<1>3. p = 2 => ~Second(target[p])
  BY <1>1 DEF Second, Past, BeforeReserve, Looking
<1>4. Planned(p).attempt = prior[p].attempt + 1
  BY PlannedFields
<1>5. /\ ~consumed[p] => Planned(p).charge = 1
      /\ consumed[p] => Planned(p).charge = 0
  BY PlannedFields
<1>6. CASE prior[p].attempt = 0
  <2>1. Planned(p).attempt = 1 /\ ~consumed[p]
    BY <1>2, <1>4, <1>6
  <2>2. Planned(p).charge = 1
    BY <1>5, <2>1
  <2>3. Planned(p).charge # 0
    BY <2>2
  <2> QED
    BY <1>6, <2>1, <2>2, <2>3
<1>7. CASE prior[p].attempt = 1
  BY <1>1, <1>3, <1>4, <1>5, <1>7
<1> QED
  BY <1>1, <1>6, <1>7

LEMMA SecondKept ==
  ASSUME NEW p \in Procs, StepOf(p), BudgetTypeOK, PlacePart, DocPart, FirstPart, SecondPart, AtMostTwo
  PROVE  SecondPart'
<1>1. ASSUME NEW c \in Calls, ~Second(c)'
      PROVE  receipt'[c].attempt <= 1 /\ reservation'[c].attempt <= 1 /\ <<c, 2>> \notin called'
  <2>1. /\ ~Second(c) /\ receipt[c].attempt <= 1 /\ reservation[c].attempt <= 1
        /\ <<c, 2>> \notin called /\ (target[p] = c => held[p].attempt <= 1)
    BY <1>1, SecondStays DEF SecondPart
  <2>2. receipt'[c].attempt <= 1
    BY <2>1, DocumentsMove
  <2>3. reservation'[c].attempt <= 1
    <3>1. CASE reservation'[c] = NoReservation
      <4>1. reservation'[c].attempt = 0
        BY <3>1, Blank
      <4> QED
        BY <4>1
    <3>2. CASE reservation'[c] = [reservation[c] EXCEPT !.status = "started"]
      <4>1. reservation'[c].attempt = reservation[c].attempt
        BY <3>2, StartedFields DEF BudgetTypeOK
      <4> QED
        BY <2>1, <4>1
    <3>3. CASE reservation'[c] = Planned(p) /\ c = target[p] /\ p \in Executions /\ Reserve(p)
      <4>1. p # 2
        BY <1>1, <3>3, SecondBegun
      <4>2. reservation'[c].attempt = 1
        BY <3>3, <4>1, ReservedAttempt
      <4> QED
        BY <4>2
    <3> QED
      BY <2>1, <3>1, <3>2, <3>3, ActiveMoves
  <2>4. <<c, 2>> \notin called'
    <3>1. <<target[p], held[p].attempt>> # <<c, 2>>
      BY <2>1
    <3> QED
      BY <2>1, <3>1, CallsMade
  <2> QED
    BY <2>2, <2>3, <2>4
<1>2. ASSUME NEW q \in Procs, ~Second(target[q])'
      PROVE  held'[q].attempt <= 1 /\ prior'[q].attempt <= 1
  <2>1. CASE q = p
    BY <1>2, <2>1, AttemptsOfMover
  <2>2. CASE q # p
    <3>1. Same(q) /\ target[q] \in Calls
      BY <2>2, OthersStay DEF BudgetTypeOK
    <3>2. ~Second(target[q])
      <4>1. PICK c \in Calls : c = target[q]
        BY <3>1
      <4>2. ~Second(c)'
        BY <1>2, <3>1, <4>1 DEF Same, Second, Past, BeforeReserve
      <4> QED
        BY <4>1, <4>2, SecondStays
    <3> QED
      BY <3>1, <3>2 DEF SecondPart, Same
  <2> QED
    BY <2>1, <2>2
<1> QED
  BY <1>1, <1>2 DEF SecondPart

(* What an attempt is charged is the same wherever it is held. *)

LEMMA ChargeOfMover ==
  ASSUME NEW p \in Procs, StepOf(p), BudgetTypeOK, PlacePart, DocPart, FirstPart, SecondPart,
         ChargePart, AtMostTwo, stage'[p] \in Holding
  PROVE  /\ held'[p].attempt = 1 => held'[p].charge = 1
         /\ held'[p].attempt = reservation'[target'[p]].attempt
               => held'[p].charge = reservation'[target'[p]].charge
<1>a. /\ PlaceOf(p) /\ target[p] \in Calls /\ held[p] \in Reservations
      /\ \A c \in Calls : reservation[c].attempt = 1 => reservation[c].charge = 1
      /\ stage[p] \in Holding =>
            /\ held[p].attempt = 1 => held[p].charge = 1
            /\ held[p].attempt = reservation[target[p]].attempt
                  => held[p].charge = reservation[target[p]].charge
  BY DEF PlacePart, BudgetTypeOK, ChargePart
<1> USE DEF Holding
<1>1. CASE p \in Executions /\ \E c \in Calls : BeginReserve(p, c)
  BY <1>a, <1>1 DEF BeginReserve, Step, BudgetTypeOK, stateDoc
<1>2. CASE p \in Executions /\ ReadPrior(p)
  <2>1. CASE stage'[p] = "release"
    <3>1. /\ held'[p] = reservation[target[p]] /\ target'[p] = target[p]
          /\ reservation'[target[p]] = reservation[target[p]]
      BY <1>2, <2>1, <1>a DEF ReadPrior, Step, BudgetTypeOK, stateDoc
    <3> QED
      BY <3>1, <1>a
  <2>2. stage'[p] \in {"count", "release", "again", "admit"}
    BY <1>2 DEF ReadPrior, Step, BudgetTypeOK
  <2> QED
    BY <2>1, <2>2
<1>3. CASE p \in Executions /\ ReadPriorAgain(p)
  BY <1>a, <1>3 DEF ReadPriorAgain, Step, BudgetTypeOK, stateDoc
<1>4. CASE p \in Executions /\ ReadActiveCall(p)
  BY <1>a, <1>4 DEF ReadActiveCall, Step, BudgetTypeOK, stateDoc
<1>5. CASE p \in Executions /\ AlreadyInProgress(p)
  BY <1>5, <1>a, QuitRests DEF AlreadyInProgress, Throw, Rested
<1>6. CASE p \in Executions /\ Reread(p)
  BY <1>a, <1>6 DEF Reread, Step, BudgetTypeOK, stateDoc
<1>7. CASE p \in Executions /\ Admit(p)
  BY <1>a, <1>7 DEF Admit, Step, BudgetTypeOK, stateDoc
<1>8. CASE p \in Executions /\ LostFence(p)
  BY <1>8, <1>a, QuitRests DEF LostFence, Throw, Rested
<1>9. CASE p \in Executions /\ Reserve(p)
  <2>1. held'[p] = Planned(p) /\ target'[p] = target[p] /\ reservation'[target[p]] = Planned(p)
    BY <1>9, <1>a DEF Reserve, Planned, BudgetTypeOK
  <2> QED
    BY <1>9, <2>1, ReservedAttempt
<1>10. CASE p \in Executions /\ RefuseCall(p)
  BY <1>10, <1>a, QuitRests DEF RefuseCall, Throw, Rested
<1>11. CASE p \in Executions /\ WriteReceipt(p)
  BY <1>a, <1>11 DEF WriteReceipt, Step, BudgetTypeOK, stateDoc
<1>12. CASE p \in Executions /\ VerifyAdmission(p)
  BY <1>a, <1>12 DEF VerifyAdmission, Step, BudgetTypeOK, stateDoc
<1>13. CASE p \in Executions /\ Begin(p)
  BY <1>a, <1>13 DEF Begin, Step, BudgetTypeOK, stateDoc
<1>14. CASE p \in Executions /\ StartCall(p)
  BY <1>a, <1>14 DEF StartCall, Step, BudgetTypeOK, stateDoc
<1>15. CASE p \in Executions /\ NotStartable(p)
  BY <1>15, <1>a, QuitRests DEF NotStartable, Throw, Rested
<1>16. CASE p \in Executions /\ ReceiptStarted(p)
  BY <1>a, <1>16 DEF ReceiptStarted, Step, BudgetTypeOK, stateDoc
<1>17. CASE p \in Executions /\ CheckStart(p)
  BY <1>a, <1>17 DEF CheckStart, Step, BudgetTypeOK, stateDoc
<1>18. CASE p \in Executions /\ CallReturns(p)
  BY <1>a, <1>18 DEF CallReturns, Step, BudgetTypeOK, stateDoc
<1>19. CASE p \in Executions /\ Settle(p)
  BY <1>a, <1>19 DEF Settle, Step, BudgetTypeOK, stateDoc
<1>20. CASE p \in Executions /\ SettleRefused(p)
  BY <1>20, <1>a, QuitRests DEF SettleRefused, Throw, Rested
<1>21. CASE p \in Executions /\ Count(p)
  BY <1>a, <1>21 DEF Count, Step, BudgetTypeOK, stateDoc
<1>22. CASE p \in Executions /\ CountedBefore(p)
  BY <1>22, <1>a, QuitRests DEF CountedBefore, Rested, Step, BudgetTypeOK
<1>23. CASE p \in Executions /\ Report(p)
  BY <1>a, <1>23 DEF Report, Step, BudgetTypeOK, stateDoc
<1>24. CASE p \in Executions /\ Close(p)
  BY <1>24, <1>a, ReturnGoesBack DEF Close, Rested, Returned, Step, BudgetTypeOK, Backs
<1>25. CASE MarkReleasing(p)
  BY <1>a, <1>25 DEF MarkReleasing, Step, BudgetTypeOK, stateDoc
<1>26. CASE Uncount(p)
  BY <1>a, <1>26 DEF Uncount, Step, BudgetTypeOK, stateDoc
<1>27. CASE UncountRefused(p)
  BY <1>27, <1>a, ReturnGoesBack DEF UncountRefused, Rested, Returned, Step, BudgetTypeOK, Backs
<1>28. CASE MarkReleased(p)
  BY <1>28, <1>a, ReturnGoesBack DEF MarkReleased, Rested, Returned, Step, BudgetTypeOK, Backs
<1>29. CASE MarkAbandoned(p)
  BY <1>a, <1>29 DEF MarkAbandoned, Step, BudgetTypeOK, stateDoc
<1>30. CASE DropStarted(p)
  BY <1>30, <1>a, ReturnGoesBack DEF DropStarted, Rested, Returned, Step, BudgetTypeOK, Backs
<1>31. CASE p = Sweep /\ SweepJudge
  BY <1>31, <1>a, QuitRests DEF SweepJudge, Rested, Step, BudgetTypeOK, StaleForm, stateDoc
<1>32. CASE p = Sweep /\ \E c \in Calls : SweepRead(c)
  BY <1>a, <1>32 DEF SweepRead, Step, BudgetTypeOK, stateDoc
<1>33. CASE p \in Executions /\ StartedBefore(p)
  BY <1>a, <1>33 DEF StartedBefore, Step, BudgetTypeOK, stateDoc
<1>34. CASE p \in Executions /\ JoinSettlement(p)
  BY <1>a, <1>34 DEF JoinSettlement, Step, BudgetTypeOK, stateDoc
<1>35. CASE p \in Executions /\ SettledBefore(p)
  BY <1>35, <1>a, QuitRests DEF SettledBefore, Rested
<1> QED
  BY <1>1, <1>2, <1>3, <1>4, <1>5, <1>6, <1>7, <1>8, <1>9, <1>10, <1>11, <1>12, <1>13, <1>14,
     <1>15, <1>16, <1>17, <1>18, <1>19, <1>20, <1>21, <1>22, <1>23, <1>24, <1>25, <1>26, <1>27,
     <1>28, <1>29, <1>30, <1>31, <1>32, <1>33, <1>34, <1>35
  DEF StepOf, CallStep, Undo

LEMMA ChargeKept ==
  ASSUME NEW p \in Procs, StepOf(p), BudgetTypeOK, PlacePart, DocPart, FirstPart, SecondPart,
         ChargePart, AtMostTwo
  PROVE  ChargePart'
<1>1. ASSUME NEW c \in Calls, reservation'[c].attempt = 1 PROVE reservation'[c].charge = 1
  <2>1. CASE reservation'[c] = NoReservation
    BY <1>1, <2>1, Blank
  <2>2. CASE reservation'[c] = [reservation[c] EXCEPT !.status = "started"]
    BY <1>1, <2>2, StartedFields DEF BudgetTypeOK, ChargePart
  <2>3. CASE reservation'[c] = Planned(p) /\ p \in Executions /\ Reserve(p)
    BY <1>1, <2>3, ReservedAttempt
  <2> QED
    BY <1>1, <2>1, <2>2, <2>3, ActiveMoves DEF ChargePart
<1>2. ASSUME NEW q \in Procs, q # p, stage'[q] \in Holding
      PROVE  /\ held'[q].attempt = 1 => held'[q].charge = 1
             /\ held'[q].attempt = reservation'[target'[q]].attempt
                   => held'[q].charge = reservation'[target'[q]].charge
  <2>1. Same(q) /\ target[q] \in Calls /\ stage[q] \in Holding
    BY <1>2, OthersStay DEF BudgetTypeOK, Same
  <2>2. PICK c \in Calls : c = target[q]
    BY <2>1
  <2>3. /\ held[q].attempt = 1 => held[q].charge = 1
        /\ held[q].attempt = reservation[c].attempt => held[q].charge = reservation[c].charge
    BY <2>1, <2>2 DEF ChargePart
  <2>4. held[q].attempt # 0
    BY <2>1 DEF PlacePart, PlaceOf, Holding, Looking
  <2>5. ASSUME held[q].attempt = reservation'[c].attempt PROVE held[q].charge = reservation'[c].charge
    <3>1. CASE reservation'[c] = NoReservation
      BY <2>4, <2>5, <3>1, Blank
    <3>2. CASE reservation'[c] = [reservation[c] EXCEPT !.status = "started"]
      BY <2>3, <2>5, <3>2, StartedFields DEF BudgetTypeOK
    <3>3. CASE /\ reservation'[c] = Planned(p) /\ p \in Executions /\ Reserve(p)
               /\ c = target[p]
      <4>1. Planned(p).attempt = 2 => ~Second(c) /\ held[q].attempt <= 1
        <5>1. /\ Planned(p).attempt = 2 => ~Second(target[p])
              /\ target[p] = target[q] /\ c = target[q]
          BY <2>2, <3>3, ReservedAttempt
        <5>2. ~Second(target[q]) => held[q].attempt <= 1
          BY DEF SecondPart
        <5> QED
          BY <5>1, <5>2
      <4>2. Planned(p).attempt = 1
        BY <2>5, <3>3, <4>1, ReservedAttempt
      <4> QED
        BY <2>3, <2>5, <3>3, <4>2, ReservedAttempt
    <3> QED
      BY <2>3, <2>5, <3>1, <3>2, <3>3, ActiveMoves
  <2> QED
    BY <2>1, <2>2, <2>3, <2>5 DEF Same
<1> QED
  BY <1>1, <1>2, ChargeOfMover DEF ChargePart

(* What is charged: once for each call that was ever started, and for what is reserved. *)

LEMMA SpentOfMover ==
  ASSUME NEW p \in Procs, StepOf(p), BudgetTypeOK, PlacePart, NEW X, NEW Y, Spent(X),
         \A x \in X : x \in Y, StartCall(p) => target[p] \in Y
  PROVE  /\ stage'[p] \in Spending => target'[p] \in Y
         /\ consumed'[p] => target'[p] \in Y
         /\ stage'[p] = "judge" /\ held'[p].status = "started" => target'[p] \in Y
<1>a. /\ PlaceOf(p) /\ target[p] \in Calls
      /\ stage[p] \in Spending => target[p] \in Y
      /\ consumed[p] => target[p] \in Y
      /\ stage[p] = "judge" /\ held[p].status = "started" => target[p] \in Y
      /\ \A c \in Calls : 
            /\ reservation[c].status = "started" => c \in Y
            /\ receipt[c].status \in {"started", "settling", "completed", "abandoned"} => c \in Y
      /\ held[p].status \in {"none", "reserved", "started"}
      /\ reservation[target[p]].status \in {"none", "reserved", "started"}
  BY DEF PlacePart, BudgetTypeOK, Spent, Reservations
<1> USE DEF Spending
<1>1. CASE p \in Executions /\ \E c \in Calls : BeginReserve(p, c)
  BY <1>1, <1>a DEF BeginReserve, PlaceOf, Step, BudgetTypeOK
<1>2. CASE p \in Executions /\ ReadPrior(p)
  BY <1>a, <1>2 DEF ReadPrior, Step, BudgetTypeOK, stateDoc
<1>3. CASE p \in Executions /\ ReadPriorAgain(p)
  BY <1>a, <1>3 DEF ReadPriorAgain, Step, BudgetTypeOK, stateDoc
<1>4. CASE p \in Executions /\ ReadActiveCall(p)
  BY <1>a, <1>4 DEF ReadActiveCall, Step, BudgetTypeOK, stateDoc
<1>5. CASE p \in Executions /\ AlreadyInProgress(p)
  BY <1>5, <1>a, QuitRests DEF AlreadyInProgress, Throw, Rested
<1>6. CASE p \in Executions /\ Reread(p)
  BY <1>a, <1>6 DEF Reread, Step, BudgetTypeOK, stateDoc
<1>7. CASE p \in Executions /\ Admit(p)
  BY <1>a, <1>7 DEF Admit, Step, BudgetTypeOK, stateDoc
<1>8. CASE p \in Executions /\ LostFence(p)
  BY <1>8, <1>a, QuitRests DEF LostFence, Throw, Rested
<1>9. CASE p \in Executions /\ Reserve(p)
  BY <1>a, <1>9 DEF Reserve, Step, BudgetTypeOK, stateDoc
<1>10. CASE p \in Executions /\ RefuseCall(p)
  BY <1>10, <1>a, QuitRests DEF RefuseCall, Throw, Rested
<1>11. CASE p \in Executions /\ WriteReceipt(p)
  BY <1>a, <1>11 DEF WriteReceipt, Step, BudgetTypeOK, stateDoc
<1>12. CASE p \in Executions /\ VerifyAdmission(p)
  BY <1>a, <1>12 DEF VerifyAdmission, Step, BudgetTypeOK, stateDoc
<1>13. CASE p \in Executions /\ Begin(p)
  BY <1>a, <1>13 DEF Begin, Step, BudgetTypeOK, stateDoc
<1>14. CASE p \in Executions /\ StartCall(p)
  BY <1>a, <1>14 DEF StartCall, Step, BudgetTypeOK, stateDoc
<1>15. CASE p \in Executions /\ NotStartable(p)
  BY <1>15, <1>a, QuitRests DEF NotStartable, Throw, Rested
<1>16. CASE p \in Executions /\ ReceiptStarted(p)
  BY <1>a, <1>16 DEF ReceiptStarted, Step, BudgetTypeOK, stateDoc
<1>17. CASE p \in Executions /\ CheckStart(p)
  BY <1>a, <1>17 DEF CheckStart, Step, BudgetTypeOK, stateDoc
<1>18. CASE p \in Executions /\ CallReturns(p)
  BY <1>a, <1>18 DEF CallReturns, Step, BudgetTypeOK, stateDoc
<1>19. CASE p \in Executions /\ Settle(p)
  BY <1>a, <1>19 DEF Settle, Step, BudgetTypeOK, stateDoc
<1>20. CASE p \in Executions /\ SettleRefused(p)
  BY <1>20, <1>a, QuitRests DEF SettleRefused, Throw, Rested
<1>21. CASE p \in Executions /\ Count(p)
  BY <1>a, <1>21 DEF Count, Step, BudgetTypeOK, stateDoc
<1>22. CASE p \in Executions /\ CountedBefore(p)
  BY <1>22, <1>a, QuitRests DEF CountedBefore, Rested, Step, BudgetTypeOK
<1>23. CASE p \in Executions /\ Report(p)
  BY <1>a, <1>23 DEF Report, Step, BudgetTypeOK, stateDoc
<1>24. CASE p \in Executions /\ Close(p)
  BY <1>24, <1>a, ReturnGoesBack DEF Close, Rested, Returned, Step, BudgetTypeOK, Backs
<1>25. CASE MarkReleasing(p)
  BY <1>a, <1>25 DEF MarkReleasing, Step, BudgetTypeOK, stateDoc
<1>26. CASE Uncount(p)
  BY <1>a, <1>26 DEF Uncount, Step, BudgetTypeOK, stateDoc
<1>27. CASE UncountRefused(p)
  BY <1>27, <1>a, ReturnGoesBack DEF UncountRefused, Rested, Returned, Step, BudgetTypeOK, Backs
<1>28. CASE MarkReleased(p)
  BY <1>28, <1>a, ReturnGoesBack DEF MarkReleased, Rested, Returned, Step, BudgetTypeOK, Backs
<1>29. CASE MarkAbandoned(p)
  BY <1>a, <1>29 DEF MarkAbandoned, Step, BudgetTypeOK, stateDoc
<1>30. CASE DropStarted(p)
  BY <1>30, <1>a, ReturnGoesBack DEF DropStarted, Rested, Returned, Step, BudgetTypeOK, Backs
<1>31. CASE p = Sweep /\ SweepJudge
  BY <1>31, <1>a, QuitRests DEF SweepJudge, Rested, Step, BudgetTypeOK, StaleForm, PlaceOf
<1>32. CASE p = Sweep /\ \E c \in Calls : SweepRead(c)
  BY <1>32, <1>a DEF SweepRead, PlaceOf, Step, BudgetTypeOK
<1>33. CASE p \in Executions /\ StartedBefore(p)
  BY <1>a, <1>33 DEF StartedBefore, Step, BudgetTypeOK, stateDoc
<1>34. CASE p \in Executions /\ JoinSettlement(p)
  BY <1>a, <1>34 DEF JoinSettlement, Step, BudgetTypeOK, stateDoc
<1>35. CASE p \in Executions /\ SettledBefore(p)
  BY <1>35, <1>a, QuitRests DEF SettledBefore, Rested
<1> QED
  BY <1>1, <1>2, <1>3, <1>4, <1>5, <1>6, <1>7, <1>8, <1>9, <1>10, <1>11, <1>12, <1>13, <1>14,
     <1>15, <1>16, <1>17, <1>18, <1>19, <1>20, <1>21, <1>22, <1>23, <1>24, <1>25, <1>26, <1>27,
     <1>28, <1>29, <1>30, <1>31, <1>32, <1>33, <1>34, <1>35
  DEF StepOf, CallStep, Undo

LEMMA SpentReceipts ==
  ASSUME NEW p \in Procs, StepOf(p), BudgetTypeOK, PlacePart, NEW X, NEW Y, Spent(X),
         \A x \in X : x \in Y,
         NEW d \in Calls, receipt'[d].status \in {"started", "settling", "completed", "abandoned"}
  PROVE  d \in Y
<1>a. /\ stage[p] \in Spending => target[p] \in Y
      /\ receipt[d].status \in {"started", "settling", "completed", "abandoned"} => d \in Y
      /\ target[p] \in Calls /\ receipt[target[p]] \in Receipts
  BY DEF Spent, BudgetTypeOK
<1> USE DEF Spending, stateDoc
<1>1. CASE p \in Executions /\ \E c \in Calls : BeginReserve(p, c)
  BY <1>a, <1>1 DEF BeginReserve, BudgetTypeOK, SetReceipt, PutReceipt, Receipts
<1>2. CASE p \in Executions /\ ReadPrior(p)
  BY <1>a, <1>2 DEF ReadPrior, BudgetTypeOK, SetReceipt, PutReceipt, Receipts
<1>3. CASE p \in Executions /\ ReadPriorAgain(p)
  BY <1>a, <1>3 DEF ReadPriorAgain, BudgetTypeOK, SetReceipt, PutReceipt, Receipts
<1>4. CASE p \in Executions /\ ReadActiveCall(p)
  BY <1>a, <1>4 DEF ReadActiveCall, BudgetTypeOK, SetReceipt, PutReceipt, Receipts
<1>5. CASE p \in Executions /\ AlreadyInProgress(p)
  BY <1>a, <1>5 DEF AlreadyInProgress, Throw, Quit, BudgetTypeOK, SetReceipt, PutReceipt, Receipts
<1>6. CASE p \in Executions /\ Reread(p)
  BY <1>a, <1>6 DEF Reread, BudgetTypeOK, SetReceipt, PutReceipt, Receipts
<1>7. CASE p \in Executions /\ Admit(p)
  BY <1>a, <1>7 DEF Admit, BudgetTypeOK, SetReceipt, PutReceipt, Receipts
<1>8. CASE p \in Executions /\ LostFence(p)
  BY <1>a, <1>8 DEF LostFence, Throw, Quit, BudgetTypeOK, SetReceipt, PutReceipt, Receipts
<1>9. CASE p \in Executions /\ Reserve(p)
  BY <1>a, <1>9 DEF Reserve, BudgetTypeOK, SetReceipt, PutReceipt, Receipts
<1>10. CASE p \in Executions /\ RefuseCall(p)
  BY <1>a, <1>10 DEF RefuseCall, Throw, Quit, BudgetTypeOK, SetReceipt, PutReceipt, Receipts
<1>11. CASE p \in Executions /\ WriteReceipt(p)
  BY <1>a, <1>11 DEF WriteReceipt, BudgetTypeOK, SetReceipt, PutReceipt, Receipts
<1>12. CASE p \in Executions /\ VerifyAdmission(p)
  BY <1>a, <1>12 DEF VerifyAdmission, BudgetTypeOK, SetReceipt, PutReceipt, Receipts
<1>13. CASE p \in Executions /\ Begin(p)
  BY <1>a, <1>13 DEF Begin, BudgetTypeOK, SetReceipt, PutReceipt, Receipts
<1>14. CASE p \in Executions /\ StartCall(p)
  BY <1>a, <1>14 DEF StartCall, BudgetTypeOK, SetReceipt, PutReceipt, Receipts
<1>15. CASE p \in Executions /\ NotStartable(p)
  BY <1>a, <1>15 DEF NotStartable, Throw, Quit, BudgetTypeOK, SetReceipt, PutReceipt, Receipts
<1>16. CASE p \in Executions /\ ReceiptStarted(p)
  BY <1>a, <1>16 DEF ReceiptStarted, BudgetTypeOK, SetReceipt, PutReceipt, Receipts
<1>17. CASE p \in Executions /\ CheckStart(p)
  BY <1>a, <1>17 DEF CheckStart, BudgetTypeOK, SetReceipt, PutReceipt, Receipts
<1>18. CASE p \in Executions /\ CallReturns(p)
  BY <1>a, <1>18 DEF CallReturns, BudgetTypeOK, SetReceipt, PutReceipt, Receipts
<1>19. CASE p \in Executions /\ Settle(p)
  BY <1>a, <1>19 DEF Settle, BudgetTypeOK, SetReceipt, PutReceipt, Receipts
<1>20. CASE p \in Executions /\ SettleRefused(p)
  BY <1>a, <1>20 DEF SettleRefused, Throw, Quit, BudgetTypeOK, SetReceipt, PutReceipt, Receipts
<1>21. CASE p \in Executions /\ Count(p)
  BY <1>a, <1>21 DEF Count, BudgetTypeOK, SetReceipt, PutReceipt, Receipts
<1>22. CASE p \in Executions /\ CountedBefore(p)
  BY <1>a, <1>22 DEF CountedBefore, Quit, BudgetTypeOK, SetReceipt, PutReceipt, Receipts
<1>23. CASE p \in Executions /\ Report(p)
  BY <1>a, <1>23 DEF Report, BudgetTypeOK, SetReceipt, PutReceipt, Receipts
<1>24. CASE p \in Executions /\ Close(p)
  BY <1>a, <1>24 DEF Close, Return, Quit, BudgetTypeOK, SetReceipt, PutReceipt, Receipts
<1>25. CASE MarkReleasing(p)
  BY <1>a, <1>25 DEF MarkReleasing, BudgetTypeOK, SetReceipt, PutReceipt, Receipts
<1>26. CASE Uncount(p)
  BY <1>a, <1>26 DEF Uncount, BudgetTypeOK, SetReceipt, PutReceipt, Receipts
<1>27. CASE UncountRefused(p)
  BY <1>a, <1>27 DEF UncountRefused, Return, Quit, BudgetTypeOK, SetReceipt, PutReceipt, Receipts
<1>28. CASE MarkReleased(p)
  BY <1>a, <1>28 DEF MarkReleased, Return, Quit, BudgetTypeOK, SetReceipt, PutReceipt, Receipts
<1>29. CASE MarkAbandoned(p)
  BY <1>a, <1>29 DEF MarkAbandoned, BudgetTypeOK, SetReceipt, PutReceipt, Receipts
<1>30. CASE DropStarted(p)
  BY <1>a, <1>30 DEF DropStarted, Return, Quit, BudgetTypeOK, SetReceipt, PutReceipt, Receipts
<1>31. CASE p = Sweep /\ SweepJudge
  BY <1>a, <1>31 DEF SweepJudge, Quit, BudgetTypeOK, SetReceipt, PutReceipt, Receipts
<1>32. CASE p = Sweep /\ \E c \in Calls : SweepRead(c)
  BY <1>a, <1>32 DEF SweepRead, BudgetTypeOK, SetReceipt, PutReceipt, Receipts
<1>33. CASE p \in Executions /\ StartedBefore(p)
  BY <1>a, <1>33 DEF StartedBefore, BudgetTypeOK, SetReceipt, PutReceipt, Receipts
<1>34. CASE p \in Executions /\ JoinSettlement(p)
  BY <1>a, <1>34 DEF JoinSettlement, BudgetTypeOK, SetReceipt, PutReceipt, Receipts
<1>35. CASE p \in Executions /\ SettledBefore(p)
  BY <1>a, <1>35 DEF SettledBefore, Quit, BudgetTypeOK, SetReceipt, PutReceipt, Receipts
<1> QED
  BY <1>1, <1>2, <1>3, <1>4, <1>5, <1>6, <1>7, <1>8, <1>9, <1>10, <1>11, <1>12, <1>13, <1>14,
     <1>15, <1>16, <1>17, <1>18, <1>19, <1>20, <1>21, <1>22, <1>23, <1>24, <1>25, <1>26, <1>27,
     <1>28, <1>29, <1>30, <1>31, <1>32, <1>33, <1>34, <1>35
  DEF StepOf, CallStep, Undo

LEMMA SpentStays ==
  ASSUME NEW p \in Procs, StepOf(p), BudgetTypeOK, PlacePart, FirstPart, SecondPart, AtMostTwo,
         NEW X, NEW Y, Spent(X), \A x \in X : x \in Y, StartCall(p) => target[p] \in Y
  PROVE  Spent(Y)'
<1>1. ASSUME NEW x \in called' PROVE x[1] \in Y
  <2>1. CASE x \in called
    BY <2>1 DEF Spent
  <2>2. CASE x = <<target[p], held[p].attempt>> /\ stage[p] = "check"
    BY <2>2 DEF Spent, Spending
  <2>3. CASE x = <<target[p], held[p].attempt>> /\ StartedBefore(p)
    BY <2>3 DEF Spent, StartedBefore, BudgetTypeOK
  <2> QED
    BY <1>1, <2>1, <2>2, <2>3, CallsMade
<1>2. ASSUME NEW c \in Calls
      PROVE  /\ reservation'[c].status = "started" => c \in Y
             /\ reservation'[c].status # "none" /\ reservation'[c].charge = 0 => c \in Y
  <2>1. CASE reservation'[c] = reservation[c]
    BY <2>1 DEF Spent, ActiveCall
  <2>2. CASE reservation'[c] = NoReservation
    BY <2>2, Blank
  <2>3. CASE c = target[p] /\ StartCall(p)
    BY <2>3
  <2>4. CASE /\ reservation'[c] = Planned(p) /\ p \in Executions /\ Reserve(p) /\ c = target[p]
    BY <2>4, ReservedAttempt, PlannedFields DEF Spent
  <2> QED
    BY <2>1, <2>2, <2>3, <2>4, ActiveMoves
<1>3. ASSUME NEW c \in Calls,
             receipt'[c].status \in {"started", "settling", "completed", "abandoned"}
      PROVE  c \in Y
  BY <1>3, SpentReceipts
<1>4. ASSUME NEW q \in Procs
      PROVE  /\ stage'[q] \in Spending => target'[q] \in Y
             /\ consumed'[q] => target'[q] \in Y
             /\ stage'[q] = "judge" /\ held'[q].status = "started" => target'[q] \in Y
  <2>1. CASE q = p
    BY <2>1, SpentOfMover
  <2>2. CASE q # p
    BY <2>2, OthersStay DEF Same, Spent
  <2> QED
    BY <2>1, <2>2
<1> QED
  BY <1>1, <1>2, <1>3, <1>4 DEF Spent, ActiveCall

(* What a step does to the count, and to what is promised. *)
LEMMA CountMoves ==
  ASSUME NEW p \in Procs, StepOf(p), BudgetTypeOK
  PROVE  \/ toolCalls' = toolCalls /\ Promised' = Promised
         \/ p \in Executions /\ (Reserve(p) \/ StartCall(p))
         \/ Uncount(p)
<1>a. target[p] \in Calls /\ NoReservation.status = "none"
  BY Blank DEF BudgetTypeOK
<1>1. CASE p \in Executions /\ \E c \in Calls : BeginReserve(p, c)
  BY <1>a, <1>1 DEF BeginReserve, BudgetTypeOK, Promised, stateDoc, Mine
<1>2. CASE p \in Executions /\ ReadPrior(p)
  BY <1>a, <1>2 DEF ReadPrior, BudgetTypeOK, Promised, stateDoc, Mine
<1>3. CASE p \in Executions /\ ReadPriorAgain(p)
  BY <1>a, <1>3 DEF ReadPriorAgain, BudgetTypeOK, Promised, stateDoc, Mine
<1>4. CASE p \in Executions /\ ReadActiveCall(p)
  BY <1>a, <1>4 DEF ReadActiveCall, BudgetTypeOK, Promised, stateDoc, Mine
<1>5. CASE p \in Executions /\ AlreadyInProgress(p)
  BY <1>a, <1>5 DEF AlreadyInProgress, Throw, Quit, BudgetTypeOK, Promised, stateDoc, Mine
<1>6. CASE p \in Executions /\ Reread(p)
  BY <1>a, <1>6 DEF Reread, BudgetTypeOK, Promised, stateDoc, Mine
<1>7. CASE p \in Executions /\ Admit(p)
  BY <1>a, <1>7 DEF Admit, BudgetTypeOK, Promised, stateDoc, Mine
<1>8. CASE p \in Executions /\ LostFence(p)
  BY <1>a, <1>8 DEF LostFence, Throw, Quit, BudgetTypeOK, Promised, stateDoc, Mine
<1>9. CASE p \in Executions /\ Reserve(p)
  BY <1>a, <1>9 DEF Reserve, BudgetTypeOK, Promised, stateDoc, Mine
<1>10. CASE p \in Executions /\ RefuseCall(p)
  BY <1>a, <1>10 DEF RefuseCall, Throw, Quit, BudgetTypeOK, Promised, stateDoc, Mine
<1>11. CASE p \in Executions /\ WriteReceipt(p)
  BY <1>a, <1>11 DEF WriteReceipt, BudgetTypeOK, Promised, stateDoc, Mine
<1>12. CASE p \in Executions /\ VerifyAdmission(p)
  BY <1>a, <1>12 DEF VerifyAdmission, BudgetTypeOK, Promised, stateDoc, Mine
<1>13. CASE p \in Executions /\ Begin(p)
  BY <1>a, <1>13 DEF Begin, BudgetTypeOK, Promised, stateDoc, Mine
<1>14. CASE p \in Executions /\ StartCall(p)
  BY <1>a, <1>14 DEF StartCall, Startable, BudgetTypeOK, Promised, stateDoc, Mine
<1>15. CASE p \in Executions /\ NotStartable(p)
  BY <1>a, <1>15 DEF NotStartable, Throw, Quit, BudgetTypeOK, Promised, stateDoc, Mine
<1>16. CASE p \in Executions /\ ReceiptStarted(p)
  BY <1>a, <1>16 DEF ReceiptStarted, BudgetTypeOK, Promised, stateDoc, Mine
<1>17. CASE p \in Executions /\ CheckStart(p)
  BY <1>a, <1>17 DEF CheckStart, BudgetTypeOK, Promised, stateDoc, Mine
<1>18. CASE p \in Executions /\ CallReturns(p)
  BY <1>a, <1>18 DEF CallReturns, BudgetTypeOK, Promised, stateDoc, Mine
<1>19. CASE p \in Executions /\ Settle(p)
  BY <1>a, <1>19 DEF Settle, BudgetTypeOK, Promised, stateDoc, Mine
<1>20. CASE p \in Executions /\ SettleRefused(p)
  BY <1>a, <1>20 DEF SettleRefused, Throw, Quit, BudgetTypeOK, Promised, stateDoc, Mine
<1>21. CASE p \in Executions /\ Count(p)
  BY <1>21, <1>a DEF Count, Countable, Mine, BudgetTypeOK, Promised
<1>22. CASE p \in Executions /\ CountedBefore(p)
  BY <1>a, <1>22 DEF CountedBefore, Quit, BudgetTypeOK, Promised, stateDoc, Mine
<1>23. CASE p \in Executions /\ Report(p)
  BY <1>a, <1>23 DEF Report, BudgetTypeOK, Promised, stateDoc, Mine
<1>24. CASE p \in Executions /\ Close(p)
  BY <1>a, <1>24 DEF Close, Return, Quit, BudgetTypeOK, Promised, stateDoc, Mine
<1>25. CASE MarkReleasing(p)
  BY <1>a, <1>25 DEF MarkReleasing, BudgetTypeOK, Promised, stateDoc, Mine
<1>26. CASE Uncount(p)
  BY <1>a, <1>26 DEF Uncount, BudgetTypeOK, Promised, stateDoc, Mine
<1>27. CASE UncountRefused(p)
  BY <1>a, <1>27 DEF UncountRefused, Return, Quit, BudgetTypeOK, Promised, stateDoc, Mine
<1>28. CASE MarkReleased(p)
  BY <1>a, <1>28 DEF MarkReleased, Return, Quit, BudgetTypeOK, Promised, stateDoc, Mine
<1>29. CASE MarkAbandoned(p)
  BY <1>a, <1>29 DEF MarkAbandoned, BudgetTypeOK, Promised, stateDoc, Mine
<1>30. CASE DropStarted(p)
  BY <1>a, <1>30 DEF DropStarted, Return, Quit, BudgetTypeOK, Promised, stateDoc, Mine
<1>31. CASE p = Sweep /\ SweepJudge
  BY <1>a, <1>31 DEF SweepJudge, Quit, BudgetTypeOK, Promised, stateDoc, Mine
<1>32. CASE p = Sweep /\ \E c \in Calls : SweepRead(c)
  BY <1>a, <1>32 DEF SweepRead, BudgetTypeOK, Promised, stateDoc, Mine
<1>33. CASE p \in Executions /\ StartedBefore(p)
  BY <1>a, <1>33 DEF StartedBefore, BudgetTypeOK, Promised, stateDoc, Mine
<1>34. CASE p \in Executions /\ JoinSettlement(p)
  BY <1>a, <1>34 DEF JoinSettlement, BudgetTypeOK, Promised, stateDoc, Mine
<1>35. CASE p \in Executions /\ SettledBefore(p)
  BY <1>a, <1>35 DEF SettledBefore, Quit, BudgetTypeOK, Promised, stateDoc, Mine
<1> QED
  BY <1>1, <1>2, <1>3, <1>4, <1>5, <1>6, <1>7, <1>8, <1>9, <1>10, <1>11, <1>12, <1>13, <1>14,
     <1>15, <1>16, <1>17, <1>18, <1>19, <1>20, <1>21, <1>22, <1>23, <1>24, <1>25, <1>26, <1>27,
     <1>28, <1>29, <1>30, <1>31, <1>32, <1>33, <1>34, <1>35
  DEF StepOf, CallStep, Undo

LEMMA MoneyKept ==
  ASSUME NEW p \in Procs, StepOf(p), BudgetTypeOK, PlacePart, FirstPart, SecondPart, ChargePart,
         MoneyPart, AtMostTwo
  PROVE  MoneyPart'
<1>1. PICK X \in SUBSET Calls :
         IsFiniteSet(X) /\ Spent(X) /\ Cardinality(X) + Cardinality(Promised) <= toolCalls
  BY DEF MoneyPart
<1>2. /\ Cardinality(X) \in Nat /\ Cardinality(Promised) \in Nat /\ IsFiniteSet(Promised)
      /\ toolCalls \in Int
      /\ target[p] \in Calls /\ reservation[target[p]] \in Reservations
      /\ reservation[target[p]].charge \in {0, 1}
  BY <1>1, FS_CardinalityType, BudgetAssumption DEF MoneyPart, BudgetTypeOK, Reservations
<1>3. ASSUME NEW Y \in SUBSET Calls, IsFiniteSet(Y), Spent(Y)', IsFiniteSet(Promised'),
             Cardinality(Y) + Cardinality(Promised') <= toolCalls'
      PROVE  MoneyPart'
  BY <1>3 DEF MoneyPart
<1>4. CASE toolCalls' = toolCalls /\ Promised' = Promised /\ ~StartCall(p)
  <2>1. Spent(X)'
    BY <1>1, <1>4, SpentStays
  <2> QED
    BY <1>1, <1>2, <1>3, <1>4, <2>1
<1>5. CASE p \in Executions /\ Reserve(p)
  <2>1. /\ ~ActiveCall(target[p]) /\ toolCalls' = toolCalls + Planned(p).charge
        /\ reservation' = [reservation EXCEPT ![target[p]] = Planned(p)]
    BY <1>5 DEF Reserve, Planned, Admissible
  <2>2. ~StartCall(p)
    BY <1>5 DEF Reserve, StartCall
  <2>3. Spent(X)'
    BY <1>1, <2>2, SpentStays
  <2>4. CASE Planned(p).charge = 1
    <3>1. Promised' = Promised \cup {target[p]} /\ target[p] \notin Promised
      BY <1>2, <2>1, <2>4, PlannedFields DEF Promised, ActiveCall, BudgetTypeOK
    <3>2. IsFiniteSet(Promised') /\ Cardinality(Promised') = Cardinality(Promised) + 1
      BY <1>2, <3>1, FS_AddElement
    <3>3. toolCalls' = toolCalls + 1
      BY <2>1, <2>4
    <3> QED
      BY <1>1, <1>2, <1>3, <2>3, <3>2, <3>3
  <2>5. CASE Planned(p).charge = 0
    <3>1. Promised' = Promised
      BY <1>2, <2>1, <2>5, PlannedFields DEF Promised, ActiveCall, BudgetTypeOK
    <3>2. toolCalls' = toolCalls
      BY <1>2, <2>1, <2>5
    <3> QED
      BY <1>1, <1>2, <1>3, <2>3, <3>1, <3>2
  <2> QED
    BY <2>4, <2>5, PlannedFields
<1>6. CASE p \in Executions /\ StartCall(p)
  <2>1. /\ toolCalls' = toolCalls /\ reservation[target[p]].status = "reserved"
        /\ reservation' = [reservation EXCEPT ![target[p]] =
                              [reservation[target[p]] EXCEPT !.status = "started"]]
    BY <1>6 DEF StartCall, Startable, Mine
  <2>2. PICK t \in Calls : t = target[p]
    BY <1>2
  <2> DEFINE Y == X \cup {t}
  <2>3. Y \in SUBSET Calls /\ IsFiniteSet(Y) /\ Cardinality(Y) <= Cardinality(X) + 1
    <3>1. CASE t \in X
      <4>1. Y = X
        BY <3>1
      <4> QED
        BY <1>1, <1>2, <4>1
    <3>2. CASE t \notin X
      <4>1. IsFiniteSet(Y) /\ Cardinality(Y) = Cardinality(X) + 1
        BY <1>1, <3>2, FS_AddElement
      <4> HIDE DEF Y
      <4>2. Cardinality(Y) <= Cardinality(X) + 1
        BY <1>2, <4>1
      <4> QED
        BY <4>1, <4>2 DEF Y
    <3> QED
      BY <3>1, <3>2
  <2>4. Spent(Y)'
    <3>1. (\A x \in X : x \in Y) /\ target[p] \in Y
      BY <2>2
    <3> HIDE DEF Y
    <3> QED
      BY <1>1, <3>1, SpentStays
  <2>5. Promised' = Promised \ {target[p]}
    BY <1>2, <2>1, StartedFields DEF Promised, BudgetTypeOK
  <2>6. CASE reservation[target[p]].charge = 1
    <3>1. target[p] \in Promised
      BY <1>2, <2>1, <2>6 DEF Promised
    <3>2. IsFiniteSet(Promised') /\ Cardinality(Promised') = Cardinality(Promised) - 1
      BY <1>2, <2>5, <3>1, FS_RemoveElement
    <3> HIDE DEF Y
    <3>3. Cardinality(Y) \in Nat
      BY <2>3, FS_CardinalityType
    <3>4. Cardinality(Y) + Cardinality(Promised') <= toolCalls'
      BY <1>1, <1>2, <2>1, <2>3, <3>2, <3>3
    <3> QED
      BY <1>2, <1>3, <2>1, <2>3, <2>4, <3>2, <3>4
  <2>7. CASE reservation[target[p]].charge = 0
    <3>1. target[p] \notin Promised /\ target[p] \in X
      BY <1>1, <1>2, <2>1, <2>7 DEF Promised, Spent, ActiveCall
    <3>2. Promised' = Promised /\ Y = X
      BY <2>5, <2>2, <3>1
    <3> HIDE DEF Y
    <3> QED
      BY <1>1, <1>2, <1>3, <2>1, <2>4, <3>2
  <2> QED
    BY <1>2, <2>6, <2>7
<1>7. CASE Uncount(p)
  <2>1. /\ stage[p] = "uncount" /\ reservation[target[p]].status = "reserved"
        /\ reservation[target[p]].attempt = held[p].attempt
        /\ toolCalls' = toolCalls - held[p].charge
        /\ reservation' = [reservation EXCEPT ![target[p]] = NoReservation]
    BY <1>7 DEF Uncount, ReleasableReservation, Mine
  <2>2. held[p].charge = reservation[target[p]].charge
    BY <2>1 DEF ChargePart, Holding
  <2>3. ~StartCall(p)
    BY <2>1 DEF StartCall
  <2>4. Spent(X)'
    BY <1>1, <2>3, SpentStays
  <2>5. Promised' = Promised \ {target[p]}
    BY <1>2, <2>1, Blank DEF Promised, BudgetTypeOK
  <2>6. CASE reservation[target[p]].charge = 1
    <3>1. target[p] \in Promised
      BY <1>2, <2>1, <2>6 DEF Promised
    <3>2. IsFiniteSet(Promised') /\ Cardinality(Promised') = Cardinality(Promised) - 1
      BY <1>2, <2>5, <3>1, FS_RemoveElement
    <3>3. toolCalls' = toolCalls - 1
      BY <2>1, <2>2, <2>6
    <3> QED
      BY <1>1, <1>2, <1>3, <2>4, <3>2, <3>3
  <2>7. CASE reservation[target[p]].charge = 0
    <3>1. Promised' = Promised
      BY <2>5, <2>7 DEF Promised
    <3>2. toolCalls' = toolCalls
      BY <1>2, <2>1, <2>2, <2>7
    <3> QED
      BY <1>1, <1>2, <1>3, <2>4, <3>1, <3>2
  <2> QED
    BY <1>2, <2>6, <2>7
<1> QED
  <2>1. StartCall(p) /\ p \notin Executions => FALSE
    BY Processes DEF StartCall, PlacePart, PlaceOf, Undoing
  <2> QED
    BY <1>4, <1>5, <1>6, <1>7, <2>1, CountMoves

(* What is reported: attempts that were called. *)

Reporting == {"calling", "settle", "count", "report", "close"}

LEMMA ReportingOfMover ==
  ASSUME NEW p \in Procs, StepOf(p), BudgetTypeOK, PlacePart, ReportPart, stage'[p] \in Reporting
  PROVE  <<target'[p], held'[p].attempt>> \in called'
<1>a. /\ PlaceOf(p) /\ target[p] \in Calls /\ held[p] \in Reservations
      /\ stage[p] \in Reporting => <<target[p], held[p].attempt>> \in called
      /\ receipt[target[p]].status \in {"settling", "completed"}
            => <<target[p], receipt[target[p]].attempt>> \in called
  BY DEF PlacePart, BudgetTypeOK, ReportPart, Reporting
<1> USE DEF Reporting
<1>1. CASE p \in Executions /\ \E c \in Calls : BeginReserve(p, c)
  BY <1>a, <1>1 DEF BeginReserve, Step, BudgetTypeOK, stateDoc
<1>2. CASE p \in Executions /\ ReadPrior(p)
  <2>1. LET x == [NoReservation EXCEPT !.attempt = receipt[target[p]].attempt]
        IN  x.attempt = receipt[target[p]].attempt
    BY DEF NoReservation
  <2> QED
    BY <1>2, <2>1, <1>a DEF ReadPrior, Step, BudgetTypeOK
<1>3. CASE p \in Executions /\ ReadPriorAgain(p)
  BY <1>a, <1>3 DEF ReadPriorAgain, Step, BudgetTypeOK, stateDoc
<1>4. CASE p \in Executions /\ ReadActiveCall(p)
  <2>1. reservation[target[p]].status \in {"none", "reserved", "started"}
    BY DEF BudgetTypeOK, Reservations
  <2> QED
    BY <1>4, <2>1 DEF ReadActiveCall, Step, BudgetTypeOK
<1>5. CASE p \in Executions /\ AlreadyInProgress(p)
  BY <1>5, <1>a, QuitRests DEF AlreadyInProgress, Throw, Rested
<1>6. CASE p \in Executions /\ Reread(p)
  BY <1>a, <1>6 DEF Reread, Step, BudgetTypeOK, stateDoc
<1>7. CASE p \in Executions /\ Admit(p)
  BY <1>a, <1>7 DEF Admit, Step, BudgetTypeOK, stateDoc
<1>8. CASE p \in Executions /\ LostFence(p)
  BY <1>8, <1>a, QuitRests DEF LostFence, Throw, Rested
<1>9. CASE p \in Executions /\ Reserve(p)
  BY <1>a, <1>9 DEF Reserve, Step, BudgetTypeOK, stateDoc
<1>10. CASE p \in Executions /\ RefuseCall(p)
  BY <1>10, <1>a, QuitRests DEF RefuseCall, Throw, Rested
<1>11. CASE p \in Executions /\ WriteReceipt(p)
  BY <1>a, <1>11 DEF WriteReceipt, Step, BudgetTypeOK, stateDoc
<1>12. CASE p \in Executions /\ VerifyAdmission(p)
  BY <1>a, <1>12 DEF VerifyAdmission, Step, BudgetTypeOK, stateDoc
<1>13. CASE p \in Executions /\ Begin(p)
  BY <1>a, <1>13 DEF Begin, Step, BudgetTypeOK, stateDoc
<1>14. CASE p \in Executions /\ StartCall(p)
  BY <1>a, <1>14 DEF StartCall, Step, BudgetTypeOK, stateDoc
<1>15. CASE p \in Executions /\ NotStartable(p)
  BY <1>15, <1>a, QuitRests DEF NotStartable, Throw, Rested
<1>16. CASE p \in Executions /\ ReceiptStarted(p)
  BY <1>a, <1>16 DEF ReceiptStarted, Step, BudgetTypeOK, stateDoc
<1>17. CASE p \in Executions /\ CheckStart(p)
  BY <1>a, <1>17 DEF CheckStart, Step, BudgetTypeOK, stateDoc
<1>18. CASE p \in Executions /\ CallReturns(p)
  BY <1>a, <1>18 DEF CallReturns, Step, BudgetTypeOK, stateDoc
<1>19. CASE p \in Executions /\ Settle(p)
  BY <1>a, <1>19 DEF Settle, Step, BudgetTypeOK, stateDoc
<1>20. CASE p \in Executions /\ SettleRefused(p)
  BY <1>20, <1>a, QuitRests DEF SettleRefused, Throw, Rested
<1>21. CASE p \in Executions /\ Count(p)
  BY <1>a, <1>21 DEF Count, Step, BudgetTypeOK, stateDoc
<1>22. CASE p \in Executions /\ CountedBefore(p)
  BY <1>22, <1>a, QuitRests DEF CountedBefore, Rested, Step, BudgetTypeOK
<1>23. CASE p \in Executions /\ Report(p)
  BY <1>a, <1>23 DEF Report, Step, BudgetTypeOK, stateDoc
<1>24. CASE p \in Executions /\ Close(p)
  BY <1>24, <1>a, ReturnGoesBack DEF Close, Rested, Returned, Step, BudgetTypeOK, Backs
<1>25. CASE MarkReleasing(p)
  BY <1>a, <1>25 DEF MarkReleasing, Step, BudgetTypeOK, stateDoc
<1>26. CASE Uncount(p)
  BY <1>a, <1>26 DEF Uncount, Step, BudgetTypeOK, stateDoc
<1>27. CASE UncountRefused(p)
  BY <1>27, <1>a, ReturnGoesBack DEF UncountRefused, Rested, Returned, Step, BudgetTypeOK, Backs
<1>28. CASE MarkReleased(p)
  BY <1>28, <1>a, ReturnGoesBack DEF MarkReleased, Rested, Returned, Step, BudgetTypeOK, Backs
<1>29. CASE MarkAbandoned(p)
  BY <1>a, <1>29 DEF MarkAbandoned, Step, BudgetTypeOK, stateDoc
<1>30. CASE DropStarted(p)
  BY <1>30, <1>a, ReturnGoesBack DEF DropStarted, Rested, Returned, Step, BudgetTypeOK, Backs
<1>31. CASE p = Sweep /\ SweepJudge
  BY <1>31, <1>a, QuitRests DEF SweepJudge, Rested, Step, BudgetTypeOK, StaleForm
<1>32. CASE p = Sweep /\ \E c \in Calls : SweepRead(c)
  BY <1>a, <1>32 DEF SweepRead, Step, BudgetTypeOK, stateDoc
<1>33. CASE p \in Executions /\ StartedBefore(p)
  BY <1>a, <1>33 DEF StartedBefore, Step, BudgetTypeOK, stateDoc
<1>34. CASE p \in Executions /\ JoinSettlement(p)
  BY <1>a, <1>34 DEF JoinSettlement, Step, BudgetTypeOK, stateDoc
<1>35. CASE p \in Executions /\ SettledBefore(p)
  BY <1>35, <1>a, QuitRests DEF SettledBefore, Rested
<1> QED
  BY <1>1, <1>2, <1>3, <1>4, <1>5, <1>6, <1>7, <1>8, <1>9, <1>10, <1>11, <1>12, <1>13, <1>14,
     <1>15, <1>16, <1>17, <1>18, <1>19, <1>20, <1>21, <1>22, <1>23, <1>24, <1>25, <1>26, <1>27,
     <1>28, <1>29, <1>30, <1>31, <1>32, <1>33, <1>34, <1>35
  DEF StepOf, CallStep, Undo

LEMMA SettlingCalled ==
  ASSUME NEW p \in Procs, StepOf(p), BudgetTypeOK, PlacePart, ReportPart,
         NEW d \in Calls, receipt'[d].status \in {"settling", "completed"}
  PROVE  <<d, receipt'[d].attempt>> \in called'
<1>a. /\ stage[p] \in Reporting => <<target[p], held[p].attempt>> \in called
      /\ receipt[d].status \in {"settling", "completed"} => <<d, receipt[d].attempt>> \in called
      /\ target[p] \in Calls /\ receipt[target[p]] \in Receipts
  BY DEF ReportPart, BudgetTypeOK, Reporting
<1> USE DEF Reporting, stateDoc
<1>1. CASE p \in Executions /\ \E c \in Calls : BeginReserve(p, c)
  BY <1>a, <1>1 DEF BeginReserve, BudgetTypeOK, SetReceipt, PutReceipt, Receipts
<1>2. CASE p \in Executions /\ ReadPrior(p)
  BY <1>a, <1>2 DEF ReadPrior, BudgetTypeOK, SetReceipt, PutReceipt, Receipts
<1>3. CASE p \in Executions /\ ReadPriorAgain(p)
  BY <1>a, <1>3 DEF ReadPriorAgain, BudgetTypeOK, SetReceipt, PutReceipt, Receipts
<1>4. CASE p \in Executions /\ ReadActiveCall(p)
  BY <1>a, <1>4 DEF ReadActiveCall, BudgetTypeOK, SetReceipt, PutReceipt, Receipts
<1>5. CASE p \in Executions /\ AlreadyInProgress(p)
  BY <1>a, <1>5 DEF AlreadyInProgress, Throw, Quit, BudgetTypeOK, SetReceipt, PutReceipt, Receipts
<1>6. CASE p \in Executions /\ Reread(p)
  BY <1>a, <1>6 DEF Reread, BudgetTypeOK, SetReceipt, PutReceipt, Receipts
<1>7. CASE p \in Executions /\ Admit(p)
  BY <1>a, <1>7 DEF Admit, BudgetTypeOK, SetReceipt, PutReceipt, Receipts
<1>8. CASE p \in Executions /\ LostFence(p)
  BY <1>a, <1>8 DEF LostFence, Throw, Quit, BudgetTypeOK, SetReceipt, PutReceipt, Receipts
<1>9. CASE p \in Executions /\ Reserve(p)
  BY <1>a, <1>9 DEF Reserve, BudgetTypeOK, SetReceipt, PutReceipt, Receipts
<1>10. CASE p \in Executions /\ RefuseCall(p)
  BY <1>a, <1>10 DEF RefuseCall, Throw, Quit, BudgetTypeOK, SetReceipt, PutReceipt, Receipts
<1>11. CASE p \in Executions /\ WriteReceipt(p)
  BY <1>a, <1>11 DEF WriteReceipt, BudgetTypeOK, SetReceipt, PutReceipt, Receipts
<1>12. CASE p \in Executions /\ VerifyAdmission(p)
  BY <1>a, <1>12 DEF VerifyAdmission, BudgetTypeOK, SetReceipt, PutReceipt, Receipts
<1>13. CASE p \in Executions /\ Begin(p)
  BY <1>a, <1>13 DEF Begin, BudgetTypeOK, SetReceipt, PutReceipt, Receipts
<1>14. CASE p \in Executions /\ StartCall(p)
  BY <1>a, <1>14 DEF StartCall, BudgetTypeOK, SetReceipt, PutReceipt, Receipts
<1>15. CASE p \in Executions /\ NotStartable(p)
  BY <1>a, <1>15 DEF NotStartable, Throw, Quit, BudgetTypeOK, SetReceipt, PutReceipt, Receipts
<1>16. CASE p \in Executions /\ ReceiptStarted(p)
  BY <1>a, <1>16 DEF ReceiptStarted, BudgetTypeOK, SetReceipt, PutReceipt, Receipts
<1>17. CASE p \in Executions /\ CheckStart(p)
  BY <1>a, <1>17 DEF CheckStart, BudgetTypeOK, SetReceipt, PutReceipt, Receipts
<1>18. CASE p \in Executions /\ CallReturns(p)
  BY <1>a, <1>18 DEF CallReturns, BudgetTypeOK, SetReceipt, PutReceipt, Receipts
<1>19. CASE p \in Executions /\ Settle(p)
  BY <1>a, <1>19 DEF Settle, BudgetTypeOK, SetReceipt, PutReceipt, Receipts
<1>20. CASE p \in Executions /\ SettleRefused(p)
  BY <1>a, <1>20 DEF SettleRefused, Throw, Quit, BudgetTypeOK, SetReceipt, PutReceipt, Receipts
<1>21. CASE p \in Executions /\ Count(p)
  BY <1>a, <1>21 DEF Count, BudgetTypeOK, SetReceipt, PutReceipt, Receipts
<1>22. CASE p \in Executions /\ CountedBefore(p)
  BY <1>a, <1>22 DEF CountedBefore, Quit, BudgetTypeOK, SetReceipt, PutReceipt, Receipts
<1>23. CASE p \in Executions /\ Report(p)
  BY <1>a, <1>23 DEF Report, BudgetTypeOK, SetReceipt, PutReceipt, Receipts
<1>24. CASE p \in Executions /\ Close(p)
  BY <1>a, <1>24 DEF Close, Return, Quit, BudgetTypeOK, SetReceipt, PutReceipt, Receipts
<1>25. CASE MarkReleasing(p)
  BY <1>a, <1>25 DEF MarkReleasing, BudgetTypeOK, SetReceipt, PutReceipt, Receipts
<1>26. CASE Uncount(p)
  BY <1>a, <1>26 DEF Uncount, BudgetTypeOK, SetReceipt, PutReceipt, Receipts
<1>27. CASE UncountRefused(p)
  BY <1>a, <1>27 DEF UncountRefused, Return, Quit, BudgetTypeOK, SetReceipt, PutReceipt, Receipts
<1>28. CASE MarkReleased(p)
  BY <1>a, <1>28 DEF MarkReleased, Return, Quit, BudgetTypeOK, SetReceipt, PutReceipt, Receipts
<1>29. CASE MarkAbandoned(p)
  BY <1>a, <1>29 DEF MarkAbandoned, BudgetTypeOK, SetReceipt, PutReceipt, Receipts
<1>30. CASE DropStarted(p)
  BY <1>a, <1>30 DEF DropStarted, Return, Quit, BudgetTypeOK, SetReceipt, PutReceipt, Receipts
<1>31. CASE p = Sweep /\ SweepJudge
  BY <1>a, <1>31 DEF SweepJudge, Quit, BudgetTypeOK, SetReceipt, PutReceipt, Receipts
<1>32. CASE p = Sweep /\ \E c \in Calls : SweepRead(c)
  BY <1>a, <1>32 DEF SweepRead, BudgetTypeOK, SetReceipt, PutReceipt, Receipts
<1>33. CASE p \in Executions /\ StartedBefore(p)
  BY <1>a, <1>33 DEF StartedBefore, BudgetTypeOK, SetReceipt, PutReceipt, Receipts
<1>34. CASE p \in Executions /\ JoinSettlement(p)
  BY <1>a, <1>34 DEF JoinSettlement, BudgetTypeOK, SetReceipt, PutReceipt, Receipts
<1>35. CASE p \in Executions /\ SettledBefore(p)
  BY <1>a, <1>35 DEF SettledBefore, Quit, BudgetTypeOK, SetReceipt, PutReceipt, Receipts
<1> QED
  BY <1>1, <1>2, <1>3, <1>4, <1>5, <1>6, <1>7, <1>8, <1>9, <1>10, <1>11, <1>12, <1>13, <1>14,
     <1>15, <1>16, <1>17, <1>18, <1>19, <1>20, <1>21, <1>22, <1>23, <1>24, <1>25, <1>26, <1>27,
     <1>28, <1>29, <1>30, <1>31, <1>32, <1>33, <1>34, <1>35
  DEF StepOf, CallStep, Undo

LEMMA UsageMoves ==
  ASSUME NEW p \in Procs, StepOf(p), BudgetTypeOK, PlacePart, ReportPart
  PROVE  /\ telemetry' \subseteq called'
         /\ usage' = usage \/ (p \in Executions /\ Count(p))
<1>a. /\ telemetry \subseteq called
      /\ stage[p] \in {"settle", "report"} => <<target[p], held[p].attempt>> \in called
  BY DEF ReportPart
<1>1. CASE p \in Executions /\ \E c \in Calls : BeginReserve(p, c)
  BY <1>a, <1>1 DEF BeginReserve, stateDoc
<1>2. CASE p \in Executions /\ ReadPrior(p)
  BY <1>a, <1>2 DEF ReadPrior, stateDoc
<1>3. CASE p \in Executions /\ ReadPriorAgain(p)
  BY <1>a, <1>3 DEF ReadPriorAgain, stateDoc
<1>4. CASE p \in Executions /\ ReadActiveCall(p)
  BY <1>a, <1>4 DEF ReadActiveCall, stateDoc
<1>5. CASE p \in Executions /\ AlreadyInProgress(p)
  BY <1>a, <1>5 DEF AlreadyInProgress, Throw, Quit, stateDoc
<1>6. CASE p \in Executions /\ Reread(p)
  BY <1>a, <1>6 DEF Reread, stateDoc
<1>7. CASE p \in Executions /\ Admit(p)
  BY <1>a, <1>7 DEF Admit, stateDoc
<1>8. CASE p \in Executions /\ LostFence(p)
  BY <1>a, <1>8 DEF LostFence, Throw, Quit, stateDoc
<1>9. CASE p \in Executions /\ Reserve(p)
  BY <1>a, <1>9 DEF Reserve, stateDoc
<1>10. CASE p \in Executions /\ RefuseCall(p)
  BY <1>a, <1>10 DEF RefuseCall, Throw, Quit, stateDoc
<1>11. CASE p \in Executions /\ WriteReceipt(p)
  BY <1>a, <1>11 DEF WriteReceipt, stateDoc
<1>12. CASE p \in Executions /\ VerifyAdmission(p)
  BY <1>a, <1>12 DEF VerifyAdmission, stateDoc
<1>13. CASE p \in Executions /\ Begin(p)
  BY <1>a, <1>13 DEF Begin, stateDoc
<1>14. CASE p \in Executions /\ StartCall(p)
  BY <1>a, <1>14 DEF StartCall, stateDoc
<1>15. CASE p \in Executions /\ NotStartable(p)
  BY <1>a, <1>15 DEF NotStartable, Throw, Quit, stateDoc
<1>16. CASE p \in Executions /\ ReceiptStarted(p)
  BY <1>a, <1>16 DEF ReceiptStarted, stateDoc
<1>17. CASE p \in Executions /\ CheckStart(p)
  BY <1>a, <1>17 DEF CheckStart, stateDoc
<1>18. CASE p \in Executions /\ CallReturns(p)
  BY <1>a, <1>18 DEF CallReturns, stateDoc
<1>19. CASE p \in Executions /\ Settle(p)
  BY <1>a, <1>19 DEF Settle, stateDoc
<1>20. CASE p \in Executions /\ SettleRefused(p)
  BY <1>a, <1>20 DEF SettleRefused, Throw, Quit, stateDoc
<1>21. CASE p \in Executions /\ Count(p)
  BY <1>a, <1>21 DEF Count, stateDoc
<1>22. CASE p \in Executions /\ CountedBefore(p)
  BY <1>a, <1>22 DEF CountedBefore, Quit, stateDoc
<1>23. CASE p \in Executions /\ Report(p)
  BY <1>a, <1>23 DEF Report, Contribution, stateDoc
<1>24. CASE p \in Executions /\ Close(p)
  BY <1>a, <1>24 DEF Close, Return, Quit, stateDoc
<1>25. CASE MarkReleasing(p)
  BY <1>a, <1>25 DEF MarkReleasing, stateDoc
<1>26. CASE Uncount(p)
  BY <1>a, <1>26 DEF Uncount, stateDoc
<1>27. CASE UncountRefused(p)
  BY <1>a, <1>27 DEF UncountRefused, Return, Quit, stateDoc
<1>28. CASE MarkReleased(p)
  BY <1>a, <1>28 DEF MarkReleased, Return, Quit, stateDoc
<1>29. CASE MarkAbandoned(p)
  BY <1>a, <1>29 DEF MarkAbandoned, stateDoc
<1>30. CASE DropStarted(p)
  BY <1>a, <1>30 DEF DropStarted, Return, Quit, stateDoc
<1>31. CASE p = Sweep /\ SweepJudge
  BY <1>a, <1>31 DEF SweepJudge, Quit, stateDoc
<1>32. CASE p = Sweep /\ \E c \in Calls : SweepRead(c)
  BY <1>a, <1>32 DEF SweepRead, stateDoc
<1>33. CASE p \in Executions /\ StartedBefore(p)
  BY <1>a, <1>33 DEF StartedBefore, stateDoc
<1>34. CASE p \in Executions /\ JoinSettlement(p)
  BY <1>a, <1>34 DEF JoinSettlement, stateDoc
<1>35. CASE p \in Executions /\ SettledBefore(p)
  BY <1>a, <1>35 DEF SettledBefore, Contribution, Quit, stateDoc
<1> QED
  BY <1>1, <1>2, <1>3, <1>4, <1>5, <1>6, <1>7, <1>8, <1>9, <1>10, <1>11, <1>12, <1>13, <1>14,
     <1>15, <1>16, <1>17, <1>18, <1>19, <1>20, <1>21, <1>22, <1>23, <1>24, <1>25, <1>26, <1>27,
     <1>28, <1>29, <1>30, <1>31, <1>32, <1>33, <1>34, <1>35
  DEF StepOf, CallStep, Undo

LEMMA ReportKept ==
  ASSUME NEW p \in Procs, StepOf(p), BudgetTypeOK, PlacePart, ReportPart
  PROVE  ReportPart'
<1>1. ASSUME NEW q \in Procs, stage'[q] \in Reporting
      PROVE  <<target'[q], held'[q].attempt>> \in called'
  <2>1. CASE q = p
    BY <1>1, <2>1, ReportingOfMover
  <2>2. CASE q # p
    <3>1. Same(q)
      BY <2>2, OthersStay
    <3>2. <<target[q], held[q].attempt>> \in called
      BY <1>1, <3>1 DEF Same, ReportPart, Reporting
    <3> QED
      BY <3>1, <3>2, CallsMade DEF Same
  <2> QED
    BY <2>1, <2>2
<1> QED
  BY <1>1, UsageMoves, SettlingCalled DEF ReportPart, Reporting

(* What is counted: once for each attempt that was called. *)

LEMMA CalledKept ==
  ASSUME NEW p \in Procs, StepOf(p), BudgetTypeOK, PlacePart, DocPart, FirstPart, SecondPart,
         ReportPart, CalledPart, NewPart, AtMostTwo
  PROVE  CalledPart'
<1>1. IsFiniteSet(called')
  <2>1. IsFiniteSet(called)
    BY DEF CalledPart
  <2>2. IsFiniteSet(called \cup {<<target[p], held[p].attempt>>})
    BY <2>1, FS_AddElement
  <2> QED
    BY <2>1, <2>2, CallsMade
<1>2. ASSUME NEW x \in called \ Going PROVE x \in called' \ Going'
  <2>1. x[1] \in Calls /\ x = <<x[1], x[2]>> /\ x \in called'
    BY CallsMade DEF BudgetTypeOK
  <2>2. PICK c \in Calls : c = x[1]
    BY <2>1
  <2>3. ~(reservation[c].status = "started" /\ reservation[c].attempt = x[2])
    BY <2>2 DEF Going
  <2>4. ~(reservation'[c].status = "started" /\ reservation'[c].attempt = x[2])
    <3>1. CASE reservation'[c] = NoReservation
      BY <3>1, Blank
    <3>2. CASE /\ c = target[p] /\ p \in Executions /\ StartCall(p)
               /\ reservation[c].attempt = held[p].attempt
               /\ reservation'[c] = [reservation[c] EXCEPT !.status = "started"]
      <4>1. stage[p] = "start" /\ (p = 1 \/ p = 2)
        BY <3>2, TwoExecutions, Processes DEF StartCall
      <4>2. <<target[p], held[p].attempt>> \notin called
        BY <3>2, <4>1 DEF NewPart, FirstPart, Own
      <4>3. reservation'[c].attempt = held[p].attempt
        BY <3>2, StartedFields DEF BudgetTypeOK
      <4> QED
        BY <2>1, <2>2, <3>2, <4>2, <4>3
    <3>3. CASE reservation'[c] = Planned(p)
      BY <3>3, PlannedFields
    <3> QED
      BY <2>3, <3>1, <3>2, <3>3, ActiveMoves
  <2> QED
    BY <2>1, <2>2, <2>4 DEF Going
<1>3. usage' <= Cardinality(called' \ Going')
  <2> DEFINE A == called \ Going
             B == called' \ Going'
  <2>1. IsFiniteSet(A) /\ IsFiniteSet(B) /\ A \subseteq B
    BY <1>1, <1>2, FS_Subset DEF CalledPart
  <2>2. usage <= Cardinality(A) /\ usage \in Nat
    BY DEF CalledPart, BudgetTypeOK
  <2>3. ASSUME Count(p), p \in Executions
        PROVE  usage' = usage + 1 /\ \E x \in B : x \notin A
    <3>1. PICK c \in Calls : c = target[p]
      BY DEF BudgetTypeOK
    <3>2. PICK a : a = held[p].attempt
      OBVIOUS
    <3>3. <<c, a>> \in called /\ called' = called
      BY <2>3, <3>1, <3>2 DEF Count, ReportPart
    <3>4. <<c, a>> \in Going
      BY <2>3, <3>1, <3>2, <3>3 DEF Count, Countable, Mine, Going
    <3>5. reservation'[c] = NoReservation /\ usage' = usage + 1
      BY <2>3, <3>1 DEF Count, BudgetTypeOK
    <3>6. <<c, a>> \notin Going'
      BY <3>5, Blank DEF Going
    <3> QED
      BY <3>3, <3>4, <3>5, <3>6
  <2> HIDE DEF A, B
  <2>4. Cardinality(A) \in Nat /\ Cardinality(B) \in Nat /\ Cardinality(A) <= Cardinality(B)
    BY <2>1, FS_Subset, FS_CardinalityType
  <2>5. CASE usage' = usage
    BY <2>2, <2>4, <2>5 DEF B
  <2>6. CASE Count(p) /\ p \in Executions
    <3>1. PICK x \in B : x \notin A
      BY <2>3, <2>6
    <3>2. IsFiniteSet(A \cup {x}) /\ Cardinality(A \cup {x}) = Cardinality(A) + 1
      BY <2>1, <3>1, FS_AddElement
    <3>3. A \cup {x} \subseteq B
      BY <2>1, <3>1
    <3>4. Cardinality(A \cup {x}) <= Cardinality(B)
      BY <2>1, <3>3, FS_Subset
    <3>5. usage' <= Cardinality(B)
      BY <2>2, <2>3, <2>4, <2>6, <3>2, <3>4
    <3> QED
      BY <3>5 DEF B
  <2> QED
    BY <2>5, <2>6, UsageMoves
<1> QED
  BY <1>1, <1>3 DEF CalledPart

(* An attempt is called once: it is new while an execution is on the way to its call. *)

NewToFirst == stage[1] = "start" \/ (current = 1 /\ stage[1] \in {"receipt", "verify", "begin"})

NewToSecond(e) ==
    \/ stage[e] \in {"admit", "reserve"} /\ prior[e].attempt = 0
    \/ stage[e] \in {"receipt", "verify", "begin"} \cup Started /\ held[e].attempt = 1

ToStart == {"receipt", "verify", "begin", "start"}

LEMMA WayOfFirst ==
  ASSUME NEW p \in Procs, StepOf(p), p = 1, BudgetTypeOK, PlacePart
  PROVE  /\ NewToFirst' => /\ NewToFirst \/ (stage[p] = "reserve" /\ current = 1)
                           /\ target'[p] = target[p]
         /\ stage'[p] \in Started => (stage[p] \in Started /\ target'[p] = target[p]) \/ current = 1
<1>a. p # Sweep /\ PlaceOf(p) /\ current' = current
  BY Processes, CurrentStays DEF PlacePart
<1> USE DEF NewToFirst, Started
<1>1. CASE p \in Executions /\ \E c \in Calls : BeginReserve(p, c)
  BY <1>a, <1>1 DEF BeginReserve, Step, BudgetTypeOK, Fence
<1>2. CASE p \in Executions /\ ReadPrior(p)
  BY <1>a, <1>2 DEF ReadPrior, Step, BudgetTypeOK, Fence
<1>3. CASE p \in Executions /\ ReadPriorAgain(p)
  BY <1>a, <1>3 DEF ReadPriorAgain, Step, BudgetTypeOK, Fence
<1>4. CASE p \in Executions /\ ReadActiveCall(p)
  <2>1. reservation[target[p]].status \in {"none", "reserved", "started"}
    BY DEF BudgetTypeOK, Reservations
  <2> QED
    BY <1>4, <2>1 DEF ReadActiveCall, Step, BudgetTypeOK
<1>5. CASE p \in Executions /\ AlreadyInProgress(p)
  BY <1>5, <1>a, QuitRests DEF AlreadyInProgress, Throw, Rested
<1>6. CASE p \in Executions /\ Reread(p)
  BY <1>a, <1>6 DEF Reread, Step, BudgetTypeOK, Fence
<1>7. CASE p \in Executions /\ Admit(p)
  BY <1>a, <1>7 DEF Admit, Step, BudgetTypeOK, Fence
<1>8. CASE p \in Executions /\ LostFence(p)
  BY <1>8, <1>a, QuitRests DEF LostFence, Throw, Rested
<1>9. CASE p \in Executions /\ Reserve(p)
  BY <1>a, <1>9 DEF Reserve, Step, BudgetTypeOK, Fence
<1>10. CASE p \in Executions /\ RefuseCall(p)
  BY <1>10, <1>a, QuitRests DEF RefuseCall, Throw, Rested
<1>11. CASE p \in Executions /\ WriteReceipt(p)
  BY <1>a, <1>11 DEF WriteReceipt, Step, BudgetTypeOK, Fence
<1>12. CASE p \in Executions /\ VerifyAdmission(p)
  BY <1>12, <1>a DEF VerifyAdmission, Fence, Step, BudgetTypeOK
<1>13. CASE p \in Executions /\ Begin(p)
  BY <1>a, <1>13 DEF Begin, Step, BudgetTypeOK, Fence
<1>14. CASE p \in Executions /\ StartCall(p)
  BY <1>a, <1>14 DEF StartCall, Step, BudgetTypeOK, Fence
<1>15. CASE p \in Executions /\ NotStartable(p)
  BY <1>15, <1>a, QuitRests DEF NotStartable, Throw, Rested
<1>16. CASE p \in Executions /\ ReceiptStarted(p)
  BY <1>a, <1>16 DEF ReceiptStarted, Step, BudgetTypeOK, Fence
<1>17. CASE p \in Executions /\ CheckStart(p)
  BY <1>a, <1>17 DEF CheckStart, Step, BudgetTypeOK, Fence
<1>18. CASE p \in Executions /\ CallReturns(p)
  BY <1>a, <1>18 DEF CallReturns, Step, BudgetTypeOK, Fence
<1>19. CASE p \in Executions /\ Settle(p)
  BY <1>a, <1>19 DEF Settle, Step, BudgetTypeOK, Fence
<1>20. CASE p \in Executions /\ SettleRefused(p)
  BY <1>20, <1>a, QuitRests DEF SettleRefused, Throw, Rested
<1>21. CASE p \in Executions /\ Count(p)
  BY <1>a, <1>21 DEF Count, Step, BudgetTypeOK, Fence
<1>22. CASE p \in Executions /\ CountedBefore(p)
  BY <1>22, <1>a, QuitRests DEF CountedBefore, Rested, Step, BudgetTypeOK
<1>23. CASE p \in Executions /\ Report(p)
  BY <1>a, <1>23 DEF Report, Step, BudgetTypeOK, Fence
<1>24. CASE p \in Executions /\ Close(p)
  BY <1>24, <1>a, ReturnGoesBack DEF Close, Rested, Returned, Step, BudgetTypeOK, Backs, PlaceOf
<1>25. CASE MarkReleasing(p)
  BY <1>a, <1>25 DEF MarkReleasing, Step, BudgetTypeOK, Fence
<1>26. CASE Uncount(p)
  BY <1>a, <1>26 DEF Uncount, Step, BudgetTypeOK, Fence
<1>27. CASE UncountRefused(p)
  BY <1>27, <1>a, ReturnGoesBack
  DEF UncountRefused, Rested, Returned, Step, BudgetTypeOK, Backs, PlaceOf
<1>28. CASE MarkReleased(p)
  BY <1>28, <1>a, ReturnGoesBack
  DEF MarkReleased, Rested, Returned, Step, BudgetTypeOK, Backs, PlaceOf
<1>29. CASE MarkAbandoned(p)
  BY <1>a, <1>29 DEF MarkAbandoned, Step, BudgetTypeOK, Fence
<1>30. CASE DropStarted(p)
  BY <1>30, <1>a, ReturnGoesBack
  DEF DropStarted, Rested, Returned, Step, BudgetTypeOK, Backs, PlaceOf
<1>31. CASE p = Sweep /\ SweepJudge
  BY <1>31, <1>a
<1>32. CASE p = Sweep /\ \E c \in Calls : SweepRead(c)
  BY <1>32, <1>a
<1>33. CASE p \in Executions /\ StartedBefore(p)
  BY <1>a, <1>33 DEF StartedBefore, Step, BudgetTypeOK, Fence
<1>34. CASE p \in Executions /\ JoinSettlement(p)
  BY <1>a, <1>34 DEF JoinSettlement, Step, BudgetTypeOK, Fence
<1>35. CASE p \in Executions /\ SettledBefore(p)
  BY <1>35, <1>a, QuitRests DEF SettledBefore, Rested
<1> QED
  BY <1>1, <1>2, <1>3, <1>4, <1>5, <1>6, <1>7, <1>8, <1>9, <1>10, <1>11, <1>12, <1>13, <1>14,
     <1>15, <1>16, <1>17, <1>18, <1>19, <1>20, <1>21, <1>22, <1>23, <1>24, <1>25, <1>26, <1>27,
     <1>28, <1>29, <1>30, <1>31, <1>32, <1>33, <1>34, <1>35
  DEF StepOf, CallStep, Undo

LEMMA WayOfSecond ==
  ASSUME NEW p \in Procs, StepOf(p), p = 2, BudgetTypeOK, PlacePart, DocPart, FirstPart, SecondPart,
         AtMostTwo
  PROVE  /\ NewToSecond(p)' => /\ NewToSecond(p) \/ receipt[target[p]].attempt = 0
                               /\ target'[p] = target[p]
         /\ stage'[p] \in ToStart =>
               /\ target'[p] = target[p]
               /\ \/ stage[p] \in ToStart /\ held'[p].attempt = held[p].attempt
                  \/ Reserve(p) /\ held'[p].attempt = Planned(p).attempt
<1>t. target[p] \in Calls /\ held[p] \in Reservations
  BY DEF BudgetTypeOK
<1>a. /\ p # Sweep /\ PlaceOf(p) /\ held[p] \in Reservations
      /\ KnowsReceipt(p) => receipt[target[p]].attempt # 0
      /\ receipt[target[p]].status = "none" => receipt[target[p]].attempt = 0
  BY <1>t, Processes DEF PlacePart, DocPart, Sweep
<1> USE DEF NewToSecond, Started, ToStart, KnowsReceipt
<1>1. CASE p \in Executions /\ \E c \in Calls : BeginReserve(p, c)
  BY <1>1, <1>a DEF BeginReserve, Step, BudgetTypeOK
<1>2. CASE p \in Executions /\ ReadPrior(p)
  BY <1>a, <1>2 DEF ReadPrior, Step, BudgetTypeOK
<1>3. CASE p \in Executions /\ ReadPriorAgain(p)
  BY <1>a, <1>3 DEF ReadPriorAgain, Step, BudgetTypeOK
<1>4. CASE p \in Executions /\ ReadActiveCall(p)
  <2>1. reservation[target[p]].status \in {"none", "reserved", "started"}
    BY DEF BudgetTypeOK, Reservations
  <2> QED
    BY <1>4, <2>1 DEF ReadActiveCall, Step, BudgetTypeOK
<1>5. CASE p \in Executions /\ AlreadyInProgress(p)
  BY <1>5, <1>a, QuitRests DEF AlreadyInProgress, Throw, Rested
<1>6. CASE p \in Executions /\ Reread(p)
  BY <1>a, <1>6 DEF Reread, Step, BudgetTypeOK
<1>7. CASE p \in Executions /\ Admit(p)
  BY <1>a, <1>7 DEF Admit, Step, BudgetTypeOK
<1>8. CASE p \in Executions /\ LostFence(p)
  BY <1>8, <1>a, QuitRests DEF LostFence, Throw, Rested
<1>9. CASE p \in Executions /\ Reserve(p)
  <2>1. /\ stage'[p] = "receipt" /\ stage[p] = "reserve" /\ target'[p] = target[p]
        /\ held'[p] = Planned(p)
    BY <1>9 DEF Reserve, Planned, Step, BudgetTypeOK
  <2>2. Planned(p).attempt = 1 <=> prior[p].attempt = 0
    BY <1>9, ReservedAttempt
  <2> QED
    BY <1>9, <2>1, <2>2
<1>10. CASE p \in Executions /\ RefuseCall(p)
  BY <1>10, <1>a, QuitRests DEF RefuseCall, Throw, Rested
<1>11. CASE p \in Executions /\ WriteReceipt(p)
  BY <1>a, <1>11 DEF WriteReceipt, Step, BudgetTypeOK
<1>12. CASE p \in Executions /\ VerifyAdmission(p)
  BY <1>a, <1>12 DEF VerifyAdmission, Step, BudgetTypeOK
<1>13. CASE p \in Executions /\ Begin(p)
  BY <1>a, <1>13 DEF Begin, Step, BudgetTypeOK
<1>14. CASE p \in Executions /\ StartCall(p)
  BY <1>14, <1>a, StartedFields DEF StartCall, Step, BudgetTypeOK
<1>15. CASE p \in Executions /\ NotStartable(p)
  BY <1>15, <1>a, QuitRests DEF NotStartable, Throw, Rested
<1>16. CASE p \in Executions /\ ReceiptStarted(p)
  BY <1>a, <1>16 DEF ReceiptStarted, Step, BudgetTypeOK
<1>17. CASE p \in Executions /\ CheckStart(p)
  BY <1>a, <1>17 DEF CheckStart, Step, BudgetTypeOK
<1>18. CASE p \in Executions /\ CallReturns(p)
  BY <1>a, <1>18 DEF CallReturns, Step, BudgetTypeOK
<1>19. CASE p \in Executions /\ Settle(p)
  BY <1>a, <1>19 DEF Settle, Step, BudgetTypeOK
<1>20. CASE p \in Executions /\ SettleRefused(p)
  BY <1>20, <1>a, QuitRests DEF SettleRefused, Throw, Rested
<1>21. CASE p \in Executions /\ Count(p)
  BY <1>a, <1>21 DEF Count, Step, BudgetTypeOK
<1>22. CASE p \in Executions /\ CountedBefore(p)
  BY <1>22, <1>a, QuitRests DEF CountedBefore, Rested, Step, BudgetTypeOK
<1>23. CASE p \in Executions /\ Report(p)
  BY <1>a, <1>23 DEF Report, Step, BudgetTypeOK
<1>24. CASE p \in Executions /\ Close(p)
  BY <1>24, <1>a, ReturnGoesBack DEF Close, Rested, Returned, Step, BudgetTypeOK, Backs, PlaceOf
<1>25. CASE MarkReleasing(p)
  BY <1>a, <1>25 DEF MarkReleasing, Step, BudgetTypeOK
<1>26. CASE Uncount(p)
  BY <1>a, <1>26 DEF Uncount, Step, BudgetTypeOK
<1>27. CASE UncountRefused(p)
  BY <1>27, <1>a, ReturnGoesBack
  DEF UncountRefused, Rested, Returned, Step, BudgetTypeOK, Backs, PlaceOf
<1>28. CASE MarkReleased(p)
  BY <1>28, <1>a, ReturnGoesBack
  DEF MarkReleased, Rested, Returned, Step, BudgetTypeOK, Backs, PlaceOf
<1>29. CASE MarkAbandoned(p)
  BY <1>a, <1>29 DEF MarkAbandoned, Step, BudgetTypeOK
<1>30. CASE DropStarted(p)
  BY <1>30, <1>a, ReturnGoesBack
  DEF DropStarted, Rested, Returned, Step, BudgetTypeOK, Backs, PlaceOf
<1>31. CASE p = Sweep /\ SweepJudge
  BY <1>31, <1>a
<1>32. CASE p = Sweep /\ \E c \in Calls : SweepRead(c)
  BY <1>32, <1>a
<1>33. CASE p \in Executions /\ StartedBefore(p)
  BY <1>a, <1>33 DEF StartedBefore, Step, BudgetTypeOK
<1>34. CASE p \in Executions /\ JoinSettlement(p)
  BY <1>a, <1>34 DEF JoinSettlement, Step, BudgetTypeOK
<1>35. CASE p \in Executions /\ SettledBefore(p)
  BY <1>35, <1>a, QuitRests DEF SettledBefore, Rested
<1> QED
  BY <1>1, <1>2, <1>3, <1>4, <1>5, <1>6, <1>7, <1>8, <1>9, <1>10, <1>11, <1>12, <1>13, <1>14,
     <1>15, <1>16, <1>17, <1>18, <1>19, <1>20, <1>21, <1>22, <1>23, <1>24, <1>25, <1>26, <1>27,
     <1>28, <1>29, <1>30, <1>31, <1>32, <1>33, <1>34, <1>35
  DEF StepOf, CallStep, Undo

\* While attempts are apart, no execution finds that another one is at its attempt.
LEMMA NoSharing ==
  ASSUME NEW p \in Executions, ApartPart
  PROVE  ~StartedBefore(p) /\ ~JoinSettlement(p) /\ ~SettledBefore(p)
BY DEF ApartPart, AtCall, StartedBefore, JoinSettlement, SettledBefore

LEMMA NewKept ==
  ASSUME NEW p \in Procs, StepOf(p), BudgetTypeOK, PlacePart, DocPart, FirstPart, SecondPart,
         NewPart, ApartPart, AtMostTwo
  PROVE  NewPart'
<1>1. /\ 1 \in Procs /\ 1 \in Executions /\ 1 # Sweep /\ current' = current
      /\ \A e \in Executions : e \in Procs /\ e # Sweep
      /\ p = Sweep \/ p = 1 \/ (p = 2 /\ p \in Executions)
  BY Processes, CurrentStays, TwoExecutions
<1>0. \/ called' = called
      \/ /\ p \in Executions /\ stage[p] = "check" /\ stage'[p] = "calling"
         /\ called' = called \cup {<<target[p], held[p].attempt>>}
  BY CallsMade, NoSharing
<1>2. /\ NewToFirst => <<target[1], 1>> \notin called
      /\ \A e \in Executions : e = 2 /\ NewToSecond(e) =>
            <<target[e], 1>> \notin called /\ (stage[1] \in Started => target[1] # target[e])
      /\ \A e \in Executions : e = 2 /\ stage[e] \in ToStart =>
            <<target[e], held[e].attempt>> \notin called
  BY DEF NewPart, NewToFirst, NewToSecond, ToStart
<1>3. \A q \in Procs : target[q] \in Calls
  BY DEF BudgetTypeOK
<1>4. ASSUME NewToFirst' PROVE <<target'[1], 1>> \notin called'
  <2>1. CASE p = 1
    <3>1. target'[1] = target[1] /\ (NewToFirst \/ (stage[1] = "reserve" /\ current = 1))
      BY <1>4, <2>1, WayOfFirst
    <3>2. <<target[1], 1>> \notin called
      <4>1. CASE stage[1] = "reserve" /\ current = 1
        <5>1. receipt[target[1]].attempt = 0
          BY <4>1 DEF FirstPart, FirstAlone, Looking
        <5> QED
          BY <5>1 DEF DocPart
      <4> QED
        BY <1>2, <3>1, <4>1
    <3>3. called' = called
      <4>1. stage'[p] # "calling"
        BY <1>4, <2>1 DEF NewToFirst
      <4> QED
        BY <1>0, <4>1
    <3> QED
      BY <3>1, <3>2, <3>3
  <2>2. CASE p # 1
    <3>1. Same(1)
      BY <1>1, <2>2, OthersStay
    <3>2. NewToFirst /\ target'[1] = target[1] /\ <<target[1], 1>> \notin called
      BY <1>1, <1>2, <1>4, <3>1 DEF NewToFirst, Same
    <3>3. ASSUME called' = called \cup {<<target[p], held[p].attempt>>}, stage[p] = "check",
                 p \in Executions
          PROVE  <<target[p], held[p].attempt>> # <<target[1], 1>>
      <4>1. p = 2 /\ current # 1
        <5>1. p = 2 /\ ~(p > current)
          BY <1>1, <2>2, <3>3, TriedGrows
        <5> QED
          BY <5>1
      <4>2. stage[1] \in Started
        BY <3>2, <4>1 DEF NewToFirst, Started
      <4>3. held[p].attempt = 1 => target[1] # target[p]
        BY <1>2, <3>3, <4>1, <4>2 DEF NewToSecond, Started
      <4> QED
        BY <4>3
    <3> QED
      BY <1>0, <3>2, <3>3
  <2> QED
    BY <2>1, <2>2
<1>5. ASSUME NEW e \in Executions, e = 2, NewToSecond(e)'
      PROVE  /\ <<target'[e], 1>> \notin called'
             /\ stage'[1] \in Started => target'[1] # target'[e]
  <2>1. CASE p = e
    <3>1. target'[e] = target[e] /\ (NewToSecond(e) \/ receipt[target[e]].attempt = 0)
      BY <1>5, <2>1, WayOfSecond
    <3>2. Same(1)
      BY <1>1, <1>5, <2>1, OthersStay
    <3>3. <<target[e], 1>> \notin called /\ (stage[1] \in Started => target[1] # target[e])
      <4>1. CASE receipt[target[e]].attempt = 0
        BY <1>1, <4>1 DEF DocPart, KnowsReceipt, Started
      <4> QED
        BY <1>2, <1>5, <3>1, <4>1
    <3>4. called' = called
      <4>1. stage'[p] # "calling"
        BY <1>5, <2>1 DEF NewToSecond, Started
      <4> QED
        BY <1>0, <4>1
    <3> QED
      BY <3>1, <3>2, <3>3, <3>4 DEF Same
  <2>2. CASE p # e
    <3>1. Same(e) /\ NewToSecond(e)
      <4>1. Same(e)
        BY <1>1, <2>2, OthersStay
      <4> QED
        BY <1>5, <4>1 DEF Same, NewToSecond
    <3>2. <<target[e], 1>> \notin called /\ (stage[1] \in Started => target[1] # target[e])
      BY <1>2, <1>5, <3>1
    <3>3. stage[e] # "idle" /\ current # 1
      <4>1. stage[e] # "idle"
        BY <3>1 DEF NewToSecond, Started
      <4>2. ~(e > current)
        BY <4>1 DEF PlacePart
      <4> QED
        BY <1>5, <4>1, <4>2
    <3>4. CASE p = 1
      <4>1. stage'[1] \in Started => stage[1] \in Started /\ target'[1] = target[1]
        BY <3>3, <3>4, WayOfFirst
      <4>2. ASSUME stage[p] = "check" PROVE <<target[p], held[p].attempt>> # <<target[e], 1>>
        BY <3>2, <3>4, <4>2 DEF Started
      <4> QED
        BY <1>0, <3>1, <3>2, <4>1, <4>2 DEF Same
    <3>5. CASE p = Sweep
      <4>1. Same(1) /\ p \notin Executions
        BY <1>1, <3>5, OthersStay, Processes
      <4> QED
        BY <1>0, <3>1, <3>2, <4>1 DEF Same
    <3> QED
      BY <1>1, <1>5, <2>2, <3>4, <3>5
  <2> QED
    BY <2>1, <2>2
<1>6. ASSUME NEW e \in Executions, e = 2, stage'[e] \in ToStart
      PROVE  <<target'[e], held'[e].attempt>> \notin called'
  <2>1. CASE p = e
    <3>1. /\ target'[e] = target[e]
          /\ \/ stage[e] \in ToStart /\ held'[e].attempt = held[e].attempt
             \/ Reserve(e) /\ held'[e].attempt = Planned(e).attempt
      BY <1>6, <2>1, WayOfSecond
    <3>2. called' = called
      <4>1. stage'[p] # "calling"
        BY <1>6, <2>1 DEF ToStart
      <4> QED
        BY <1>0, <4>1
    <3>3. CASE Reserve(e) /\ held'[e].attempt = Planned(e).attempt
      <4>1. CASE Planned(e).attempt = 1
        <5>1. prior[e].attempt = 0 /\ stage[e] = "reserve"
          BY <3>3, <4>1, ReservedAttempt DEF Reserve
        <5>2. <<target[e], 1>> \notin called
          BY <1>2, <1>6, <5>1 DEF NewToSecond
        <5> QED
          BY <3>1, <3>2, <3>3, <4>1, <5>2
      <4>2. CASE Planned(e).attempt = 2 /\ ~Second(target[e])
        <5>1. <<target[e], 2>> \notin called
          BY <1>1, <1>3, <4>2 DEF SecondPart
        <5> QED
          BY <3>1, <3>2, <3>3, <4>2, <5>1
      <4> QED
        BY <3>3, <4>1, <4>2, ReservedAttempt
    <3> QED
      BY <1>2, <1>6, <3>1, <3>2, <3>3
  <2>2. CASE p # e
    <3>1. Same(e)
      BY <1>1, <2>2, OthersStay
    <3>2. <<target[e], held[e].attempt>> \notin called
      BY <1>2, <1>6, <3>1 DEF Same
    <3>3. ASSUME stage[p] = "check", p \in Executions
          PROVE  <<target[p], held[p].attempt>> # <<target[e], held[e].attempt>>
      <4>1. p = 1
        BY <1>1, <1>6, <2>2, <3>3
      <4>2. held[p].attempt = 1
        BY <3>3, <4>1 DEF FirstPart, Own
      <4>3. held[e].attempt = 1 => target[1] # target[e]
        <5>1. ASSUME held[e].attempt = 1 PROVE NewToSecond(e)
          BY <1>6, <3>1, <5>1 DEF NewToSecond, Started, ToStart, Same
        <5> QED
          BY <1>2, <1>6, <3>3, <4>1, <5>1 DEF Started
      <4> QED
        BY <4>1, <4>2, <4>3
    <3> QED
      BY <1>0, <3>1, <3>2, <3>3 DEF Same
  <2> QED
    BY <2>1, <2>2
<1> QED
  BY <1>4, <1>5, <1>6 DEF NewPart, NewToFirst, NewToSecond, ToStart

(* No two executions are at the same attempt. *)

LEMMA CallOfMover ==
  ASSUME NEW p \in Procs, StepOf(p), BudgetTypeOK, PlacePart, stage'[p] \in AtCall \cup Ending
  PROVE  /\ p \in Executions /\ target'[p] = target[p]
         /\ \/ /\ stage[p] \in AtCall \cup Ending /\ held'[p].attempt = held[p].attempt
               /\ stage'[p] \in AtCall => stage[p] \in {"started", "check", "calling"}
            \/ stage[p] = "start" /\ stage'[p] = "started" /\ held'[p].attempt = held[p].attempt
            \/ StartedBefore(p)
            \/ /\ stage'[p] = "count" /\ receipt[target[p]].status = "settling"
               /\ held'[p].attempt = receipt[target[p]].attempt
<1>a. PlaceOf(p) /\ target[p] \in Calls /\ held[p] \in Reservations
  BY DEF PlacePart, BudgetTypeOK
<1> USE DEF AtCall, Ending
<1>1. CASE p \in Executions /\ \E c \in Calls : BeginReserve(p, c)
  BY <1>a, <1>1 DEF BeginReserve, Step, BudgetTypeOK
<1>2. CASE p \in Executions /\ ReadPrior(p)
  <2>1. LET x == [NoReservation EXCEPT !.attempt = receipt[target[p]].attempt]
        IN  x.attempt = receipt[target[p]].attempt
    BY DEF NoReservation
  <2> QED
    BY <1>2, <2>1, <1>a DEF ReadPrior, Step, BudgetTypeOK
<1>3. CASE p \in Executions /\ ReadPriorAgain(p)
  BY <1>a, <1>3 DEF ReadPriorAgain, Step, BudgetTypeOK
<1>4. CASE p \in Executions /\ ReadActiveCall(p)
  <2>1. reservation[target[p]].status \in {"none", "reserved", "started"}
    BY DEF BudgetTypeOK, Reservations
  <2> QED
    BY <1>4, <2>1 DEF ReadActiveCall, Step, BudgetTypeOK
<1>5. CASE p \in Executions /\ AlreadyInProgress(p)
  BY <1>5, <1>a, QuitRests DEF AlreadyInProgress, Throw, Rested
<1>6. CASE p \in Executions /\ Reread(p)
  BY <1>a, <1>6 DEF Reread, Step, BudgetTypeOK
<1>7. CASE p \in Executions /\ Admit(p)
  BY <1>a, <1>7 DEF Admit, Step, BudgetTypeOK
<1>8. CASE p \in Executions /\ LostFence(p)
  BY <1>8, <1>a, QuitRests DEF LostFence, Throw, Rested
<1>9. CASE p \in Executions /\ Reserve(p)
  BY <1>a, <1>9 DEF Reserve, Step, BudgetTypeOK
<1>10. CASE p \in Executions /\ RefuseCall(p)
  BY <1>10, <1>a, QuitRests DEF RefuseCall, Throw, Rested
<1>11. CASE p \in Executions /\ WriteReceipt(p)
  BY <1>a, <1>11 DEF WriteReceipt, Step, BudgetTypeOK
<1>12. CASE p \in Executions /\ VerifyAdmission(p)
  BY <1>a, <1>12 DEF VerifyAdmission, Step, BudgetTypeOK
<1>13. CASE p \in Executions /\ Begin(p)
  BY <1>a, <1>13 DEF Begin, Step, BudgetTypeOK
<1>14. CASE p \in Executions /\ StartCall(p)
  BY <1>14, <1>a, StartedFields DEF StartCall, Step, BudgetTypeOK
<1>15. CASE p \in Executions /\ NotStartable(p)
  BY <1>15, <1>a, QuitRests DEF NotStartable, Throw, Rested
<1>16. CASE p \in Executions /\ ReceiptStarted(p)
  BY <1>a, <1>16 DEF ReceiptStarted, Step, BudgetTypeOK
<1>17. CASE p \in Executions /\ CheckStart(p)
  BY <1>a, <1>17 DEF CheckStart, Step, BudgetTypeOK
<1>18. CASE p \in Executions /\ CallReturns(p)
  BY <1>a, <1>18 DEF CallReturns, Step, BudgetTypeOK
<1>19. CASE p \in Executions /\ Settle(p)
  BY <1>a, <1>19 DEF Settle, Step, BudgetTypeOK
<1>20. CASE p \in Executions /\ SettleRefused(p)
  BY <1>20, <1>a, QuitRests DEF SettleRefused, Throw, Rested
<1>21. CASE p \in Executions /\ Count(p)
  BY <1>a, <1>21 DEF Count, Step, BudgetTypeOK
<1>22. CASE p \in Executions /\ CountedBefore(p)
  BY <1>22, <1>a, QuitRests DEF CountedBefore, Rested, Step, BudgetTypeOK
<1>23. CASE p \in Executions /\ Report(p)
  BY <1>a, <1>23 DEF Report, Step, BudgetTypeOK
<1>24. CASE p \in Executions /\ Close(p)
  BY <1>24, <1>a, ReturnGoesBack DEF Close, Rested, Returned, Step, BudgetTypeOK, Backs
<1>25. CASE MarkReleasing(p)
  BY <1>a, <1>25 DEF MarkReleasing, Step, BudgetTypeOK
<1>26. CASE Uncount(p)
  BY <1>a, <1>26 DEF Uncount, Step, BudgetTypeOK
<1>27. CASE UncountRefused(p)
  BY <1>27, <1>a, ReturnGoesBack DEF UncountRefused, Rested, Returned, Step, BudgetTypeOK, Backs
<1>28. CASE MarkReleased(p)
  BY <1>28, <1>a, ReturnGoesBack DEF MarkReleased, Rested, Returned, Step, BudgetTypeOK, Backs
<1>29. CASE MarkAbandoned(p)
  BY <1>a, <1>29 DEF MarkAbandoned, Step, BudgetTypeOK
<1>30. CASE DropStarted(p)
  BY <1>30, <1>a, ReturnGoesBack DEF DropStarted, Rested, Returned, Step, BudgetTypeOK, Backs
<1>31. CASE p = Sweep /\ SweepJudge
  BY <1>31, <1>a, QuitRests DEF SweepJudge, Rested, Step, BudgetTypeOK, StaleForm
<1>32. CASE p = Sweep /\ \E c \in Calls : SweepRead(c)
  BY <1>a, <1>32 DEF SweepRead, Step, BudgetTypeOK
<1>33. CASE p \in Executions /\ StartedBefore(p)
  BY <1>a, <1>33 DEF StartedBefore, Step, BudgetTypeOK
<1>34. CASE p \in Executions /\ JoinSettlement(p)
  BY <1>a, <1>34 DEF JoinSettlement, Step, BudgetTypeOK
<1>35. CASE p \in Executions /\ SettledBefore(p)
  BY <1>35, <1>a, QuitRests DEF SettledBefore, Rested
<1> QED
  BY <1>1, <1>2, <1>3, <1>4, <1>5, <1>6, <1>7, <1>8, <1>9, <1>10, <1>11, <1>12, <1>13, <1>14,
     <1>15, <1>16, <1>17, <1>18, <1>19, <1>20, <1>21, <1>22, <1>23, <1>24, <1>25, <1>26, <1>27,
     <1>28, <1>29, <1>30, <1>31, <1>32, <1>33, <1>34, <1>35
  DEF StepOf, CallStep, Undo

\* The execution will find out from the receipt whether its attempt is started.
AtDoor(e) == stage[e] = "start" \/ (e = current /\ stage[e] \in {"verify", "begin"})

LEMMA DoorOfMover ==
  ASSUME NEW p \in Procs, StepOf(p), BudgetTypeOK, PlacePart, p \in Executions, AtDoor(p)'
  PROVE  \/ receipt'[target'[p]].status = "reserved"
         \/ AtDoor(p) /\ target'[p] = target[p] /\ held'[p] = held[p] /\ receipt' = receipt
<1>a. PlaceOf(p) /\ target[p] \in Calls /\ p # Sweep /\ current' = current
  BY CurrentStays, Processes DEF PlacePart, BudgetTypeOK
<1> USE DEF AtDoor
<1>1. CASE p \in Executions /\ \E c \in Calls : BeginReserve(p, c)
  BY <1>a, <1>1 DEF BeginReserve, Step, BudgetTypeOK
<1>2. CASE p \in Executions /\ ReadPrior(p)
  BY <1>a, <1>2 DEF ReadPrior, Step, BudgetTypeOK
<1>3. CASE p \in Executions /\ ReadPriorAgain(p)
  BY <1>a, <1>3 DEF ReadPriorAgain, Step, BudgetTypeOK
<1>4. CASE p \in Executions /\ ReadActiveCall(p)
  <2>1. reservation[target[p]].status \in {"none", "reserved", "started"}
    BY DEF BudgetTypeOK, Reservations
  <2> QED
    BY <1>4, <2>1 DEF ReadActiveCall, Step, BudgetTypeOK
<1>5. CASE p \in Executions /\ AlreadyInProgress(p)
  BY <1>5, <1>a, QuitRests DEF AlreadyInProgress, Throw, Rested
<1>6. CASE p \in Executions /\ Reread(p)
  BY <1>a, <1>6 DEF Reread, Step, BudgetTypeOK
<1>7. CASE p \in Executions /\ Admit(p)
  BY <1>a, <1>7 DEF Admit, Step, BudgetTypeOK
<1>8. CASE p \in Executions /\ LostFence(p)
  BY <1>8, <1>a, QuitRests DEF LostFence, Throw, Rested
<1>9. CASE p \in Executions /\ Reserve(p)
  BY <1>a, <1>9 DEF Reserve, Step, BudgetTypeOK
<1>10. CASE p \in Executions /\ RefuseCall(p)
  BY <1>10, <1>a, QuitRests DEF RefuseCall, Throw, Rested
<1>11. CASE p \in Executions /\ WriteReceipt(p)
  BY <1>a, <1>11 DEF WriteReceipt, PutReceipt, Step, BudgetTypeOK
<1>12. CASE p \in Executions /\ VerifyAdmission(p)
  BY <1>a, <1>12 DEF VerifyAdmission, Fence, Step, BudgetTypeOK
<1>13. CASE p \in Executions /\ Begin(p)
  BY <1>a, <1>13 DEF Begin, Fence, Step, BudgetTypeOK
<1>14. CASE p \in Executions /\ StartCall(p)
  BY <1>a, <1>14 DEF StartCall, Step, BudgetTypeOK
<1>15. CASE p \in Executions /\ NotStartable(p)
  BY <1>15, <1>a, QuitRests DEF NotStartable, Throw, Rested
<1>16. CASE p \in Executions /\ ReceiptStarted(p)
  BY <1>a, <1>16 DEF ReceiptStarted, Step, BudgetTypeOK
<1>17. CASE p \in Executions /\ CheckStart(p)
  BY <1>a, <1>17 DEF CheckStart, Step, BudgetTypeOK
<1>18. CASE p \in Executions /\ CallReturns(p)
  BY <1>a, <1>18 DEF CallReturns, Step, BudgetTypeOK
<1>19. CASE p \in Executions /\ Settle(p)
  BY <1>a, <1>19 DEF Settle, Step, BudgetTypeOK
<1>20. CASE p \in Executions /\ SettleRefused(p)
  BY <1>20, <1>a, QuitRests DEF SettleRefused, Throw, Rested
<1>21. CASE p \in Executions /\ Count(p)
  BY <1>a, <1>21 DEF Count, Step, BudgetTypeOK
<1>22. CASE p \in Executions /\ CountedBefore(p)
  BY <1>22, <1>a, QuitRests DEF CountedBefore, Rested, Step, BudgetTypeOK
<1>23. CASE p \in Executions /\ Report(p)
  BY <1>a, <1>23 DEF Report, Step, BudgetTypeOK
<1>24. CASE p \in Executions /\ Close(p)
  BY <1>24, <1>a, ReturnGoesBack DEF Close, Rested, Returned, Step, BudgetTypeOK, Backs
<1>25. CASE MarkReleasing(p)
  BY <1>a, <1>25 DEF MarkReleasing, Step, BudgetTypeOK
<1>26. CASE Uncount(p)
  BY <1>a, <1>26 DEF Uncount, Step, BudgetTypeOK
<1>27. CASE UncountRefused(p)
  BY <1>27, <1>a, ReturnGoesBack DEF UncountRefused, Rested, Returned, Step, BudgetTypeOK, Backs
<1>28. CASE MarkReleased(p)
  BY <1>28, <1>a, ReturnGoesBack DEF MarkReleased, Rested, Returned, Step, BudgetTypeOK, Backs
<1>29. CASE MarkAbandoned(p)
  BY <1>a, <1>29 DEF MarkAbandoned, Step, BudgetTypeOK
<1>30. CASE DropStarted(p)
  BY <1>30, <1>a, ReturnGoesBack DEF DropStarted, Rested, Returned, Step, BudgetTypeOK, Backs
<1>31. CASE p = Sweep /\ SweepJudge
  BY <1>31, <1>a
<1>32. CASE p = Sweep /\ \E c \in Calls : SweepRead(c)
  BY <1>32, <1>a
<1>33. CASE p \in Executions /\ StartedBefore(p)
  BY <1>a, <1>33 DEF StartedBefore, Step, BudgetTypeOK
<1>34. CASE p \in Executions /\ JoinSettlement(p)
  BY <1>a, <1>34 DEF JoinSettlement, Step, BudgetTypeOK
<1>35. CASE p \in Executions /\ SettledBefore(p)
  BY <1>35, <1>a, QuitRests DEF SettledBefore, Rested
<1> QED
  BY <1>1, <1>2, <1>3, <1>4, <1>5, <1>6, <1>7, <1>8, <1>9, <1>10, <1>11, <1>12, <1>13, <1>14,
     <1>15, <1>16, <1>17, <1>18, <1>19, <1>20, <1>21, <1>22, <1>23, <1>24, <1>25, <1>26, <1>27,
     <1>28, <1>29, <1>30, <1>31, <1>32, <1>33, <1>34, <1>35
  DEF StepOf, CallStep, Undo

\* Who writes that an attempt is started, and who that it is settled.
LEMMA ReceiptSays ==
  ASSUME NEW p \in Procs, StepOf(p), BudgetTypeOK, NEW d \in Calls, receipt'[d] # receipt[d]
  PROVE  /\ receipt'[d].status = "started" =>
               /\ p \in Executions /\ d = target[p] /\ stage[p] = "started"
               /\ receipt'[d].attempt = held[p].attempt
         /\ receipt'[d].status \in {"settling", "completed"} =>
               /\ p \in Executions /\ d = target[p] /\ stage[p] \in {"settle", "close"}
               /\ receipt'[d].attempt = held[p].attempt
<1>a. target[p] \in Calls /\ receipt[d] \in Receipts
  BY DEF BudgetTypeOK
<1> USE DEF stateDoc
<1>1. CASE p \in Executions /\ \E c \in Calls : BeginReserve(p, c)
  BY <1>a, <1>1 DEF BeginReserve
<1>2. CASE p \in Executions /\ ReadPrior(p)
  BY <1>a, <1>2 DEF ReadPrior
<1>3. CASE p \in Executions /\ ReadPriorAgain(p)
  BY <1>a, <1>3 DEF ReadPriorAgain
<1>4. CASE p \in Executions /\ ReadActiveCall(p)
  BY <1>a, <1>4 DEF ReadActiveCall
<1>5. CASE p \in Executions /\ AlreadyInProgress(p)
  BY <1>a, <1>5 DEF AlreadyInProgress, Throw
<1>6. CASE p \in Executions /\ Reread(p)
  BY <1>a, <1>6 DEF Reread
<1>7. CASE p \in Executions /\ Admit(p)
  BY <1>a, <1>7 DEF Admit
<1>8. CASE p \in Executions /\ LostFence(p)
  BY <1>a, <1>8 DEF LostFence, Throw
<1>9. CASE p \in Executions /\ Reserve(p)
  BY <1>a, <1>9 DEF Reserve
<1>10. CASE p \in Executions /\ RefuseCall(p)
  BY <1>a, <1>10 DEF RefuseCall, Throw
<1>11. CASE p \in Executions /\ WriteReceipt(p)
  BY <1>a, <1>11 DEF WriteReceipt, PutReceipt, Receipts, BudgetTypeOK
<1>12. CASE p \in Executions /\ VerifyAdmission(p)
  BY <1>a, <1>12 DEF VerifyAdmission
<1>13. CASE p \in Executions /\ Begin(p)
  BY <1>a, <1>13 DEF Begin
<1>14. CASE p \in Executions /\ StartCall(p)
  BY <1>a, <1>14 DEF StartCall
<1>15. CASE p \in Executions /\ NotStartable(p)
  BY <1>a, <1>15 DEF NotStartable, Throw
<1>16. CASE p \in Executions /\ ReceiptStarted(p)
  BY <1>a, <1>16 DEF ReceiptStarted, SetReceipt, Receipts, BudgetTypeOK
<1>17. CASE p \in Executions /\ CheckStart(p)
  BY <1>a, <1>17 DEF CheckStart
<1>18. CASE p \in Executions /\ CallReturns(p)
  BY <1>a, <1>18 DEF CallReturns
<1>19. CASE p \in Executions /\ Settle(p)
  BY <1>a, <1>19 DEF Settle, SetReceipt, Receipts, BudgetTypeOK
<1>20. CASE p \in Executions /\ SettleRefused(p)
  BY <1>a, <1>20 DEF SettleRefused, Throw
<1>21. CASE p \in Executions /\ Count(p)
  BY <1>a, <1>21 DEF Count
<1>22. CASE p \in Executions /\ CountedBefore(p)
  BY <1>a, <1>22 DEF CountedBefore
<1>23. CASE p \in Executions /\ Report(p)
  BY <1>a, <1>23 DEF Report
<1>24. CASE p \in Executions /\ Close(p)
  BY <1>a, <1>24 DEF Close, SetReceipt, Receipts, BudgetTypeOK
<1>25. CASE MarkReleasing(p)
  BY <1>a, <1>25 DEF MarkReleasing, PutReceipt, Receipts, BudgetTypeOK
<1>26. CASE Uncount(p)
  BY <1>a, <1>26 DEF Uncount
<1>27. CASE UncountRefused(p)
  BY <1>a, <1>27 DEF UncountRefused
<1>28. CASE MarkReleased(p)
  BY <1>a, <1>28 DEF MarkReleased, SetReceipt, Receipts, BudgetTypeOK
<1>29. CASE MarkAbandoned(p)
  BY <1>a, <1>29 DEF MarkAbandoned, PutReceipt, Receipts, BudgetTypeOK
<1>30. CASE DropStarted(p)
  BY <1>a, <1>30 DEF DropStarted
<1>31. CASE p = Sweep /\ SweepJudge
  BY <1>a, <1>31 DEF SweepJudge
<1>32. CASE p = Sweep /\ \E c \in Calls : SweepRead(c)
  BY <1>a, <1>32 DEF SweepRead
<1>33. CASE p \in Executions /\ StartedBefore(p)
  BY <1>a, <1>33 DEF StartedBefore
<1>34. CASE p \in Executions /\ JoinSettlement(p)
  BY <1>a, <1>34 DEF JoinSettlement
<1>35. CASE p \in Executions /\ SettledBefore(p)
  BY <1>a, <1>35 DEF SettledBefore
<1> QED
  BY <1>1, <1>2, <1>3, <1>4, <1>5, <1>6, <1>7, <1>8, <1>9, <1>10, <1>11, <1>12, <1>13, <1>14,
     <1>15, <1>16, <1>17, <1>18, <1>19, <1>20, <1>21, <1>22, <1>23, <1>24, <1>25, <1>26, <1>27,
     <1>28, <1>29, <1>30, <1>31, <1>32, <1>33, <1>34, <1>35
  DEF StepOf, CallStep, Undo

LEMMA ApartKept ==
  ASSUME NEW p \in Procs, StepOf(p), BudgetTypeOK, PlacePart, DocPart, FirstPart, SecondPart,
         ReportPart, NewPart, ApartPart, AtMostTwo
  PROVE  ApartPart'
<1>1. /\ \A e \in Executions : e \in Procs /\ target[e] \in Calls
      /\ p = Sweep \/ p = 1 \/ p = 2
      /\ current' = current
  BY Processes, CurrentStays, TwoExecutions DEF BudgetTypeOK
<1>2. ~StartedBefore(p) \/ p \notin Executions
  BY NoSharing
<1>3. /\ \A e \in Executions : AtDoor(e) =>
            ~(receipt[target[e]].attempt = held[e].attempt /\ receipt[target[e]].status = "started")
      /\ \A e \in Executions : stage[e] \in AtCall =>
            ~(receipt[target[e]].attempt = held[e].attempt
                /\ receipt[target[e]].status \in {"settling", "completed"})
      /\ \A e, f \in Executions :
            e # f /\ stage[e] \in AtCall /\ stage[f] \in AtCall \cup Ending /\ target[e] = target[f]
               => held[e].attempt # held[f].attempt
  BY DEF ApartPart, AtDoor
\* The attempts of the two executions differ until one of them has called.
<1>4. ASSUME NEW e \in Executions, NEW f \in Executions, e # f, e \in {1, 2}, f \in {1, 2},
             stage[e] \in Started, target[e] = target[f],
             stage[f] \in Started \/ (f = 2 /\ stage[f] \in {"verify", "begin"})
      PROVE  held[e].attempt # held[f].attempt
  <2>1. \A q \in Executions : q = 1 /\ stage[q] \in Started => held[q].attempt = 1
    BY DEF FirstPart, Own, Started
  <2>2. \A q \in Executions :
           q = 2 /\ stage[q] \in {"verify", "begin"} \cup Started /\ held[q].attempt = 1
              => (stage[1] \in Started => target[1] # target[q])
    BY DEF NewPart
  <2> QED
    BY <1>4, <2>1, <2>2
\* The attempt of an execution that is about to start has not been called.
<1>5. ASSUME NEW e \in Executions, e \in {1, 2}, stage[e] = "start"
      PROVE  <<target[e], held[e].attempt>> \notin called
  BY <1>5 DEF NewPart, FirstPart, Own
<1>6. ASSUME NEW e \in Executions, AtDoor(e)'
      PROVE  ~(receipt'[target'[e]].attempt = held'[e].attempt
                 /\ receipt'[target'[e]].status = "started")
  <2>1. CASE e = p
    BY <1>3, <1>6, <2>1, DoorOfMover
  <2>2. CASE e # p
    <3>1. AtDoor(e) /\ Same(e)
      BY <1>1, <1>6, <2>2, OthersStay DEF AtDoor, Same
    <3>2. ASSUME receipt'[target[e]] # receipt[target[e]],
                 receipt'[target[e]].status = "started"
          PROVE  receipt'[target[e]].attempt # held[e].attempt
      <4>1. /\ p \in Executions /\ target[e] = target[p] /\ stage[p] = "started"
            /\ receipt'[target[e]].attempt = held[p].attempt
        BY <1>1, <3>2, ReceiptSays
      <4>2. ~(e > current) /\ ~(p > current) /\ current \in Nat /\ current <= 2 /\ e \in Nat \ {0}
        BY <3>1, <4>1, Processes DEF PlacePart, AtDoor, AtMostTwo, BudgetTypeOK
      <4>3. e \in {1, 2} /\ p \in {1, 2}
        BY <1>1, <4>1, <4>2, Processes
      <4>4. stage[e] = "start" \/ (e = 2 /\ stage[e] \in {"verify", "begin"})
        BY <2>2, <3>1, <4>2, <4>3 DEF AtDoor
      <4> QED
        BY <1>4, <2>2, <4>1, <4>3, <4>4 DEF Started
    <3> QED
      BY <1>3, <3>1, <3>2 DEF Same
  <2> QED
    BY <2>1, <2>2
<1>7. ASSUME NEW e \in Executions, stage'[e] \in AtCall
      PROVE  ~(receipt'[target'[e]].attempt = held'[e].attempt
                 /\ receipt'[target'[e]].status \in {"settling", "completed"})
  <2>1. stage[e] \in AtCall => ~(receipt[target[e]].attempt = held[e].attempt
                                   /\ receipt[target[e]].status \in {"settling", "completed"})
    BY <1>3
  <2>2. CASE e = p
    <3>1. /\ target'[e] = target[e] /\ held'[e].attempt = held[e].attempt
          /\ stage[e] \in {"start", "started", "check", "calling"}
      BY <1>2, <1>7, <2>2, CallOfMover DEF AtCall, Ending
    <3>2. stage[e] = "start" =>
             ~(receipt[target[e]].attempt = held[e].attempt
                 /\ receipt[target[e]].status \in {"settling", "completed"})
      BY <1>1, <1>5, <2>2, Processes DEF ReportPart
    <3>3. ASSUME receipt'[target[e]] # receipt[target[e]]
          PROVE  receipt'[target[e]].status \notin {"settling", "completed"}
      <4>1. stage[p] \notin {"settle", "close"}
        BY <2>2, <3>1
      <4> QED
        BY <1>1, <3>3, <4>1, ReceiptSays
    <3> QED
      BY <2>1, <3>1, <3>2, <3>3 DEF AtCall
  <2>3. CASE e # p
    <3>1. Same(e) /\ stage[e] \in AtCall
      BY <1>1, <1>7, <2>3, OthersStay DEF Same
    <3>2. ASSUME receipt'[target[e]] # receipt[target[e]],
                 receipt'[target[e]].status \in {"settling", "completed"}
          PROVE  receipt'[target[e]].attempt # held[e].attempt
      <4>1. /\ p \in Executions /\ target[e] = target[p] /\ stage[p] \in {"settle", "close"}
            /\ receipt'[target[e]].attempt = held[p].attempt
        BY <1>1, <3>2, ReceiptSays
      <4> QED
        BY <1>3, <2>3, <3>1, <4>1 DEF AtCall, Ending
    <3> QED
      BY <2>1, <3>1, <3>2 DEF Same
  <2> QED
    BY <2>2, <2>3
<1>8. ASSUME NEW e \in Executions, NEW f \in Executions, e # f, stage'[e] \in AtCall,
             stage'[f] \in AtCall \cup Ending, target'[e] = target'[f]
      PROVE  held'[e].attempt # held'[f].attempt
  \* One of two at a call has just started it, and the other one is past that.
  <2>1. ASSUME NEW a \in Executions, NEW b \in Executions, a # b, a = p, stage[a] = "start",
               stage[b] \in AtCall \cup Ending, target[a] = target[b]
        PROVE  held[a].attempt # held[b].attempt
    <3>1. ~(b > current) /\ current \in Nat /\ current <= 2 /\ b \in Nat \ {0}
      BY <2>1, Processes DEF PlacePart, AtCall, Ending, AtMostTwo, BudgetTypeOK
    <3>2. a \in {1, 2} /\ b \in {1, 2}
      BY <1>1, <2>1, <3>1, Processes
    <3>3. CASE stage[b] \in Started
      BY <1>4, <2>1, <3>2, <3>3 DEF Started
    <3>4. CASE stage[b] \notin Started
      <4>1. <<target[b], held[b].attempt>> \in called
        BY <1>1, <2>1, <3>4 DEF ReportPart, AtCall, Ending, Started
      <4> QED
        BY <1>5, <2>1, <3>2, <4>1
    <3> QED
      BY <3>3, <3>4
  <2>2. CASE e = p
    <3>1. Same(f)
      BY <1>1, <1>8, <2>2, OthersStay
    <3>2. /\ target'[e] = target[e] /\ held'[e].attempt = held[e].attempt
          /\ stage[e] \in AtCall \/ stage[e] = "start"
      BY <1>2, <1>8, <2>2, CallOfMover DEF AtCall, Ending
    <3> QED
      BY <1>3, <1>8, <2>1, <2>2, <3>1, <3>2 DEF Same
  <2>3. CASE f = p
    <3>1. Same(e)
      BY <1>1, <1>8, <2>3, OthersStay
    <3>2. /\ target'[f] = target[f]
          /\ \/ held'[f].attempt = held[f].attempt
                /\ (stage[f] \in AtCall \cup Ending \/ stage[f] = "start")
             \/ receipt[target[f]].status = "settling"
                /\ held'[f].attempt = receipt[target[f]].attempt
      BY <1>2, <1>8, <2>3, CallOfMover
    <3> QED
      BY <1>3, <1>8, <2>1, <2>3, <3>1, <3>2 DEF Same
  <2>4. CASE e # p /\ f # p
    BY <1>1, <1>3, <1>8, <2>4, OthersStay DEF Same
  <2> QED
    BY <2>2, <2>3, <2>4
<1> QED
  BY <1>6, <1>7, <1>8 DEF ApartPart, AtDoor

(* The invariant. *)

LEMMA InitSound ==
  ASSUME BudgetInit
  PROVE  BInv
<1>1. /\ AnyCall \in Calls /\ NoReservation \in Reservations /\ NoReceipt \in Receipts
      /\ 1 \in Executions /\ 0 \in Int /\ 0 =< MaxToolCalls /\ 0 \in Nat
  BY BlankTyped, Processes, BudgetAssumption DEF AnyCall
<1>2. BudgetTypeOK
  BY <1>1 DEF BudgetInit, BudgetTypeOK
<1>3. \A p \in Procs : /\ stage[p] = "idle" /\ back[p] = "idle" /\ ~consumed[p]
                        /\ held[p] = NoReservation /\ prior[p] = NoReceipt
  BY DEF BudgetInit
<1>4. /\ \A e \in Executions : e \in Procs /\ tried[e] = {}
      /\ called = {} /\ telemetry = {} /\ usage = 0 /\ toolCalls = 0 /\ current = 1
      /\ Sweep \in Procs /\ 1 \in Procs
      /\ \A c \in Calls : reservation[c] = NoReservation /\ receipt[c] = NoReceipt
  BY Processes DEF BudgetInit
<1>5. PlacePart
  <2>1. ASSUME NEW p \in Procs PROVE PlaceOf(p)
    BY <1>3, Blank DEF PlaceOf, Own, Looking
  <2> QED
    BY <1>3, <1>4, <2>1 DEF PlacePart
<1>6. DocPart
  BY <1>3, <1>4, Blank DEF DocPart, ActiveCall, KnowsReceipt
<1>7. FirstPart
  BY <1>3, <1>4, Blank DEF FirstPart, FirstAlone, Own, Looking
<1>8. SecondPart
  <2>1. \A p \in Procs : held[p].attempt = 0 /\ prior[p].attempt = 0
    BY <1>3, Blank
  <2>2. \A c \in Calls : reservation[c].attempt = 0 /\ receipt[c].attempt = 0
    BY <1>4, Blank
  <2>3. 0 <= 1
    OBVIOUS
  <2> QED
    BY <1>4, <2>1, <2>2, <2>3 DEF SecondPart
<1>9. ChargePart
  BY <1>3, <1>4, Blank DEF ChargePart, Holding
<1>10. MoneyPart
  <2>1. Promised = {}
    BY <1>4, Blank DEF Promised
  <2>2. Spent({})
    BY <1>3, <1>4, Blank DEF Spent, Spending, ActiveCall
  <2>3. IsFiniteSet({}) /\ Cardinality({}) = 0
    BY FS_EmptySet
  <2>4. Cardinality({}) + Cardinality(Promised) <= toolCalls
    BY <1>4, <2>1, <2>3
  <2> QED
    BY <2>1, <2>2, <2>3, <2>4 DEF MoneyPart
<1>11. CalledPart
  <2>1. called \ Going = {}
    BY <1>4
  <2>2. IsFiniteSet(called) /\ usage <= Cardinality(called \ Going)
    BY <1>4, <2>1, FS_EmptySet
  <2> QED
    BY <1>3, <1>4, <2>2, Blank DEF CalledPart
<1>12. NewPart
  BY <1>3, <1>4 DEF NewPart, Started
<1>13. NumberPart
  <2>1. \A c \in Calls : Latest(c) = 0
    BY <1>1, <1>4 DEF Latest, Past
  <2>2. \A p \in Procs : target[p] \in Calls /\ held[p].attempt = 0 /\ prior[p].attempt = 0
    BY <1>1, <1>3, Blank DEF BudgetInit
  <2>3. \A c \in Calls : reservation[c].attempt = 0 /\ receipt[c].attempt = 0
    BY <1>4, Blank
  <2> QED
    BY <1>3, <1>4, <2>1, <2>2, <2>3 DEF NumberPart
<1>14. ReportPart
  BY <1>3, <1>4, Blank DEF ReportPart
<1>15. ApartPart
  BY <1>3, <1>4 DEF ApartPart, AtCall
<1> QED
  BY <1>2, <1>5, <1>6, <1>7, <1>8, <1>9, <1>10, <1>11, <1>12, <1>13, <1>14, <1>15
  DEF BInv, Standing, Exact

(* Only the lease changes hands. The executions before the new one have numbered their attempts
   below it, and it has none yet; what is said of the first execution while it holds the lease is
   said of no later one. *)
LEMMA TakeOverKept ==
  ASSUME BInv, TakeOver
  PROVE  BInv'
<1>1. /\ current \in Executions /\ current' = current + 1 /\ current < MaxExecutions
      /\ current \in Nat \ {0} /\ MaxExecutions \in Nat
  BY BudgetAssumption DEF BInv, Standing, BudgetTypeOK, TakeOver, Executions
<1>2. current' \in Executions /\ current' # 1 /\ current' \in Nat
  BY <1>1 DEF Executions
<1>3. UNCHANGED <<reservation, toolCalls, usage, receipt, telemetry, called>>
  BY DEF TakeOver, stateDoc
<1>4. UNCHANGED <<stage, target, held, prior, consumed, back, tried>>
  BY DEF TakeOver, localVars
<1>5. BudgetTypeOK'
  BY <1>2, <1>3, <1>4 DEF BInv, Standing, BudgetTypeOK
<1>6. PlacePart'
  <2>1. \A e \in Executions : e > current' => e > current
    BY <1>1 DEF Executions
  <2> QED
    BY <1>4, <2>1 DEF BInv, Standing, PlacePart, PlaceOf
<1>7. DocPart'
  <2>1. \A e \in 1..current : e \in 1..current'
    BY <1>1
  <2> QED
    BY <1>3, <1>4, <2>1 DEF BInv, Standing, DocPart, ActiveCall, KnowsReceipt
<1>8. NumberPart'
  <2>1. ASSUME NEW c \in Calls
        PROVE  Latest(c) <= Latest(c)' /\ Latest(c) \in Int /\ Latest(c)' \in Int
    <3>1. Latest(c)' \in {current, current + 1} /\ Latest(c) \in {current, current - 1}
      BY <1>1 DEF Latest
    <3> QED
      BY <1>1, <3>1
  <2>2. /\ \A c \in Calls : receipt[c].attempt \in Int /\ reservation[c].attempt \in Int
        /\ \A p \in Procs :
              target[p] \in Calls /\ held[p].attempt \in Int /\ prior[p].attempt \in Int
    BY Processes DEF BInv, Standing, BudgetTypeOK, Receipts, Reservations, Attempts
  <2>3. NumberPart
    BY DEF BInv, Standing
  <2>4. \A c \in Calls : receipt[c].attempt <= Latest(c)' /\ reservation[c].attempt <= Latest(c)'
    BY <2>1, <2>2, <2>3 DEF NumberPart
  <2>5. ASSUME NEW p \in Procs
        PROVE  held'[p].attempt <= Latest(target[p])' /\ prior'[p].attempt <= Latest(target[p])'
    <3>1. PICK c \in Calls : c = target[p] /\ c = target'[p]
      BY <1>4, <2>2
    <3>2. Latest(target[p])' = Latest(c)'
      BY <3>1 DEF Latest, Past
    <3>3. held[p].attempt <= Latest(c) /\ prior[p].attempt <= Latest(c)
      BY <2>3, <3>1 DEF NumberPart
    <3> QED
      BY <1>4, <2>1, <2>2, <3>2, <3>3
  <2> QED
    BY <1>3, <1>4, <2>3, <2>4, <2>5 DEF NumberPart
<1>9. ReportPart'
  BY <1>3, <1>4 DEF BInv, Standing, ReportPart
<1>10. ASSUME AtMostTwo' PROVE Exact'
  <2>1. Exact
    BY <1>1, <1>10 DEF BInv, AtMostTwo
  <2>2. FirstPart' /\ SecondPart' /\ ChargePart'
    BY <1>2, <1>3, <1>4, <2>1
    DEF Exact, FirstPart, SecondPart, Second, Past, BeforeReserve, ChargePart
  <2>3. MoneyPart' /\ CalledPart'
    BY <1>3, <1>4, <2>1 DEF Exact, MoneyPart, Spent, Promised, ActiveCall, CalledPart, Going
  <2>4. NewPart'
    BY <1>2, <1>3, <1>4, <2>1 DEF Exact, NewPart
  <2>5. ApartPart'
    <3>1. \A e \in Executions : e = current' => stage[e] = "idle"
      BY <1>1 DEF BInv, Standing, PlacePart
    <3> QED
      BY <1>3, <1>4, <2>1, <3>1 DEF Exact, ApartPart, AtCall
  <2> QED
    BY <2>2, <2>3, <2>4, <2>5 DEF Exact
<1> QED
  BY <1>5, <1>6, <1>7, <1>8, <1>9, <1>10 DEF BInv, Standing

LEMMA StandingStill ==
  ASSUME BInv, UNCHANGED budgetVars
  PROVE  BInv'
<1>1. UNCHANGED <<current, reservation, toolCalls, usage, receipt, telemetry, called>>
  BY DEF budgetVars, stateDoc
<1>2. UNCHANGED <<stage, target, held, prior, consumed, back, tried>>
  BY DEF budgetVars, localVars
<1>3. BudgetTypeOK' /\ PlacePart' /\ DocPart'
  BY <1>1, <1>2
  DEF BInv, Standing, BudgetTypeOK, PlacePart, PlaceOf, DocPart, ActiveCall, KnowsReceipt
<1>4. NumberPart' /\ ReportPart'
  BY <1>1, <1>2 DEF BInv, Standing, NumberPart, Latest, Past, BeforeReserve, ReportPart
<1>5. ASSUME AtMostTwo' PROVE Exact'
  <2>1. Exact
    BY <1>1, <1>5 DEF BInv, AtMostTwo
  <2>2. FirstPart' /\ SecondPart' /\ ChargePart'
    BY <1>1, <1>2, <2>1
    DEF Exact, FirstPart, FirstAlone, SecondPart, Second, Past, BeforeReserve, ChargePart
  <2>3. MoneyPart' /\ CalledPart' /\ NewPart' /\ ApartPart'
    BY <1>1, <1>2, <2>1
    DEF Exact, MoneyPart, Spent, Promised, ActiveCall, CalledPart, Going, NewPart, ApartPart
  <2> QED
    BY <2>2, <2>3 DEF Exact
<1> QED
  BY <1>3, <1>4, <1>5 DEF BInv, Standing

LEMMA BudgetStep ==
  ASSUME BInv, [BudgetNext]_budgetVars
  PROVE  BInv'
<1>1. CASE TakeOver
  BY <1>1, TakeOverKept
<1>2. ASSUME NEW p \in Procs, StepOf(p) PROVE BInv'
  <2>1. BudgetTypeOK /\ PlacePart /\ DocPart /\ NumberPart /\ ReportPart
    BY DEF BInv, Standing
  <2>2. Standing'
    BY <1>2, <2>1, TypeKept, PlaceKept, DocKept, NumbersKept, ReportKept DEF Standing
  <2>3. ASSUME AtMostTwo' PROVE Exact'
    <3>1. AtMostTwo
      BY <1>2, <2>3, CurrentStays DEF AtMostTwo
    <3>2. /\ FirstPart /\ SecondPart /\ ChargePart /\ MoneyPart /\ CalledPart /\ NewPart
          /\ ApartPart
      BY <3>1 DEF BInv, Exact
    <3>3. FirstPart' /\ SecondPart' /\ ChargePart'
      BY <1>2, <2>1, <3>1, <3>2, FirstKept, SecondKept, ChargeKept
    <3>4. MoneyPart' /\ CalledPart'
      BY <1>2, <2>1, <3>1, <3>2, MoneyKept, CalledKept
    <3>5. NewPart' /\ ApartPart'
      BY <1>2, <2>1, <3>1, <3>2, NewKept, ApartKept
    <3> QED
      BY <3>3, <3>4, <3>5 DEF Exact
  <2> QED
    BY <2>2, <2>3 DEF BInv
<1>3. CASE UNCHANGED budgetVars
  BY <1>3, StandingStill
<1> QED
  BY <1>1, <1>2, <1>3, StepsCovered

LEMMA BudgetInvariant == BudgetSpec => []BInv
<1>1. BudgetInit => BInv
  BY InitSound
<1>2. BInv /\ [BudgetNext]_budgetVars => BInv'
  BY BudgetStep
<1> QED
  BY <1>1, <1>2, PTL DEF BudgetSpec

\* What was called has been spent, and what was spent is counted, until a third execution.
LEMMA CountedExactly ==
  ASSUME BInv, AtMostTwo
  PROVE  StrictCeiling /\ UsageCountedOnce
<1>1. PICK X \in SUBSET Calls :
         IsFiniteSet(X) /\ Spent(X) /\ Cardinality(X) + Cardinality(Promised) <= toolCalls
  BY DEF BInv, Exact, MoneyPart
<1>2. CalledOnce \subseteq X
  BY <1>1 DEF Spent, CalledOnce
<1>3. /\ Cardinality(CalledOnce) \in Nat /\ Cardinality(X) \in Nat
      /\ Cardinality(CalledOnce) <= Cardinality(X)
  BY <1>1, <1>2, FS_Subset, FS_CardinalityType
<1>4. Cardinality(Promised) \in Nat
  BY FS_CardinalityType DEF BInv, Exact, MoneyPart
<1>5. toolCalls \in Int /\ toolCalls <= MaxToolCalls
  BY DEF BInv, Standing, BudgetTypeOK
<1>6. StrictCeiling
  BY <1>1, <1>3, <1>4, <1>5 DEF StrictCeiling
<1>7. /\ IsFiniteSet(called)
      /\ usage <= Cardinality(called \ Going) /\ usage \in Nat
  BY DEF BInv, Standing, Exact, CalledPart, BudgetTypeOK
<1>8. Cardinality(called \ Going) <= Cardinality(called) /\ Cardinality(called) \in Nat
      /\ Cardinality(called \ Going) \in Nat
  BY <1>7, FS_Subset, FS_CardinalityType
<1>9. usage <= Cardinality(called)
  <2> DEFINE a == Cardinality(called \ Going)
             b == Cardinality(called)
  <2>1. a <= b /\ usage <= a /\ a \in Nat /\ b \in Nat /\ usage \in Nat
    BY <1>7, <1>8
  <2> HIDE DEF a, b
  <2>2. usage <= b
    BY <2>1
  <2> QED
    BY <2>2 DEF b
<1> QED
  BY <1>6, <1>9 DEF UsageCountedOnce

(* Type correctness of the budget, however often the run is executed: an attempt has the number
   of an execution, a free reservation says nothing, and the count of tool calls is never above
   max_tool_calls. That it is not below zero is not claimed: a release takes back the charge of
   the reservation it has read, which shared numbers can make it do twice. *)
THEOREM BudgetTypeCorrect == BudgetSpec => []BudgetTypeOK
<1>1. BInv => BudgetTypeOK
  BY DEF BInv, Standing
<1> QED
  BY <1>1, BudgetInvariant, PTL

(* For any number of executions, any calls and any limit. The telemetry has no attempt but those
   whose external call was made, however often the run is executed, although an execution lets
   its call through on the receipt of another one, settles that one's receipt or finds it settled.
   And until a third execution takes over max_tool_calls is strict and usage is counted once,
   whatever a stale release, the maintenance sweep or the replay of the calls meets, although the
   documents are written one after the other. *)
THEOREM BudgetIsExact == BudgetSpec => []BudgetExact
<1>1. BInv => ReportedWasCalled
  BY DEF BInv, Standing, ReportPart, ReportedWasCalled
<1>2. BInv => BudgetExact
  BY <1>1, CountedExactly DEF BudgetExact
<1> QED
  BY <1>2, BudgetInvariant, PTL
=============================================================================
