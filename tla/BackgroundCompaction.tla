------------------------ MODULE BackgroundCompaction ------------------------
(* The silent compaction of one agent loop, in the memory of its process.    *)
(* The loop measures its context before every request. It forks a summary of *)
(* the messages it has at that moment, keeps on working, and puts the        *)
(* summary in their place when the context reaches the swap line; it may     *)
(* also have to wait for the summary, to compact in the foreground, or to    *)
(* leave the fork to the durable job it announced. The job and its workers   *)
(* are DurableCompaction; here they are what the loop sees of them.          *)
EXTENDS Integers, SequencesExt

CONSTANTS
    Window,        \* the context window of the model, in units of tokens
    OutputRoom,    \* what is kept free for the answer of a main request
    SummaryRoom,   \* what is kept free for a summary
    Instruction,   \* what the request for a summary adds to the prefix
    Static,        \* what every request carries beside the messages
    Guide,         \* the part of it that a summary repeats
    Paces,         \* how many turns a summary may take, as the telemetry times it
    DefaultGrowth, \* the growth of a turn, as long as none was measured
    Corrections,   \* what the provider counts more, or less, than the loop
    MaxTurns,      \* bound on the turns of a loop
    MaxRejections  \* bound on the requests refused as too long

ASSUME BackgroundAssumption ==
    /\ {Window, OutputRoom, SummaryRoom, Instruction, Static, Guide, DefaultGrowth} \subseteq Nat
    /\ Paces \subseteq Nat \ {0} /\ Corrections \subseteq Int

VARIABLES
    context,     \* the messages: the turns each stands for, its text and media
    correction,  \* provider's count minus the loop's, at the last request
    telemetry,   \* that count, and the growth between the latest requests
    budget,      \* the lines the context is measured against
    task,        \* the fork: where it splices, and how far it got
    safety,      \* failures, refills, turns since the merge, the breaker
    active,      \* activeCompaction: what the fork announced to the store
    offering,    \* a summary on its way to the durable job, and for which fork
    job,         \* the durable job: the shape of its prefix, and its state
    guard,       \* the source turn guard of the request being made
    loopAt, ending, rejections, durable

backgroundVars == <<context, correction, telemetry, budget, task, safety, active, offering,
                    job, guard, loopAt, ending, rejections, durable>>

InputLimit == Window - OutputRoom

NoTask   == [phase |-> "none"]
NoActive == [kind |-> "none"]
NoJob    == [state |-> "none"]

(* A summary repeats the guide, which is then not counted twice.             *)
Overhead(messages) == IF messages[1].embeds THEN Static - Guide ELSE Static

(* How the provider would count a request made of these messages.            *)
Tokens(messages, corr) ==
    LET Add(message, sum) == sum + message.text + message.media
    IN  Max({0, Overhead(messages) + corr + FoldRight(Add, messages, 0)})

Size(messages) == Tokens(messages, correction)
Shape(messages) == [i \in DOMAIN messages |-> messages[i].upto]
LastOf(messages) == messages[Len(messages)].upto

-----------------------------------------------------------------------------
CeilDiv(n, d) == (n + d - 1) \div d

(* The growth of a turn: the mean of the last three that grew, and the peak. *)
Growth ==
    LET recent == telemetry.grown
    IN  IF recent = <<>> THEN [sum |-> DefaultGrowth, of |-> 1, peak |-> DefaultGrowth]
        ELSE [sum |-> FoldRight(LAMBDA g, n : g + n, recent, 0), of |-> Len(recent),
              peak |-> Max(ToSet(recent))]

(* A request that was answered is the anchor of the next estimates.          *)
Recorded(counted) ==
    LET delta == counted - telemetry.input
        grown == IF telemetry.input >= 0 /\ delta > 0
                 THEN Append(telemetry.grown, delta) ELSE telemetry.grown
    IN  [input |-> counted,
         grown |-> IF Len(grown) > 3 THEN Tail(grown) ELSE grown]

(* The lines: where the main request must stop growing (swap), how long a    *)
(* prefix may be forked (fork), when a fork is worth starting (gate,         *)
(* trigger). A measure that leaves no room for them is not used.             *)
BudgetOf(pace) ==
    LET mean == CeilDiv(Growth.sum, Growth.of)
        swap == InputLimit - Max({0, Growth.peak - Growth.sum \div Growth.of})
        fork == Min({Window - Instruction - SummaryRoom, swap})
        gate == CeilDiv(InputLimit, 2)
        raw  == Min({swap - CeilDiv(pace * Growth.sum, Growth.of), fork})
    IN  [swap |-> swap, fork |-> fork, gate |-> gate, trigger |-> Max({gate, raw}),
         growth |-> mean, runway |-> Max({1, (swap - gate) \div pace}),
         constrained |-> raw < gate]

Feasible(b) ==
    /\ InputLimit > Static /\ b.fork > Static /\ b.fork >= b.gate
    /\ b.trigger > Static /\ b.trigger < b.swap

(* A fork keeps the lines it was started under.                              *)
Refreshed(pace) ==
    IF task.phase \in {"none", "failed", "cancelled"} /\ Feasible(BudgetOf(pace))
    THEN BudgetOf(pace) ELSE budget

Failed(s) ==
    [s EXCEPT !.failures = @ + 1,
              !.breaker = IF s.failures + 1 >= 3 /\ @ = "none" THEN "consecutive_failures" ELSE @]

MergedSafety(s) == [s EXCEPT !.failures = 0, !.since = 0]

(* What the boundary clears before it decides: a fork that came to nothing.  *)
Standing == IF task.phase \in {"failed", "cancelled"} THEN NoTask ELSE task

Aged ==
    LET older == [safety EXCEPT !.since = IF @ = -1 THEN -1 ELSE Min({@ + 1, 4})]
    IN  IF task.phase = "failed" THEN Failed(older) ELSE older

Decision(b) ==
    LET size == Size(context)
        idle == Standing = NoTask
    IN  CASE Standing.phase = "handed_off"                 -> "durable-handoff"
          [] Standing.phase = "succeeded" /\ size >= b.swap -> "merge"
          [] idle /\ size > b.fork                          -> "sync-fallback"
          [] Standing.phase = "running" /\ size >= b.swap   -> "wait"
          [] /\ idle /\ size <= b.fork /\ size >= b.gate
             /\ size >= b.trigger \/ size + b.growth >= b.trigger -> "start"
          [] OTHER                                          -> "none"

(* Two refills within three turns of a merge stop the forks of this loop.    *)
Refill == Aged.since \in 0..3

Opened ==
    CASE Aged.breaker # "none" -> Aged
      [] Aged.breaker = "none" /\ Refill ->
            [Aged EXCEPT !.refills = @ + 1,
                         !.breaker = IF Aged.refills + 1 >= 2 THEN "rapid_refill" ELSE "none"]
      [] OTHER -> [Aged EXCEPT !.refills = IF Aged.since = -1 THEN @ ELSE 0]

-----------------------------------------------------------------------------
BackgroundInit ==
    /\ context = <<[from |-> 1, upto |-> 1, text |-> 3, media |-> 0, embeds |-> FALSE]>>
    /\ correction = 0
    /\ telemetry = [input |-> -1, grown |-> <<>>]
    /\ budget \in {b \in {BudgetOf(p) : p \in Paces} : Feasible(b)}
    /\ task = NoTask
    /\ safety = [failures |-> 0, refills |-> 0, since |-> -1, breaker |-> "none"]
    /\ active = NoActive
    /\ offering = "no"
    /\ job = NoJob
    /\ guard = "none"
    /\ loopAt = "boundary"
    /\ ending = "none"
    /\ rejections = 0
    /\ durable \in BOOLEAN

(* The boundary of a turn, before the next request.                          *)
AtBoundary(decision, pace) ==
    /\ loopAt = "boundary"
    /\ Decision(Refreshed(pace)) = decision
    /\ budget' = Refreshed(pace)

Held == <<context, correction, telemetry, offering, job, guard, rejections, durable>>

LeaveLoop(how) ==
    /\ loopAt' = "exit"
    /\ ending' = how

(* Nothing to do: a request, under whatever fork is on its way.              *)
Proceed(pace) ==
    /\ \/ AtBoundary("none", pace) /\ safety' = Aged
       \/ /\ AtBoundary("start", pace)
          /\ Opened.breaker # "none"
          /\ safety' = Opened
    /\ task' = Standing
    /\ loopAt' = "request"
    /\ UNCHANGED <<active, ending, Held>>

(* A fork: the messages as they are now, and what the store is told of it.   *)
StartFork(pace) ==
    /\ AtBoundary("start", pace)
    /\ Opened.breaker = "none"
    /\ safety' = Opened
    /\ task' = [phase |-> "running", stage |-> "preparing", splice |-> Len(context),
                upto |-> LastOf(context), tokens |-> Size(context), prepared |-> FALSE]
    /\ active' = [kind |-> "fork", shape |-> Shape(context), prepared |-> FALSE, offered |-> FALSE]
    /\ offering' = IF offering = "no" THEN "no" ELSE "stale"
    /\ loopAt' = "starting"
    /\ UNCHANGED <<context, correction, telemetry, job, guard, ending, rejections, durable>>

(* The store keeps the job that is active already, whatever its prefix; it   *)
(* refuses a prefix the persisted context no longer starts with.             *)
PrepareShadow ==
    /\ loopAt = "starting" /\ durable
    /\ job.state # "merged"
    /\ job' = IF job.state \in {"none", "failed"}
              THEN [state |-> "queued", shape |-> active.shape] ELSE job
    /\ active' = [active EXCEPT !.prepared = TRUE]
    /\ IF task.phase = "running"
       THEN \E inTime \in BOOLEAN :
              /\ task' = IF inTime THEN [task EXCEPT !.stage = "calling", !.prepared = TRUE]
                                   ELSE [task EXCEPT !.phase = "failed"]
              /\ loopAt' = IF inTime THEN "request" ELSE "fallback"
       ELSE loopAt' = "fallback" /\ UNCHANGED task
    /\ UNCHANGED <<context, correction, telemetry, budget, safety, offering, guard, ending,
                   rejections, durable>>

StartLocal ==
    /\ loopAt = "starting" /\ ~durable
    /\ IF task.phase = "running"
       THEN task' = [task EXCEPT !.stage = "calling"] /\ loopAt' = "request"
       ELSE loopAt' = "fallback" /\ UNCHANGED task
    /\ UNCHANGED <<budget, safety, active, ending, Held>>

PrepareFails ==
    /\ loopAt = "starting" /\ durable
    /\ task' = IF task.phase = "running" THEN [task EXCEPT !.phase = "cancelled"] ELSE task
    /\ LeaveLoop("failed")
    /\ UNCHANGED <<budget, safety, active, Held>>

(* The swap line with the summary still being written: the loop waits.       *)
AwaitFork(pace) ==
    /\ AtBoundary("wait", pace)
    /\ safety' = Aged
    /\ loopAt' = "waiting"
    /\ UNCHANGED <<task, active, ending, Held>>

(* The wait ends with another outcome, with none, or just as the summary     *)
(* arrives: the foreground.                                                  *)
GiveUpWaiting ==
    /\ loopAt = "waiting"
    /\ safety' = IF task.phase = "failed" THEN Failed(safety) ELSE safety
    /\ task' = NoTask
    /\ loopAt' = "fallback"
    /\ UNCHANGED <<budget, active, ending, Held>>

-----------------------------------------------------------------------------
(* The summary takes the place of the messages it was made of, if what is    *)
(* then left is shorter than before and leaves room for an answer. Its final *)
(* wording is made at that moment, with the projection of the workspace.     *)
Spliced(size) ==
    <<[from |-> 1, upto |-> task.upto, text |-> size + Guide, media |-> 0, embeds |-> TRUE]>>
       \o SubSeq(context, task.splice + 1, Len(context))

Mergeable(size) ==
    /\ task.splice <= Len(context)
    /\ Size(Spliced(size)) < Min({Size(context), InputLimit})

MergeFork(then) ==
    \E size \in 1..SummaryRoom :
       /\ task.phase = "succeeded"
       /\ Mergeable(task.size)
       /\ context' = Spliced(size)
       /\ task' = NoTask
       /\ active' = NoActive
       /\ IF Tokens(Spliced(size), correction) < InputLimit
          THEN loopAt' = then /\ UNCHANGED ending
          ELSE LeaveLoop("failed")

MergeRefused ==
    /\ task.phase = "succeeded"
    /\ ~Mergeable(task.size)
    /\ task' = NoTask
    /\ LeaveLoop("failed")

MergeAtBoundary(pace) ==
    /\ AtBoundary("merge", pace)
    /\ \/ MergeFork("request") /\ safety' = MergedSafety(Aged)
       \/ MergeRefused /\ safety' = Failed(Aged) /\ UNCHANGED <<context, active>>
    /\ UNCHANGED <<correction, telemetry, offering, job, guard, rejections, durable>>

MergeAfterWait ==
    /\ loopAt = "waiting"
    /\ \/ MergeFork("request") /\ safety' = MergedSafety(safety)
       \/ MergeRefused /\ safety' = Failed(safety) /\ UNCHANGED <<context, active>>
    /\ UNCHANGED <<correction, telemetry, budget, offering, job, guard, rejections, durable>>

(* The fork was left to its job: the loop gives way.                         *)
YieldToJob(pace) ==
    /\ AtBoundary("durable-handoff", pace)
    /\ safety' = Aged
    /\ LeaveLoop("paused")
    /\ UNCHANGED <<task, active, Held>>

ForegroundDue(pace) ==
    /\ AtBoundary("sync-fallback", pace)
    /\ safety' = Aged
    /\ task' = Standing
    /\ loopAt' = "fallback"
    /\ UNCHANGED <<active, ending, Held>>

(* In the foreground: not while a job is announced, and not with a fork that *)
(* would splice into the messages the foreground has replaced.               *)
NeverBlocked == FALSE
ForegroundBlocked == active # NoActive /\ active.prepared

Foreground ==
    /\ loopAt \in {"fallback", "refused"}
    /\ IF ForegroundBlocked
       THEN LeaveLoop("paused") /\ UNCHANGED <<task, active, offering>>
       ELSE /\ task' = NoTask
            /\ active' = NoActive
            /\ offering' = IF offering = "no" THEN "no" ELSE "stale"
            /\ loopAt' = IF loopAt = "refused" THEN "shrinking" ELSE "compacting"
            /\ UNCHANGED ending
    /\ UNCHANGED <<context, correction, telemetry, budget, safety, job, guard, rejections, durable>>

WithoutMedia(messages) == [i \in DOMAIN messages |-> [messages[i] EXCEPT !.media = 0]]

StripSuffices ==
    LET stripped == Size(WithoutMedia(context))
    IN  /\ \E i \in DOMAIN context : context[i].media > 0
        /\ 10 * stripped < 8 * Size(context)
        /\ stripped < InputLimit

(* One summary of everything.                                                *)
Whole(size) ==
    <<[from |-> context[1].from, upto |-> LastOf(context), text |-> size + Guide,
       media |-> 0, embeds |-> TRUE]>>

(* reactiveCompact: the media go first, if that is enough.                   *)
Compacted(size) == IF StripSuffices THEN WithoutMedia(context) ELSE Whole(size)

(* After a refused request the loop starts its turn again.                   *)
Resumes == IF loopAt = "shrinking" THEN "boundary" ELSE "request"

(* What replaces the context must be shorter, and leave room for an answer.  *)
CompactNow ==
    /\ loopAt \in {"compacting", "shrinking"}
    /\ \E size \in 1..SummaryRoom :
         IF Size(Compacted(size)) < Min({Size(context), InputLimit})
         THEN context' = Compacted(size) /\ loopAt' = Resumes /\ UNCHANGED ending
         ELSE LeaveLoop("failed") /\ UNCHANGED context
    /\ UNCHANGED <<correction, telemetry, budget, task, safety, active, offering, job, guard,
                   rejections, durable>>

CompactNowFails ==
    /\ loopAt \in {"compacting", "shrinking"} /\ ~StripSuffices
    /\ LeaveLoop("failed")
    /\ UNCHANGED <<budget, task, safety, active, Held>>

-----------------------------------------------------------------------------
(* The request. With a job announced it needs the source turn guard, which   *)
(* the fork's offer and the workers of the job exclude.                      *)
AcquireGuard ==
    /\ loopAt = "request" /\ guard = "none" /\ offering = "no"
    /\ active # NoActive /\ active.prepared
    /\ IF ~active.offered /\ job.state = "queued"
       THEN guard' = "held" /\ UNCHANGED <<loopAt, ending>>
       ELSE LeaveLoop("paused") /\ UNCHANGED guard
    /\ UNCHANGED <<context, correction, telemetry, budget, task, safety, active, offering, job,
                   rejections, durable>>

GuardLapses ==
    /\ guard = "held"
    /\ guard' = "lost"
    /\ UNCHANGED <<context, correction, telemetry, budget, task, safety, active, offering, job,
                   loopAt, ending, rejections, durable>>

MayAsk == loopAt = "request" /\ (active # NoActive /\ active.prepared => guard # "none")

(* What a tool returned, as far as the next request has room for it: all of  *)
(* it, its text, or a receipt.                                               *)
AdmissionLimit(messages) ==
    LET reach    == IF Standing = NoTask THEN budget.fork ELSE budget.swap
        overflow == Window - Min({OutputRoom, 1})
    IN  IF budget.constrained
        THEN Min({overflow, reach, Size(messages) + budget.runway})
        ELSE Min({overflow, reach})

AdmittedResult(messages, result) ==
    LET limit == AdmissionLimit(messages)
        With(r) == Append(messages, r)
        text  == [result EXCEPT !.media = 0]
    IN  CASE Size(With(result)) <= limit -> result
          [] Size(With(result)) > limit /\ result.media > 0 /\ Size(With(text)) <= limit -> text
          [] OTHER -> [result EXCEPT !.text = 1, !.media = 0]

Turn == LastOf(context) + 1

Answered(said) ==
    Append(context, [from |-> Turn, upto |-> Turn, text |-> said, media |-> 0, embeds |-> FALSE])

Measured ==
    \E c \in Corrections :
       /\ correction' = c
       /\ telemetry' = Recorded(Tokens(context, c))

(* The answer and the result of its tool are one turn of the context.        *)
ToolTurn(said, result) ==
    LET returned == [from |-> Turn, upto |-> Turn, text |-> result.text,
                     media |-> result.media, embeds |-> FALSE]
        admitted == AdmittedResult(Answered(said), returned)
    IN  Append(context, [from |-> Turn, upto |-> Turn, text |-> said + admitted.text,
                         media |-> admitted.media, embeds |-> FALSE])

Fits(said) == said \in 1..Min({OutputRoom, Window - Tokens(context, correction)})

(* The turn is kept, then the guard goes back; a guard that cannot be given  *)
(* back means that the job took over, and the loop reloads before it asks    *)
(* again.                                                                    *)
AnswerTools ==
    /\ MayAsk /\ guard # "lost" /\ Turn <= MaxTurns
    /\ \E said \in 1..OutputRoom, text \in {0, 3}, media \in {0, 3}, kept \in BOOLEAN :
         /\ Fits(said)
         /\ context' = ToolTurn(said, [text |-> text, media |-> media])
         /\ kept \/ guard = "held"
         /\ IF kept THEN loopAt' = "boundary" /\ UNCHANGED ending ELSE LeaveLoop("paused")
    /\ Measured
    /\ guard' = "none"
    /\ UNCHANGED <<budget, task, safety, active, offering, job, rejections, durable>>

AnswerText ==
    /\ MayAsk /\ guard # "lost" /\ Turn <= MaxTurns
    /\ \E said \in 1..OutputRoom : Fits(said) /\ context' = Answered(said)
    /\ Measured
    /\ guard' = "none"
    /\ LeaveLoop("done")
    /\ UNCHANGED <<budget, task, safety, active, offering, job, rejections, durable>>

(* An answer whose guard was lost is dropped.                                *)
DropAnswer ==
    /\ MayAsk /\ guard = "lost"
    /\ guard' = "none"
    /\ LeaveLoop("paused")
    /\ UNCHANGED <<context, correction, telemetry, budget, task, safety, active, offering, job,
                   rejections, durable>>

Rejected ==
    /\ MayAsk /\ rejections < MaxRejections
    /\ rejections' = rejections + 1
    /\ guard' = "none"
    /\ loopAt' = "refused"
    /\ UNCHANGED <<context, correction, telemetry, budget, task, safety, active, offering, job,
                   ending, durable>>

RequestFails ==
    /\ MayAsk
    /\ guard' = "none"
    /\ LeaveLoop("failed")
    /\ UNCHANGED <<context, correction, telemetry, budget, task, safety, active, offering, job,
                   rejections, durable>>

(* Long after the last request the provider's cache is gone, and large tool  *)
(* results are folded to a receipt before the next one.                      *)
Foldable(message) == ~message.embeds /\ message.text > 3

Folded(messages) ==
    [i \in DOMAIN messages |-> IF Foldable(messages[i])
                               THEN [messages[i] EXCEPT !.text = 2, !.media = 0]
                               ELSE messages[i]]

FoldResults ==
    /\ loopAt = "boundary"
    /\ Folded(context) # context
    /\ context' = Folded(context)
    /\ UNCHANGED <<correction, telemetry, budget, task, safety, active, offering, job, guard,
                   loopAt, ending, rejections, durable>>

(* Stop, seen at the top of the loop.                                        *)
StopSeen ==
    /\ loopAt = "boundary"
    /\ LeaveLoop("done")
    /\ UNCHANGED <<budget, task, safety, active, Held>>

-----------------------------------------------------------------------------
(* The fork. What becomes of a summary or of the job after the loop is none  *)
(* of its memory.                                                            *)
Alive == loopAt \notin {"done", "failed", "paused"}

Calling == task.phase = "running" /\ task.stage = "calling"

SummaryFails ==
    /\ Calling
    /\ task' = [task EXCEPT !.phase = "failed"]
    /\ UNCHANGED <<budget, safety, active, loopAt, ending, Held>>

SummaryReady ==
    /\ Calling /\ ~task.prepared
    /\ \E size \in 1..SummaryRoom :
          task' = [phase |-> "succeeded", splice |-> task.splice, upto |-> task.upto, size |-> size]
    /\ UNCHANGED <<budget, safety, active, loopAt, ending, Held>>

(* The offer to the job excludes a guarded request; a deadline that passes   *)
(* meanwhile does not take it back.                                          *)
OfferSummary ==
    /\ Calling /\ task.prepared
    /\ guard = "none" /\ offering = "no"
    /\ task' = [task EXCEPT !.stage = "offering"]
    /\ offering' = "current"
    /\ UNCHANGED <<context, correction, telemetry, budget, safety, active, job, guard, loopAt,
                   ending, rejections, durable>>

OfferAnswered ==
    /\ Alive /\ offering # "no"
    /\ \E accepted \in BOOLEAN :
         /\ accepted => job.state = "queued"
         /\ accepted /\ offering = "current" => job.shape = active.shape
         /\ job' = IF accepted THEN [job EXCEPT !.state = "ready"] ELSE job
         /\ active' = IF accepted /\ offering = "current"
                      THEN [active EXCEPT !.offered = TRUE] ELSE active
         /\ task' = IF task.phase = "running" /\ task.stage = "offering"
                    THEN [task EXCEPT !.phase = IF accepted THEN "handed_off" ELSE "failed"]
                    ELSE task
    /\ offering' = "no"
    /\ UNCHANGED <<context, correction, telemetry, budget, safety, guard, loopAt, ending,
                   rejections, durable>>

(* The deadline of the fork, at which its job becomes anyone's.              *)
ForkTimesOut ==
    /\ task.phase = "running"
    /\ task' = [task EXCEPT !.phase = "failed"]
    /\ UNCHANGED <<budget, safety, active, loopAt, ending, Held>>

(* A worker takes the job, and ends it.                                      *)
WorkerTakes ==
    /\ Alive
    /\ job.state \in {"queued", "ready"} /\ guard # "held"
    /\ job' = [job EXCEPT !.state = "owned"]
    /\ UNCHANGED <<context, correction, telemetry, budget, task, safety, active, offering, guard,
                   loopAt, ending, rejections, durable>>

WorkerEnds ==
    /\ Alive
    /\ job.state = "owned"
    /\ \E state \in {"merged", "failed"} : job' = [job EXCEPT !.state = state]
    /\ UNCHANGED <<context, correction, telemetry, budget, task, safety, active, offering, guard,
                   loopAt, ending, rejections, durable>>

-----------------------------------------------------------------------------
(* The end of the loop, whatever its reason: a running fork is left to the   *)
(* durable job, or drained; a ready summary is merged.                       *)
HandOffFork ==
    /\ loopAt = "exit" /\ task.phase = "running" /\ active # NoActive
    /\ active.prepared => job.state # "failed"
    /\ job' = IF active.prepared THEN job ELSE [state |-> "queued", shape |-> active.shape]
    /\ task' = NoTask
    /\ active' = NoActive
    /\ offering' = IF offering = "no" THEN "no" ELSE "stale"
    /\ loopAt' = ending
    /\ UNCHANGED <<context, correction, telemetry, budget, safety, guard, ending, rejections,
                   durable>>

HandOffRefused ==
    /\ loopAt = "exit" /\ task.phase = "running"
    /\ loopAt' = "draining"
    /\ UNCHANGED <<budget, task, safety, active, ending, Held>>

Finalizing == loopAt \in {"exit", "draining"} /\ task.phase # "running"

(* A job announced and not handed over is activated all the same.            *)
FinalizeIdle ==
    /\ Finalizing /\ task.phase # "succeeded"
    /\ safety' = IF task.phase = "failed" THEN Failed(safety) ELSE safety
    /\ task' = NoTask
    /\ active' = NoActive
    /\ offering' = IF offering = "no" THEN "no" ELSE "stale"
    /\ LET mustActivate == active # NoActive /\ active.prepared /\ task.phase # "handed_off"
       IN  IF mustActivate /\ job.state = "failed"
           THEN loopAt' = "failed" /\ ending' = "failed"
           ELSE loopAt' = ending /\ UNCHANGED ending
    /\ UNCHANGED <<context, correction, telemetry, budget, job, guard, rejections, durable>>

FinalizeReady ==
    /\ Finalizing
    /\ \E size \in 1..SummaryRoom :
         /\ task.phase = "succeeded"
         /\ IF Mergeable(task.size)
            THEN /\ context' = Spliced(size)
                 /\ safety' = MergedSafety(safety)
                 /\ loopAt' = IF Tokens(Spliced(size), correction) < InputLimit
                              THEN ending ELSE "failed"
            ELSE safety' = Failed(safety) /\ loopAt' = "failed" /\ UNCHANGED context
    /\ task' = NoTask
    /\ active' = NoActive
    /\ UNCHANGED <<correction, telemetry, budget, offering, job, guard, ending, rejections,
                   durable>>

Over == loopAt \in {"done", "failed", "paused"} /\ UNCHANGED backgroundVars

BackgroundNext ==
    \/ \E p \in Paces :
          \/ Proceed(p) \/ StartFork(p) \/ AwaitFork(p) \/ MergeAtBoundary(p)
          \/ YieldToJob(p) \/ ForegroundDue(p)
    \/ PrepareShadow \/ StartLocal \/ PrepareFails
    \/ GiveUpWaiting \/ MergeAfterWait \/ Foreground \/ CompactNow \/ CompactNowFails
    \/ AcquireGuard \/ GuardLapses \/ AnswerTools \/ AnswerText \/ DropAnswer
    \/ Rejected \/ RequestFails \/ FoldResults \/ StopSeen
    \/ SummaryFails \/ SummaryReady \/ OfferSummary \/ OfferAnswered \/ ForkTimesOut
    \/ WorkerTakes \/ WorkerEnds
    \/ HandOffFork \/ HandOffRefused \/ FinalizeIdle \/ FinalizeReady \/ Over

BackgroundSpec == BackgroundInit /\ [][BackgroundNext]_backgroundVars

-----------------------------------------------------------------------------
BackgroundTypeOK ==
    /\ task.phase \in {"none", "running", "succeeded", "handed_off", "failed", "cancelled"}
    /\ offering \in {"no", "current", "stale"}
    /\ job.state \in {"none", "queued", "ready", "owned", "merged", "failed"}
    /\ guard \in {"none", "held", "lost"}
    /\ loopAt \in {"boundary", "starting", "waiting", "fallback", "refused", "compacting",
                   "shrinking", "request", "exit", "draining", "done", "failed", "paused"}
    /\ ending \in {"none", "done", "failed", "paused"}

(* A request leaves room for its answer, and a fork for its instruction and  *)
(* its summary, whatever the tools returned and however long the fork took.  *)
RequestsFit ==
    /\ loopAt = "request" => Size(context) <= InputLimit
    /\ Calling => task.tokens + Instruction + SummaryRoom <= Window

(* Whatever is folded, spliced, stripped or compacted, and in which order,   *)
(* the context stands for every turn once, in their order.                   *)
TurnsCovered ==
    /\ context[1].from = 1
    /\ \A i \in 1..Len(context) - 1 : context[i + 1].from = context[i].upto + 1

(* As long as a durable job may merge a frozen prefix, the loop has not      *)
(* replaced that prefix in its memory.                                       *)
PreparedPrefixKept ==
    job.state \in {"queued", "ready", "owned"} =>
       /\ Len(job.shape) <= Len(context)
       /\ \A i \in DOMAIN job.shape : context[i].upto = job.shape[i]

BackgroundSound == RequestsFit /\ TurnsCovered /\ PreparedPrefixKept
=============================================================================
