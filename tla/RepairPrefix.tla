----------------------------- MODULE RepairPrefix -----------------------------
(* Which prefix of a history the repair command summarises: the longest that *)
(* fits the request for a summary, cut where no tool call is open. The       *)
(* history is built message by message, as a loop and its tools build one,   *)
(* and as one that was cut short or written twice would look.                *)
EXTENDS Integers, SequencesExt

CONSTANTS
    Calls,        \* tool calls, by their ids
    Sizes,        \* what a message may cost, in units of tokens
    RequestLimit, \* what a request may cost, without its fixed parts
    MaxMessages   \* bound on the length of the history

ASSUME PrefixAssumption == Sizes \subseteq Nat /\ RequestLimit \in Int

VARIABLE history  \* the messages: the calls they use, the results they hold

None == 0

PrefixInit == history = <<>>

Write(uses, results, size) ==
    /\ Len(history) < MaxMessages
    /\ history' = Append(history, [uses |-> uses, results |-> results, size |-> size])

PrefixNext ==
    \/ \E uses \in SUBSET Calls, size \in Sizes : Write(uses, {}, size)
    \/ \E results \in SUBSET Calls \ {{}}, size \in Sizes : Write({}, results, size)
    \/ Len(history) = MaxMessages /\ UNCHANGED history

PrefixSpec == PrefixInit /\ [][PrefixNext]_history

-----------------------------------------------------------------------------
UsesOf(messages)    == UNION {messages[i].uses : i \in DOMAIN messages}
ResultsOf(messages) == UNION {messages[i].results : i \in DOMAIN messages}

(* isSafeRepairPrefixBoundary. *)
IsSafeBoundary(messages, length) ==
    LET prefix == SubSeq(messages, 1, length)
        tail   == SubSeq(messages, length + 1, Len(messages))
    IN  /\ length \in 1..Len(messages) - 1
        /\ UsesOf(prefix) \subseteq ResultsOf(prefix) \ ResultsOf(tail)
        /\ ResultsOf(prefix) \subseteq UsesOf(prefix)

(* assertWellFormedRepairToolHistory: every call once, then its result once. *)
WellFormed(messages) ==
    /\ \A i \in DOMAIN messages :
          LET before == SubSeq(messages, 1, i - 1)
          IN  /\ messages[i].uses \intersect UsesOf(before) = {}
              /\ messages[i].results \subseteq UsesOf(SubSeq(messages, 1, i)) \ ResultsOf(before)
    /\ UsesOf(messages) \subseteq ResultsOf(messages)

EstimateOf(messages) == FoldRight(LAMBDA m, sum : sum + m.size, messages, 0)

(* The longest prefix that fits, found by halving.                           *)
LargestFitting(messages) ==
    LET fits(n) == EstimateOf(SubSeq(messages, 1, n)) <= RequestLimit
        search[range \in (1..Len(messages)) \X (0..Len(messages) - 1)] ==
            LET low == range[1] high == range[2] middle == (low + high) \div 2
            IN  CASE low > high -> 0
                  [] low <= high /\ fits(middle) ->
                        Max({middle, search[<<middle + 1, high>>]})
                  [] OTHER -> search[<<low, middle - 1>>]
    IN  search[<<1, Len(messages) - 1>>]

(* selectSafeRepairCompactionPrefix: its length, or None for its errors.     *)
Select(messages) ==
    LET closed == {n \in 1..LargestFitting(messages) : IsSafeBoundary(messages, n)}
    IN  IF Len(messages) < 2 \/ ~WellFormed(messages) \/ closed = {} THEN None ELSE Max(closed)

-----------------------------------------------------------------------------
(* What a summary may stand for: something, leaving something, no more than  *)
(* a request holds, and every call together with its one result.             *)
Summarisable(n) ==
    /\ n \in 1..Len(history) - 1
    /\ EstimateOf(SubSeq(history, 1, n)) <= RequestLimit
    /\ \A i, j \in DOMAIN history :
          history[i].uses \intersect history[j].results # {} => (i <= n <=> j <= n)

(* In a history in which every call has one result, after it, the longest    *)
(* such prefix is found if there is one; in any other none is.               *)
Paired ==
    \A c \in Calls :
       LET used == {i \in DOMAIN history : c \in history[i].uses}
           held == {i \in DOMAIN history : c \in history[i].results}
       IN  \/ used = {} /\ held = {}
           \/ \E i, j \in DOMAIN history : used = {i} /\ held = {j} /\ i < j

PrefixSelected ==
    LET candidates == {n \in DOMAIN history : Summarisable(n)}
    IN  Select(history) = IF Paired /\ candidates # {} THEN Max(candidates) ELSE None
=============================================================================
