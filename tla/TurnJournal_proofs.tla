------------------------- MODULE TurnJournal_proofs --------------------------
(***************************************************************************)
(* Proofs about the journal of a turn: what the transcript says of a call  *)
(* is what has become of it, and the context a member goes on with has one *)
(* result of each call, although a host that was thought dead may still    *)
(* execute a tool or write to the transcript.                              *)
(*                                                                         *)
(* A call is fresh until the run names it as its current action.  Only     *)
(* the host whose response has made the call can execute a fresh one, and  *)
(* it has no answer then; a call that was begun stays the current action   *)
(* of the run until it is answered, so that the next host finds it.        *)
(***************************************************************************)
EXTENDS MCStores, Stores_proofs, WellFoundedInduction

Idle(h)  == hplace[h] = "idle"
Command  == {"begin", "reserve", "permit", "write", "settle"}
Busy     == {"execute", "answer", "answered"} \cup Command
Starting == {"load", "recover", "close", "closed"}
AtModel  == {"model", "made"}

\* A host has a call of its own response at hand.
OfResponse(h) == hplace[h] \in Busy /\ hstart[h] = NoCall

\* A host's copy of the transcript, and the calls it has left.
Copies(h) ==
    /\ closed[h] \subseteq Answered /\ closed[h] \subseteq seen[h] /\ seen[h] \subseteq made
    /\ todo[h] \subseteq seen[h]
    /\ ~Idle(h) => hlease[h] > 0
    /\ hplace[h] \in {"idle", "load"} => seen[h] = {} /\ closed[h] = {}
    /\ hplace[h] \in {"idle", "ask", "turn", "model"} \cup Starting => todo[h] = {}
    /\ hstart[h] # NoCall => todo[h] = {} /\ hplace[h] \in Starting \cup Command
    /\ OfResponse(h) => todo[h] # {}

\* The call it was left in, while it recovers.
Recovering(h) ==
    /\ hplace[h] \in Command /\ hstart[h] # NoCall => hstart[h] \in seen[h] \ closed[h]
    /\ hplace[h] = "recover" /\ hstart[h] \in Calls => hstart[h] \in seen[h]
    /\ hplace[h] = "close" =>
          IF out[h] = "none" THEN hstart[h] \in Calls => hstart[h] \in closed[h]
          ELSE hstart[h] \in seen[h] \ closed[h]
    /\ hplace[h] = "closed" /\ hstart[h] \in Calls => hstart[h] \in closed[h]

\* The calls without a result in its copy.
Opened(h) ==
    /\ hplace[h] \in {"closed", "turn", "model", "ask"} => seen[h] \subseteq closed[h]
    /\ hplace[h] = "made" => todo[h] \subseteq closed[h] \/ todo[h] \cap closed[h] = {}
    /\ hplace[h] = "calls" => todo[h] \cap closed[h] = {}
    /\ OfResponse(h) =>
          todo[h] \cap closed[h] = IF hplace[h] = "answered" THEN {Hand(h)} ELSE {}
    /\ hplace[h] \in {"made", "calls"} \/ OfResponse(h) => seen[h] \ closed[h] \subseteq todo[h]

\* What it is about to say of the call at hand.
Outcomes(h) ==
    /\ hplace[h] \in Command => IsTeam(Hand(h))
    /\ hplace[h] = "execute" => ~IsTeam(Hand(h)) /\ sort[Hand(h)] # "bad"
    /\ hplace[h] \in {"answer", "answered"} =>
          IF sort[Hand(h)] = "bad" THEN out[h] = "rejected" ELSE out[h] \in {"answer", "error"}
    /\ hplace[h] = "close" => out[h] \in {"none", "answer", "error", "unknown"}
    /\ hplace[h] \in {"idle", "load", "recover", "execute", "turn", "model", "made", "calls"} \cup Command =>
          out[h] = "none"
    /\ hplace[h] \in {"idle", "load", "recover", "turn", "model", "made", "calls", "begin", "reserve"} =>
          cstep[h] = 1

Local(h) == Copies(h) /\ Recovering(h) /\ Opened(h) /\ Outcomes(h)
HostPart == \A h \in Hosts : Local(h)

\* Host h has begun call c, or is about to, and has not taken it out of its list.
InHand(h, c) == hplace[h] \in Busy /\ c = Hand(h) /\ sort[c] # "bad"

\* The current action of a run, as its owner expects it.
Expected(h) ==
    IF hstart[h] # NoCall \/ hplace[h] \in Starting THEN hstart[h]
    ELSE IF hplace[h] \in AtModel THEN Model
    ELSE IF hplace[h] \in Busy /\ sort[Hand(h)] # "bad" THEN Hand(h)
    ELSE NoCall

ActionPart ==
    /\ runAction \in Calls => runAction \in made
    /\ \A h \in Hosts : OwnsRun(h) /\ ~Idle(h) => runAction = Expected(h)

\* Something has been done for the call; nothing has, and no host was told to recover it.
Begun(c) == effects[c] > 0 \/ receipt[c] # "none" \/ done[c] # {}
Fresh(c) == ~Begun(c) /\ runAction # c /\ \A h \in Hosts : hstart[h] # c

AnswerPart ==
    /\ Answered \subseteq made
    /\ \A a \in answers : a.as = "rejected" => sort[a.call] = "bad"
    /\ keeper = "session" => \A a, b \in answers : a.call = b.call => a = b
    /\ made = 1..Cardinality(made)

TodoPart ==
    /\ \A h, g \in Hosts : h # g => todo[h] \cap todo[g] = {}
    /\ \A h \in Hosts : \A c \in todo[h] : InHand(h, c) \/ Fresh(c)

FreshPart == \A c \in Calls : c \notin made \/ sort[c] = "bad" \/ c \in NeverRan => Fresh(c)

\* The host that could still begin a call that was not run does not.
PutAside(h, c) ==
    \/ c \in closed[h] \/ sort[c] = "bad"
    \/ keeper = "session" /\ ~OwnsRun(h) /\ ~InHand(h, c)
NeverPart == \A h \in Hosts : \A c \in todo[h] \cap NeverRan : PutAside(h, c)

\* A call that was begun is answered, or the next host finds it.
Over == runPhase \in {"cancelled", "failed", "completed"}
Tracked(c) == c \in Answered \/ runAction = c \/ Over
TrackPart ==
    keeper = "session" =>
       \A c \in Calls : Begun(c) \/ (\E h \in Hosts : InHand(h, c) \/ hstart[h] = c) => Tracked(c)

EffectPart ==
    /\ PlainToolOnce
    /\ \A h \in Hosts : hplace[h] = "execute" => effects[Hand(h)] = 0

Whole(c) == done[c] = 1..Phases
Commanding(h) ==
    /\ hplace[h] \in Command => 1..(cstep[h] - 1) \subseteq done[Hand(h)]
    /\ hplace[h] = "write" => cstep[h] <= Phases
    /\ hplace[h] = "settle" => cstep[h] = Phases + 1
    /\ hplace[h] \in {"answer", "close"} /\ out[h] = "answer" /\ IsTeam(Hand(h)) => Whole(Hand(h))
CommandPart ==
    /\ \A c \in Calls : receipt[c] = "completed" => Whole(c)
    /\ AnsweredCommandIsWhole
    /\ \A h \in Hosts : Commanding(h)

\* The copy of a host that nobody else writes beside is the transcript.
Alone(h) ==
    /\ hplace[h] \notin {"idle", "load"}
    /\ (keeper = "session" /\ OwnsRun(h)) \/ (keeper = "conversation" /\ ~recovered)
SolePart == \A h \in Hosts : Alone(h) => seen[h] = made /\ closed[h] = Answered

\* A conversation that was never left: one host, and no call open between two leases.
SoloPart ==
    keeper = "conversation" /\ ~recovered =>
       /\ \A h, g \in Hosts : ~Idle(h) /\ ~Idle(g) => h = g
       /\ runPhase # "recoverable"
       /\ runPhase \in {"queued", "waiting"} => made \subseteq Answered /\ \A h \in Hosts : Idle(h)
       /\ \A h \in Hosts : hstart[h] = NoCall =>
             /\ hplace[h] = "load" => made \subseteq Answered
             /\ hplace[h] \in {"recover", "close"} => seen[h] \subseteq closed[h]

\* The inductive invariant.
JInv ==
    /\ JournalTypeOK /\ HostPart /\ ActionPart /\ AnswerPart /\ TodoPart /\ FreshPart /\ NeverPart
    /\ TrackPart /\ EffectPart /\ CommandPart /\ SolePart /\ SoloPart

-----------------------------------------------------------------------------
(* Lemmas. *)

(* The next of the calls that are left. *)
LEMMA FirstIsIn ==
  ASSUME NEW S \in SUBSET Calls, S # {}
  PROVE  First(S) \in S
<1>1. S \subseteq Nat
  BY JournalAssumption DEF Calls, JournalAssumption
<1> DEFINE Less == OpToRel(<, Nat)
<1>2. \A x, y \in Nat : x < y => <<x, y>> \in Less
  BY DEF OpToRel
<1>3. PICK x \in S : \A y \in S : <<y, x>> \notin Less
  <2>1. IsWellFoundedOn(Less, Nat)
    BY NatLessThanWellFounded
  <2> HIDE DEF Less
  <2> QED
    BY <1>1, <2>1, WFMin
<1> HIDE DEF Less
<1>4. ASSUME NEW y \in S PROVE x <= y
  <2>1. x \in Nat /\ y \in Nat
    BY <1>1
  <2>2. ~(y < x)
    BY <1>2, <1>3, <2>1
  <2> QED
    BY <2>1, <2>2
<1> QED
  BY <1>4 DEF First

(* The call at hand is one of the transcript: the one the host was left in, open in its
   copy, or one that is left of its response. *)
LEMMA HandOf ==
  ASSUME JournalTypeOK, NEW h \in Hosts, Local(h), hplace[h] \in Busy
  PROVE  /\ Hand(h) \in Calls /\ Hand(h) \in made
         /\ hstart[h] = NoCall => Hand(h) \in todo[h]
         /\ hstart[h] # NoCall => Hand(h) = hstart[h] /\ Hand(h) \in seen[h] \ closed[h]
<1>1. todo[h] \in SUBSET Calls /\ seen[h] \subseteq made /\ todo[h] \subseteq seen[h] /\ made \subseteq Calls
  BY DEF JournalTypeOK, Local, Copies
<1>2. CASE hstart[h] = NoCall
  BY <1>1, <1>2, FirstIsIn DEF Hand, Repeats, Local, Copies, OfResponse
<1>3. CASE hstart[h] # NoCall
  BY <1>1, <1>3 DEF Hand, Repeats, Local, Copies, Recovering, Busy, Starting
<1> QED
  BY <1>2, <1>3

LEMMA NextOf ==
  ASSUME JournalTypeOK, NEW h \in Hosts, Local(h), hplace[h] = "calls", todo[h] # {}
  PROVE  Hand(h) \in todo[h] /\ Hand(h) \in made /\ Hand(h) \in Calls /\ Hand(h) \notin closed[h]
<1>1. todo[h] \in SUBSET Calls /\ seen[h] \subseteq made /\ todo[h] \subseteq seen[h]
  BY DEF JournalTypeOK, Local, Copies
<1>2. hstart[h] = NoCall
  BY DEF Local, Copies, Starting, Command
<1>3. Hand(h) \in todo[h]
  BY <1>1, <1>2, FirstIsIn DEF Hand, Repeats
<1> QED
  BY <1>1, <1>3 DEF Local, Opened

(* A call that was not run is in the transcript, with the answer that says so. *)
LEMMA NeverRanIs ==
  ASSUME NEW c
  PROVE  c \in NeverRan <=> \E a \in answers : /\ a.call = c
                                               /\ \/ a.as \in {"interrupted", "rejected"}
                                                  \/ a.as = "orphan" /\ keeper = "session"
BY DEF NeverRan

LEMMA AnsweredIs ==
  ASSUME NEW c
  PROVE  c \in Answered <=> \E a \in answers : a.call = c
BY DEF Answered

-----------------------------------------------------------------------------
(* What a step of one host leaves to the others. *)

Same(g) ==
    /\ hplace'[g] = hplace[g] /\ hlease'[g] = hlease[g] /\ seen'[g] = seen[g] /\ closed'[g] = closed[g]
    /\ hstart'[g] = hstart[g] /\ todo'[g] = todo[g] /\ out'[g] = out[g] /\ cstep'[g] = cstep[g]
OthersStay(h) == \A g \in Hosts \ {h} : Same(g)

\* The transcript only grows.
Grows ==
    /\ UNCHANGED keeper
    /\ made \subseteq made' /\ answers \subseteq answers' /\ \A c \in made : sort'[c] = sort[c]

LEMMA SameHand ==
  ASSUME NEW g \in Hosts, Same(g)
  PROVE  Hand(g)' = Hand(g) /\ OfResponse(g)' = OfResponse(g) /\ Idle(g)' = Idle(g)
BY DEF Same, Hand, Repeats, First, OfResponse, Idle

LEMMA SameLocal ==
  ASSUME JournalTypeOK, NEW g \in Hosts, Local(g), Same(g), Grows
  PROVE  /\ Local(g)'
         /\ \A c : InHand(g, c)' <=> InHand(g, c)
         /\ Expected(g)' = Expected(g)
<1>1. Hand(g)' = Hand(g) /\ OfResponse(g)' = OfResponse(g) /\ Idle(g)' = Idle(g)
  BY SameHand
<1>2. ASSUME hplace[g] \in Busy PROVE Hand(g) \in made /\ sort'[Hand(g)] = sort[Hand(g)]
  BY <1>2, HandOf DEF Grows
<1>3. Answered \subseteq Answered'
  BY DEF Grows, Answered
<1>4. Copies(g)'
  BY <1>1, <1>3 DEF Local, Copies, Same, Grows
<1>5. Recovering(g)' /\ Opened(g)'
  BY <1>1 DEF Local, Recovering, Opened, Same
<1>6. Outcomes(g)'
  BY <1>1, <1>2 DEF Local, Outcomes, Same, IsTeam, Busy
<1>7. \A c : InHand(g, c)' <=> InHand(g, c)
  BY <1>1, <1>2 DEF InHand, Same
<1>8. Expected(g)' = Expected(g)
  BY <1>1, <1>2 DEF Expected, Same, AtModel
<1> QED
  BY <1>4, <1>5, <1>6, <1>7, <1>8 DEF Local

LEMMA SameCommanding ==
  ASSUME JournalTypeOK, NEW g \in Hosts, Local(g), Same(g), Grows, Commanding(g),
         \A c \in Calls : done[c] \subseteq done'[c] /\ done'[c] \subseteq 1..Phases
  PROVE  Commanding(g)'
<1>1. Hand(g)' = Hand(g)
  BY SameHand
<1>2. CASE hplace[g] \in Busy
  <2>1. Hand(g) \in Calls /\ sort'[Hand(g)] = sort[Hand(g)]
    BY <1>2, HandOf DEF Grows
  <2>2. done[Hand(g)] \subseteq done'[Hand(g)] /\ done'[Hand(g)] \subseteq 1..Phases
    BY <2>1
  <2> QED
    BY <1>1, <1>2, <2>1, <2>2 DEF Commanding, Same, Whole, IsTeam, Busy, Command
<1>3. CASE hplace[g] = "close" /\ out[g] # "none"
  <2>1. hstart[g] \in made /\ hstart[g] # NoCall
    BY <1>3, JournalAssumption DEF Local, Copies, Recovering, JournalTypeOK, Calls, NoCall, JournalAssumption
  <2>2. Hand(g) = hstart[g] /\ Hand(g) \in Calls /\ sort'[Hand(g)] = sort[Hand(g)]
    BY <2>1 DEF Hand, Repeats, Grows, JournalTypeOK
  <2>3. done[Hand(g)] \subseteq done'[Hand(g)] /\ done'[Hand(g)] \subseteq 1..Phases
    BY <2>2
  <2> QED
    BY <1>1, <1>3, <2>2, <2>3 DEF Commanding, Same, Whole, IsTeam, Busy, Command
<1> QED
  BY <1>1, <1>2, <1>3 DEF Commanding, Same, Busy, Command

-----------------------------------------------------------------------------
(* A step of a host that goes on and writes nothing to the transcript. *)

Takes(h) == hplace[h] \in {"execute"} \cup Command
Enters(h, c) == hplace[h] = "calls" /\ OwnsRun(h) /\ todo[h] # {} /\ c = Hand(h) /\ sort[c] # "bad"

\* Where it goes.
Moves(h) ==
    /\ OthersStay(h) /\ ~Idle(h) /\ hplace'[h] \notin {"idle", "load"}
    /\ UNCHANGED <<keeper, runPhase, runOwner, recovered, made, sort, answers>>
    /\ hstart'[h] \in {hstart[h], NoCall} /\ todo'[h] \subseteq todo[h]
    /\ \/ hplace[h] = "load" /\ seen'[h] = made /\ closed'[h] = Answered
       \/ hplace[h] # "load" /\ seen'[h] = seen[h] /\ closed'[h] = closed[h]
    /\ hplace'[h] \in {"recover", "close"} =>
          hstart'[h] = hstart[h] /\ (hstart[h] = NoCall => hplace[h] \in {"load", "recover"})

\* What it makes of the run's current action.
Names(h) ==
    /\ OwnsRun(h) => runAction' = Expected(h)'
    /\ runAction' # runAction => OwnsRun(h) /\ (runAction \in Calls => runAction \in Answered)
    /\ runAction' \in Calls => runAction' = runAction \/ Enters(h, runAction')

\* Which calls it has at hand.
Handles(h) ==
    /\ \A c \in Calls : InHand(h, c)' => InHand(h, c) \/ hstart[h] = c \/ (Enters(h, c) /\ runAction' = c)
    /\ \A c \in todo'[h] : InHand(h, c) \/ (Enters(h, c) /\ runAction' = c) => InHand(h, c)'
    /\ hplace'[h] = "execute" => Enters(h, Hand(h)) /\ Hand(h)' = Hand(h)

\* What it does to them.
Does(h) ==
    /\ \A c \in Calls : c # Hand(h) \/ ~Takes(h) =>
          effects'[c] = effects[c] /\ receipt'[c] = receipt[c] /\ done'[c] = done[c]
    /\ \A c \in Calls : effects'[c] = effects[c] \/ (hplace[h] = "execute" /\ effects'[c] = effects[c] + 1)
    /\ \A c \in Calls : done[c] \subseteq done'[c]
    /\ \A c \in Calls : receipt'[c] = "completed" => Whole(c)'
    /\ Commanding(h)'

Acts(h) == Moves(h) /\ Names(h) /\ Handles(h) /\ Does(h)

(* A call that was not run is not the one a host is about to begin. *)
LEMMA BegunMayRun ==
  ASSUME JInv, NEW h \in Hosts, NEW c \in todo[h], Enters(h, c) \/ (Takes(h) /\ c = Hand(h))
  PROVE  c \notin NeverRan
<1>1. Local(h) /\ JournalTypeOK /\ c \in Calls
  BY DEF JInv, HostPart, JournalTypeOK
<1>2. hstart[h] = NoCall
  BY <1>1 DEF Local, Copies
<1>3. CASE Enters(h, c)
  <2>1. c \notin closed[h] /\ sort[c] # "bad" /\ OwnsRun(h)
    BY <1>1, <1>3 DEF Enters, Local, Opened
  <2> QED
    BY <2>1 DEF JInv, NeverPart, PutAside
<1>4. CASE Takes(h) /\ c = Hand(h)
  <2>1. c \notin closed[h]
    BY <1>1, <1>2, <1>4 DEF Local, Opened, OfResponse, Takes, Busy, Command
  <2>2. sort[c] # "bad" /\ InHand(h, c)
    BY <1>1, <1>4 DEF Local, Outcomes, Takes, Busy, Command, IsTeam, InHand
  <2> QED
    BY <2>1, <2>2 DEF JInv, NeverPart, PutAside
<1> QED
  BY <1>3, <1>4

(* Only the host that has a fresh call left begins it. *)
LEMMA FreshStays ==
  ASSUME JInv, NEW h \in Hosts, Acts(h), NEW c \in Calls, Fresh(c)
  PROVE  Fresh(c)' \/ (c \in todo[h] /\ ((Enters(h, c) /\ runAction' = c) \/ (Takes(h) /\ c = Hand(h))))
<1>1. Local(h) /\ JournalTypeOK
  BY DEF JInv, HostPart
<1>2. \A g \in Hosts : hstart'[g] # c
  BY JournalAssumption DEF Acts, Moves, OthersStay, Same, Fresh, Calls, NoCall, JournalAssumption
<1>3. CASE Takes(h) /\ c = Hand(h)
  <2>1. hplace[h] \in Busy
    BY <1>3 DEF Takes, Busy
  <2>2. hstart[h] = NoCall
    BY <1>1, <1>3, <2>1, HandOf DEF Fresh
  <2> QED
    BY <1>1, <1>3, <2>1, <2>2, HandOf
<1>4. CASE ~(Takes(h) /\ c = Hand(h))
  <2>1. ~Begun(c)'
    BY <1>4 DEF Acts, Does, Fresh, Begun
  <2>2. CASE runAction' = c
    <3>1. Enters(h, c)
      BY <2>2 DEF Acts, Names, Fresh
    <3>2. c \in todo[h]
      BY <1>1, <3>1, NextOf DEF Enters
    <3> QED
      BY <2>2, <3>1, <3>2
  <2>3. CASE runAction' # c
    BY <1>2, <2>1, <2>3 DEF Fresh
  <2> QED
    BY <2>2, <2>3
<1> QED
  BY <1>3, <1>4

LEMMA ActsKeepCalls ==
  ASSUME JInv, NEW h \in Hosts, Acts(h), Local(h)'
  PROVE  TodoPart' /\ FreshPart' /\ NeverPart' /\ EffectPart'
<1>1. JournalTypeOK /\ HostPart /\ TodoPart /\ FreshPart /\ NeverPart /\ EffectPart /\ Grows /\ NeverRan' = NeverRan
  BY DEF JInv, Acts, Moves, Grows, NeverRan
<1>2. \A g \in Hosts : todo'[g] \subseteq todo[g]
  BY DEF Acts, Moves, OthersStay, Same
<1>3. \A g \in Hosts \ {h} : (\A c : InHand(g, c)' <=> InHand(g, c)) /\ Hand(g)' = Hand(g)
  BY <1>1, SameLocal, SameHand DEF HostPart, Acts, Moves, OthersStay
<1>4. \A g \in Hosts : todo[g] \subseteq Calls
  BY <1>1 DEF JournalTypeOK
<1>5. ASSUME NEW c \in todo[h], Takes(h), c = Hand(h) PROVE InHand(h, c) /\ c \in made
  BY <1>1, <1>5, HandOf DEF HostPart, Local, Outcomes, Takes, Busy, Command, IsTeam, InHand
<1>6. TodoPart'
  <2>1. \A f, g \in Hosts : f # g => todo'[f] \cap todo'[g] = {}
    BY <1>1, <1>2 DEF TodoPart
  <2>2. ASSUME NEW g \in Hosts, NEW c \in todo'[g] PROVE InHand(g, c)' \/ Fresh(c)'
    <3>1. c \in todo[g] /\ c \in Calls /\ (InHand(g, c) \/ Fresh(c))
      BY <1>1, <1>2, <1>4, <2>2 DEF TodoPart
    <3>2. CASE g = h
      <4>1. InHand(h, c) => InHand(h, c)'
        BY <2>2, <3>2 DEF Acts, Handles
      <4>2. Enters(h, c) /\ runAction' = c => InHand(h, c)'
        BY <2>2, <3>2 DEF Acts, Handles
      <4> QED
        BY <1>5, <3>1, <3>2, <4>1, <4>2, FreshStays
    <3>3. CASE g # h
      <4>1. c \notin todo[h]
        BY <1>1, <3>1, <3>3 DEF TodoPart
      <4> QED
        BY <1>3, <3>1, <3>3, <4>1, FreshStays
    <3> QED
      BY <3>2, <3>3
  <2> QED
    BY <2>1, <2>2 DEF TodoPart
<1>7. FreshPart'
  <2> SUFFICES ASSUME NEW c \in Calls, c \notin made \/ sort[c] = "bad" \/ c \in NeverRan PROVE Fresh(c)'
    BY <1>1 DEF FreshPart, Acts, Moves
  <2>1. Fresh(c)
    BY <1>1 DEF FreshPart
  <2>2. ASSUME c \in todo[h], Enters(h, c) \/ (Takes(h) /\ c = Hand(h)) PROVE FALSE
    <3>1. c \notin NeverRan
      BY <2>2, BegunMayRun
    <3>2. sort[c] # "bad"
      BY <1>5, <2>2 DEF Enters, InHand
    <3>3. c \in made
      BY <1>1, <2>2 DEF HostPart, Local, Copies
    <3> QED
      BY <3>1, <3>2, <3>3
  <2> QED
    BY <2>1, <2>2, FreshStays
<1>8. NeverPart'
  <2> SUFFICES ASSUME NEW g \in Hosts, NEW c \in todo'[g] \cap NeverRan PROVE PutAside(g, c)'
    BY <1>1 DEF NeverPart
  <2>1. c \in todo[g] /\ PutAside(g, c) /\ c \in Calls
    BY <1>1, <1>2, <1>4 DEF NeverPart
  <2>2. CASE g # h
    BY <1>3, <2>1, <2>2 DEF PutAside, Acts, Moves, OthersStay, Same, OwnsRun
  <2>3. CASE g = h
    <3>1. hplace[h] # "load" /\ closed'[h] = closed[h] /\ hstart[h] = NoCall
      BY <1>1, <2>1, <2>3 DEF HostPart, Local, Copies, Starting, Acts, Moves
    <3>2. InHand(h, c)' => InHand(h, c) \/ OwnsRun(h)
      <4>1. hstart[h] # c
        BY <2>1, <3>1, JournalAssumption DEF Calls, NoCall, JournalAssumption
      <4> QED
        BY <2>1, <4>1 DEF Acts, Handles, Enters
    <3> QED
      BY <2>1, <2>3, <3>1, <3>2 DEF PutAside, Acts, Moves, OwnsRun
  <2> QED
    BY <2>2, <2>3
<1>9. EffectPart'
  <2>1. ASSUME NEW c \in Calls PROVE effects'[c] <= 1
    <3>1. CASE c = Hand(h) /\ hplace[h] = "execute"
      <4>1. effects[c] = 0
        BY <1>1, <3>1 DEF EffectPart
      <4> QED
        BY <4>1 DEF Acts, Does
    <3>2. CASE ~(c = Hand(h) /\ hplace[h] = "execute")
      <4>1. effects'[c] = effects[c]
        <5>1. c # Hand(h) \/ ~Takes(h) \/ hplace[h] # "execute"
          BY <3>2
        <5> QED
          BY <5>1 DEF Acts, Does
      <4> QED
        BY <1>1, <4>1 DEF EffectPart, PlainToolOnce
    <3> QED
      BY <3>1, <3>2
  <2>2. ASSUME NEW g \in Hosts, hplace'[g] = "execute" PROVE effects'[Hand(g)'] = 0
    <3>1. CASE g # h
      <4>1. hplace[g] = "execute" /\ Hand(g)' = Hand(g)
        BY <1>3, <2>2, <3>1 DEF Acts, Moves, OthersStay, Same
      <4>2. Local(g) /\ hstart[g] = NoCall /\ hplace[g] \in Busy
        BY <1>1, <4>1 DEF HostPart, Local, Copies, Starting, Command, Busy
      <4>3. Hand(g) \in todo[g] /\ Hand(g) \in Calls
        BY <1>1, <4>2, HandOf
      <4>4. Hand(g) # Hand(h) \/ hplace[h] # "execute"
        <5>1. ASSUME hplace[h] = "execute" PROVE Hand(h) \in todo[h]
          <6>1. Local(h) /\ hstart[h] = NoCall /\ hplace[h] \in Busy
            BY <1>1, <5>1 DEF HostPart, Local, Copies, Starting, Command, Busy
          <6> QED
            BY <1>1, <6>1, HandOf
        <5> QED
          BY <1>1, <3>1, <4>3, <5>1 DEF TodoPart
      <4>5. effects'[Hand(g)] = effects[Hand(g)]
        BY <4>3, <4>4 DEF Acts, Does
      <4> QED
        BY <1>1, <4>1, <4>5 DEF EffectPart
    <3>2. CASE g = h
      <4>1. Enters(h, Hand(h)) /\ Hand(h)' = Hand(h)
        BY <2>2, <3>2 DEF Acts, Handles
      <4>2. Hand(h) \in todo[h] /\ Hand(h) \in Calls
        BY <1>1, <4>1, NextOf DEF Enters, HostPart
      <4>3. Fresh(Hand(h))
        BY <1>1, <4>1, <4>2 DEF TodoPart, InHand, Enters, Busy, Command
      <4>4. effects[Hand(h)] \in Nat /\ ~(effects[Hand(h)] > 0)
        BY <1>1, <4>2, <4>3 DEF Fresh, Begun, JournalTypeOK
      <4>5. effects'[Hand(h)] = effects[Hand(h)]
        BY <4>1, <4>2 DEF Acts, Does, Enters
      <4> QED
        BY <3>2, <4>1, <4>4, <4>5
    <3> QED
      BY <3>1, <3>2
  <2> QED
    BY <2>1, <2>2 DEF EffectPart, PlainToolOnce
<1> QED
  BY <1>6, <1>7, <1>8, <1>9

LEMMA ActsKeepRun ==
  ASSUME JInv, NEW h \in Hosts, Acts(h), Local(h)', JournalTypeOK'
  PROVE  HostPart' /\ ActionPart' /\ AnswerPart' /\ TrackPart' /\ CommandPart' /\ SolePart' /\ SoloPart'
<1>1. JournalTypeOK /\ HostPart /\ Grows /\ Answered' = Answered
  BY DEF JInv, Acts, Moves, Grows, Answered
<1>2. \A g \in Hosts \ {h} : /\ Local(g)' /\ Same(g)
                             /\ \A c : InHand(g, c)' <=> InHand(g, c)
                             /\ Expected(g)' = Expected(g)
  BY <1>1, SameLocal DEF HostPart, Acts, Moves, OthersStay
<1>3. HostPart'
  BY <1>2 DEF HostPart
<1>4. ActionPart'
  <2>1. runAction' \in Calls => runAction' \in made
    <3>1. ASSUME runAction' \in Calls, Enters(h, runAction') PROVE runAction' \in made
      BY <1>1, <3>1, NextOf DEF Enters, HostPart
    <3> QED
      BY <3>1 DEF JInv, ActionPart, Acts, Names
  <2>2. ASSUME NEW g \in Hosts, OwnsRun(g)', ~Idle(g)' PROVE runAction' = Expected(g)'
    <3>1. CASE g = h
      BY <2>2, <3>1 DEF Acts, Names, Moves, OwnsRun
    <3>2. CASE g # h
      <4>1. OwnsRun(g) /\ ~Idle(g) /\ ~OwnsRun(h)
        BY <1>2, <2>2, <3>2 DEF Acts, Moves, OwnsRun, Same, Idle
      <4> QED
        BY <1>2, <3>2, <4>1 DEF JInv, ActionPart, Acts, Names
    <3> QED
      BY <3>1, <3>2
  <2> QED
    BY <2>1, <2>2 DEF ActionPart, Acts, Moves
<1>5. AnswerPart'
  BY <1>1 DEF JInv, AnswerPart, Acts, Moves
<1>6. TrackPart'
  <2> SUFFICES ASSUME keeper = "session", NEW c \in Calls,
                      Begun(c)' \/ \E g \in Hosts : InHand(g, c)' \/ hstart'[g] = c
               PROVE  Tracked(c)'
    BY DEF TrackPart, Acts, Moves
  <2>1. Tracked(c) => Tracked(c)'
    BY <1>1 DEF Tracked, Over, Acts, Moves, Names
  <2>2. CASE Begun(c)'
    <3>1. Begun(c) \/ InHand(h, c)
      <4>1. CASE c = Hand(h) /\ Takes(h)
        <5>1. Local(h)
          BY <1>1 DEF HostPart
        <5> QED
          BY <4>1, <5>1 DEF Local, Outcomes, Takes, Busy, Command, IsTeam, InHand
      <4>2. CASE c # Hand(h) \/ ~Takes(h)
        BY <2>2, <4>2 DEF Acts, Does, Begun
      <4> QED
        BY <4>1, <4>2
    <3> QED
      BY <2>1, <3>1 DEF JInv, TrackPart
  <2>3. ASSUME NEW g \in Hosts, InHand(g, c)' PROVE Tracked(c)'
    <3>1. CASE g # h
      BY <1>2, <2>1, <2>3, <3>1 DEF JInv, TrackPart
    <3>2. CASE g = h
      <4>1. InHand(h, c) \/ hstart[h] = c \/ runAction' = c
        BY <2>3, <3>2 DEF Acts, Handles
      <4> QED
        BY <2>1, <4>1 DEF JInv, TrackPart, Tracked
    <3> QED
      BY <3>1, <3>2
  <2>4. ASSUME NEW g \in Hosts, hstart'[g] = c PROVE Tracked(c)'
    <3>1. hstart[g] = c
      BY <1>2, <2>4, JournalAssumption DEF Acts, Moves, Same, Calls, NoCall, JournalAssumption
    <3> QED
      BY <2>1, <3>1 DEF JInv, TrackPart
  <2> QED
    BY <2>2, <2>3, <2>4
<1>7. CommandPart'
  <2>1. \A c \in Calls : done[c] \subseteq done'[c] /\ done'[c] \subseteq 1..Phases
    BY DEF Acts, Does, JournalTypeOK
  <2>2. AnsweredCommandIsWhole'
    <3> SUFFICES ASSUME NEW a \in answers, IsTeam(a.call)', a.as = "answer" PROVE done'[a.call] = 1..Phases
      BY DEF AnsweredCommandIsWhole, Acts, Moves
    <3>1. IsTeam(a.call) /\ a.call \in Calls
      BY <1>1 DEF IsTeam, Acts, Moves, JournalTypeOK
    <3>2. done[a.call] = 1..Phases
      BY <3>1 DEF JInv, CommandPart, AnsweredCommandIsWhole
    <3> QED
      BY <2>1, <3>1, <3>2
  <2>3. ASSUME NEW g \in Hosts \ {h} PROVE Commanding(g)'
    BY <1>1, <1>2, <2>1, SameCommanding DEF HostPart, JInv, CommandPart
  <2> QED
    BY <2>2, <2>3 DEF CommandPart, Acts, Does
<1>8. SolePart'
  <2> SUFFICES ASSUME NEW g \in Hosts, Alone(g)' PROVE seen'[g] = made' /\ closed'[g] = Answered'
    BY DEF SolePart
  <2>1. CASE g # h
    BY <1>1, <1>2, <2>1 DEF JInv, SolePart, Alone, OwnsRun, Same, Acts, Moves
  <2>2. CASE g = h /\ hplace[h] # "load"
    BY <1>1, <2>2 DEF JInv, SolePart, Alone, OwnsRun, Acts, Moves, Idle
  <2>3. CASE g = h /\ hplace[h] = "load"
    BY <1>1, <2>3 DEF Acts, Moves
  <2> QED
    BY <2>1, <2>2, <2>3
<1>9. SoloPart'
  <2> SUFFICES ASSUME keeper = "conversation", ~recovered
               PROVE  /\ \A f, g \in Hosts : ~Idle(f)' /\ ~Idle(g)' => f = g
                      /\ runPhase' # "recoverable"
                      /\ runPhase' \notin {"queued", "waiting"}
                      /\ \A g \in Hosts : hstart'[g] = NoCall =>
                            /\ hplace'[g] = "load" => made' \subseteq Answered'
                            /\ hplace'[g] \in {"recover", "close"} => seen'[g] \subseteq closed'[g]
    BY DEF SoloPart, Acts, Moves
  <2>1. \A f, g \in Hosts : ~Idle(f)' /\ ~Idle(g)' => f = g
    BY <1>2 DEF JInv, SoloPart, Acts, Moves, Idle, Same
  <2>2. runPhase' \notin {"recoverable", "queued", "waiting"}
    BY DEF JInv, SoloPart, Acts, Moves
  <2>3. ASSUME NEW g \in Hosts, hstart'[g] = NoCall
        PROVE  /\ hplace'[g] = "load" => made' \subseteq Answered'
               /\ hplace'[g] \in {"recover", "close"} => seen'[g] \subseteq closed'[g]
    <3>1. CASE g # h
      BY <1>1, <1>2, <2>3, <3>1 DEF JInv, SoloPart, Same, Acts, Moves
    <3>2. CASE g = h
      BY <1>1, <2>3, <3>2 DEF JInv, SoloPart, Acts, Moves
    <3> QED
      BY <3>1, <3>2
  <2> QED
    BY <2>1, <2>2, <2>3
<1> QED
  BY <1>3, <1>4, <1>5, <1>6, <1>7, <1>8, <1>9

(* A host that goes on and writes nothing to the transcript keeps the invariant. *)
LEMMA ActsKeep ==
  ASSUME JInv, NEW h \in Hosts, Acts(h), Local(h)', JournalTypeOK'
  PROVE  JInv'
BY ActsKeepCalls, ActsKeepRun DEF JInv

-----------------------------------------------------------------------------
(* A step that begins nothing: a host leaves, or the run changes without one. *)

\* The run document: as it was, or out of an owner's hands.
Yields(h) ==
    \/ UNCHANGED <<runPhase, runOwner, runAction, recovered>>
    \/ /\ OwnsRun(h) /\ runOwner' = Nobody
       /\ runPhase' \in {"completed", "cancelled", "failed", "waiting", "recoverable"}
       /\ recovered => recovered'
       /\ runPhase' = "recoverable" => recovered'
       /\ runPhase' = "waiting" => hplace[h] = "ask"
       /\ runAction' = runAction \/ (runAction' = NoCall /\ runPhase' = "completed")
Gone(h) == Leaves(h) /\ Yields(h) /\ UNCHANGED <<keeper, made, sort, answers, effects, receipt, done>>

LEMMA LeftHost ==
  ASSUME JournalTypeOK, NEW h \in Hosts, Leaves(h)
  PROVE  /\ Local(h)' /\ Commanding(h)' /\ Idle(h)' /\ hstart'[h] = NoCall /\ todo'[h] = {}
         /\ \A c : ~InHand(h, c)'
         /\ OthersStay(h)
<1>1. /\ hplace'[h] = "idle" /\ hlease'[h] = 0 /\ seen'[h] = {} /\ closed'[h] = {}
      /\ hstart'[h] = NoCall /\ todo'[h] = {} /\ out'[h] = "none" /\ cstep'[h] = 1
  BY DEF Leaves, Goes, JournalTypeOK
<1>2. Local(h)' /\ Commanding(h)' /\ \A c : ~InHand(h, c)'
  BY <1>1 DEF Local, Copies, Recovering, Opened, Outcomes, OfResponse, Commanding, InHand, Idle, Busy, Command, Starting
<1>3. OthersStay(h)
  BY DEF OthersStay, Same, Leaves, Goes, JournalTypeOK
<1> QED
  BY <1>1, <1>2, <1>3 DEF Idle

LEMMA GoneKeeps ==
  ASSUME JInv, NEW h \in Hosts, Gone(h), JournalTypeOK'
  PROVE  JInv'
<1>1. /\ JournalTypeOK /\ HostPart /\ Grows /\ Answered' = Answered /\ NeverRan' = NeverRan
      /\ h # Nobody /\ Nobody \notin Hosts /\ NoCall \notin Calls
  BY JournalAssumption DEF JInv, Gone, Grows, Answered, NeverRan, Hosts, Nobody, Calls, NoCall, JournalAssumption
<1>2. /\ Local(h)' /\ Commanding(h)' /\ Idle(h)' /\ hstart'[h] = NoCall /\ todo'[h] = {}
      /\ \A c : ~InHand(h, c)'
      /\ OthersStay(h)
  BY <1>1, LeftHost DEF Gone
<1>3. \A g \in Hosts \ {h} : /\ Local(g)' /\ Same(g)
                             /\ \A c : InHand(g, c)' <=> InHand(g, c)
                             /\ Expected(g)' = Expected(g) /\ Hand(g)' = Hand(g)
  BY <1>1, <1>2, SameLocal, SameHand DEF HostPart, OthersStay
<1>4. ASSUME NEW g \in Hosts, OwnsRun(g)' PROVE OwnsRun(g) /\ runAction' = runAction
  BY <1>1, <1>4 DEF Gone, Yields, OwnsRun
<1>5. ASSUME NEW c \in Calls, Fresh(c) PROVE Fresh(c)'
  BY <1>1, <1>2, <1>3, <1>5 DEF Fresh, Begun, Gone, Yields, Same
<1>6. HostPart'
  BY <1>2, <1>3 DEF HostPart
<1>7. ActionPart'
  <2>1. \A g \in Hosts : OwnsRun(g)' /\ ~Idle(g)' => runAction' = Expected(g)'
    BY <1>2, <1>3, <1>4 DEF JInv, ActionPart, Idle, Same
  <2>2. runAction' \in Calls => runAction' \in made'
    BY <1>1 DEF JInv, ActionPart, Gone, Yields
  <2> QED
    BY <2>1, <2>2 DEF ActionPart
<1>8. AnswerPart'
  BY <1>1 DEF JInv, AnswerPart, Gone
<1>9. TodoPart'
  <2>1. \A g \in Hosts : todo'[g] \subseteq todo[g] /\ todo[g] \subseteq Calls
    BY <1>1, <1>2, <1>3 DEF Same, JournalTypeOK
  <2>2. \A f, g \in Hosts : f # g => todo'[f] \cap todo'[g] = {}
    BY <2>1 DEF JInv, TodoPart
  <2> QED
    BY <1>2, <1>3, <1>5, <2>1, <2>2 DEF JInv, TodoPart
<1>10. FreshPart'
  BY <1>1, <1>5 DEF JInv, FreshPart, Gone
<1>11. NeverPart'
  <2> SUFFICES ASSUME NEW g \in Hosts \ {h}, NEW c \in todo[g] \cap NeverRan PROVE PutAside(g, c)'
    BY <1>1, <1>2, <1>3 DEF NeverPart, Same
  <2>1. PutAside(g, c)
    BY DEF JInv, NeverPart
  <2> QED
    BY <1>3, <1>4, <2>1 DEF PutAside, Gone, Same
<1>12. TrackPart'
  <2> SUFFICES ASSUME keeper = "session", NEW c \in Calls,
                      Begun(c)' \/ \E g \in Hosts : InHand(g, c)' \/ hstart'[g] = c
               PROVE  Tracked(c)'
    BY DEF TrackPart, Gone
  <2>1. Begun(c) \/ \E g \in Hosts : InHand(g, c) \/ hstart[g] = c
    BY <1>1, <1>2, <1>3 DEF Begun, Gone, Same
  <2>2. Tracked(c)
    BY <2>1 DEF JInv, TrackPart
  <2>3. OwnsRun(h) => ~Over
    BY <1>1 DEF OwnsRun, Over, JournalTypeOK
  <2> QED
    BY <1>1, <2>2, <2>3 DEF Tracked, Over, Gone, Yields
<1>13. EffectPart'
  <2>1. \A g \in Hosts : hplace'[g] = "execute" => effects'[Hand(g)'] = 0
    BY <1>2, <1>3 DEF JInv, EffectPart, Gone, Idle, Same
  <2> QED
    BY <2>1 DEF JInv, EffectPart, PlainToolOnce, Gone
<1>14. CommandPart'
  <2>1. \A c \in Calls : done[c] \subseteq done'[c] /\ done'[c] \subseteq 1..Phases
    BY <1>1 DEF Gone, JournalTypeOK
  <2>2. \A g \in Hosts : Commanding(g)'
    BY <1>1, <1>2, <1>3, <2>1, SameCommanding DEF HostPart, JInv, CommandPart
  <2>3. AnsweredCommandIsWhole'
    BY DEF JInv, CommandPart, AnsweredCommandIsWhole, IsTeam, Gone
  <2> QED
    BY <2>2, <2>3 DEF JInv, CommandPart, Whole, Gone
<1>15. ~recovered' => ~recovered
  BY DEF Gone, Yields
<1>16. SolePart'
  <2> SUFFICES ASSUME NEW g \in Hosts, Alone(g)' PROVE seen'[g] = made /\ closed'[g] = Answered
    BY <1>1 DEF SolePart, Gone
  <2>1. g # h
    BY <1>2 DEF Alone, Idle
  <2>2. Alone(g)
    BY <1>3, <1>4, <1>15, <2>1 DEF Alone, Same, Gone
  <2> QED
    BY <1>3, <2>1, <2>2 DEF JInv, SolePart, Same
<1>17. SoloPart'
  <2> SUFFICES ASSUME keeper = "conversation", ~recovered' PROVE SoloPart'
    BY DEF SoloPart, Gone
  <2>1. \A f, g \in Hosts : ~Idle(f) /\ ~Idle(g) => f = g
    BY <1>15 DEF JInv, SoloPart
  <2>2. \A g \in Hosts : Idle(g) => Idle(g)'
    BY <1>2, <1>3 DEF Idle, Same
  <2>3. \A f, g \in Hosts : ~Idle(f)' /\ ~Idle(g)' => f = g
    BY <2>1, <2>2
  <2>4. runPhase' # "recoverable"
    BY <1>15 DEF JInv, SoloPart, Gone, Yields
  <2>5. ASSUME runPhase' \in {"queued", "waiting"} PROVE made' \subseteq Answered' /\ \A g \in Hosts : Idle(g)'
    <3>1. CASE runPhase' = runPhase
      BY <1>1, <1>15, <2>2, <2>5, <3>1 DEF JInv, SoloPart, Gone
    <3>2. CASE runPhase' # runPhase
      <4>1. hplace[h] = "ask"
        BY <2>5, <3>2 DEF Gone, Yields
      <4>2. seen[h] = made /\ closed[h] = Answered
        BY <1>15, <4>1 DEF JInv, SolePart, Alone
      <4>3. seen[h] \subseteq closed[h]
        BY <1>1, <4>1 DEF HostPart, Local, Opened
      <4> QED
        BY <1>1, <1>2, <2>1, <2>2, <4>1, <4>2, <4>3 DEF Idle, Gone
    <3> QED
      BY <3>1, <3>2
  <2>6. \A g \in Hosts : hstart'[g] = NoCall =>
           /\ hplace'[g] = "load" => made' \subseteq Answered'
           /\ hplace'[g] \in {"recover", "close"} => seen'[g] \subseteq closed'[g]
    BY <1>1, <1>2, <1>3, <1>15 DEF JInv, SoloPart, Gone, Same, Idle
  <2> QED
    BY <2>3, <2>4, <2>5, <2>6 DEF SoloPart
<1> QED
  BY <1>6, <1>7, <1>8, <1>9, <1>10, <1>11, <1>12, <1>13, <1>14, <1>16, <1>17 DEF JInv

\* The run document changes without a host.
Drifts ==
    /\ \A g \in Hosts : OwnsRun(g)' => OwnsRun(g)
    /\ runAction' = runAction \/ (runAction' = NoCall /\ runOwner' = Nobody /\ runPhase' = "cancelled")
    /\ recovered => recovered'
    /\ runPhase' = "recoverable" => recovered' \/ runPhase = "recoverable"
    /\ runPhase' \in {"queued", "waiting"} => runPhase \in {"queued", "waiting"}
    /\ Over => Over'
Undriven ==
    Drifts /\ UNCHANGED <<keeper, made, sort, answers, effects, receipt, done, hostVars>>

LEMMA UndrivenKeeps ==
  ASSUME JInv, Undriven, JournalTypeOK'
  PROVE  JInv'
<1>1. /\ JournalTypeOK /\ HostPart /\ Grows /\ Answered' = Answered /\ NeverRan' = NeverRan
      /\ Nobody \notin Hosts /\ NoCall \notin Calls
  BY JournalAssumption DEF JInv, Undriven, Grows, Answered, NeverRan, Hosts, Nobody, Calls, NoCall, JournalAssumption
<1>2. \A g \in Hosts : Same(g)
  BY DEF Undriven, hostVars, Same
<1>3. \A g \in Hosts : /\ Local(g)'
                       /\ \A c : InHand(g, c)' <=> InHand(g, c)
                       /\ Expected(g)' = Expected(g) /\ Hand(g)' = Hand(g) /\ Idle(g)' = Idle(g)
  BY <1>1, <1>2, SameLocal, SameHand DEF HostPart
<1>4. ASSUME NEW g \in Hosts, OwnsRun(g)' PROVE OwnsRun(g) /\ runAction' = runAction
  BY <1>1, <1>4 DEF Undriven, Drifts, OwnsRun
<1>5. ASSUME NEW c \in Calls, Fresh(c) PROVE Fresh(c)'
  BY <1>1, <1>2, <1>5 DEF Fresh, Begun, Undriven, Drifts, Same
<1>6. HostPart'
  BY <1>3 DEF HostPart
<1>7. ActionPart'
  <2>1. \A g \in Hosts : OwnsRun(g)' /\ ~Idle(g)' => runAction' = Expected(g)'
    BY <1>3, <1>4 DEF JInv, ActionPart
  <2>2. runAction' \in Calls => runAction' \in made'
    BY <1>1 DEF JInv, ActionPart, Undriven, Drifts
  <2> QED
    BY <2>1, <2>2 DEF ActionPart
<1>8. AnswerPart'
  BY <1>1 DEF JInv, AnswerPart, Undriven
<1>9. TodoPart'
  <2>1. \A g \in Hosts : todo'[g] = todo[g] /\ todo[g] \subseteq Calls
    BY <1>1, <1>2 DEF Same, JournalTypeOK
  <2>2. \A f, g \in Hosts : f # g => todo'[f] \cap todo'[g] = {}
    BY <2>1 DEF JInv, TodoPart
  <2> QED
    BY <1>3, <1>5, <2>1, <2>2 DEF JInv, TodoPart
<1>10. FreshPart'
  BY <1>1, <1>5 DEF JInv, FreshPart, Undriven
<1>11. NeverPart'
  <2> SUFFICES ASSUME NEW g \in Hosts, NEW c \in todo[g] \cap NeverRan PROVE PutAside(g, c)'
    BY <1>1, <1>2 DEF NeverPart, Same
  <2>1. PutAside(g, c)
    BY DEF JInv, NeverPart
  <2> QED
    BY <1>2, <1>3, <1>4, <2>1 DEF PutAside, Undriven, Same
<1>12. TrackPart'
  <2> SUFFICES ASSUME keeper = "session", NEW c \in Calls,
                      Begun(c)' \/ \E g \in Hosts : InHand(g, c)' \/ hstart'[g] = c
               PROVE  Tracked(c)'
    BY DEF TrackPart, Undriven
  <2>1. Begun(c) \/ \E g \in Hosts : InHand(g, c) \/ hstart[g] = c
    BY <1>2, <1>3 DEF Begun, Undriven, Same
  <2>2. Tracked(c)
    BY <2>1 DEF JInv, TrackPart
  <2> QED
    BY <1>1, <2>2 DEF Tracked, Over, Undriven, Drifts
<1>13. EffectPart'
  BY <1>2, <1>3 DEF JInv, EffectPart, Undriven, PlainToolOnce, Same
<1>14. CommandPart'
  <2>1. \A c \in Calls : done[c] \subseteq done'[c] /\ done'[c] \subseteq 1..Phases
    BY <1>1 DEF Undriven, JournalTypeOK
  <2>2. \A g \in Hosts : Commanding(g)'
    BY <1>1, <1>2, <2>1, SameCommanding DEF HostPart, JInv, CommandPart
  <2>3. AnsweredCommandIsWhole'
    BY DEF JInv, CommandPart, AnsweredCommandIsWhole, IsTeam, Undriven
  <2> QED
    BY <2>2, <2>3 DEF CommandPart, JInv, Whole, Undriven
<1>15. ~recovered' => ~recovered
  BY DEF Undriven, Drifts
<1>16. SolePart'
  <2> SUFFICES ASSUME NEW g \in Hosts, Alone(g)' PROVE seen'[g] = made /\ closed'[g] = Answered
    BY <1>1 DEF SolePart, Undriven
  <2>1. Alone(g)
    BY <1>2, <1>4, <1>15 DEF Alone, Same, Undriven
  <2> QED
    BY <1>2, <2>1 DEF JInv, SolePart, Same
<1>17. SoloPart'
  <2> SUFFICES ASSUME keeper = "conversation", ~recovered' PROVE SoloPart'
    BY DEF SoloPart, Undriven
  <2>1. \A f, g \in Hosts : ~Idle(f)' /\ ~Idle(g)' => f = g
    BY <1>3, <1>15 DEF JInv, SoloPart
  <2>2. runPhase' # "recoverable"
    BY <1>15 DEF JInv, SoloPart, Undriven, Drifts
  <2>3. runPhase' \in {"queued", "waiting"} => made' \subseteq Answered' /\ \A g \in Hosts : Idle(g)'
    BY <1>1, <1>3, <1>15 DEF JInv, SoloPart, Undriven, Drifts
  <2>4. \A g \in Hosts : hstart'[g] = NoCall =>
           /\ hplace'[g] = "load" => made' \subseteq Answered'
           /\ hplace'[g] \in {"recover", "close"} => seen'[g] \subseteq closed'[g]
    BY <1>1, <1>2, <1>15 DEF JInv, SoloPart, Undriven, Same
  <2> QED
    BY <2>1, <2>2, <2>3, <2>4 DEF SoloPart
<1> QED
  BY <1>6, <1>7, <1>8, <1>9, <1>10, <1>11, <1>12, <1>13, <1>14, <1>16, <1>17 DEF JInv

-----------------------------------------------------------------------------
(* The steps of the environment, and the ways in which a host leaves. *)

LEMMA EnvKeeps ==
  ASSUME JInv, \/ RequestStop \/ ContinueRun \/ ExpireRunLease \/ SweepRun
               \/ \E c \in Calls : ExpireReceipt(c)
  PROVE  JInv'
<1>1. JournalTypeOK /\ Nobody \notin Hosts
  BY JournalAssumption DEF JInv, Hosts, Nobody, JournalAssumption
<1>2. CASE RequestStop
  BY <1>1, <1>2, UndrivenKeeps DEF RequestStop, Undriven, Drifts, OwnsRun, Over, journal, commandDoc, hostVars,
     JournalTypeOK, JInv, SoloPart
<1>3. CASE ContinueRun
  BY <1>1, <1>3, UndrivenKeeps DEF ContinueRun, Undriven, Drifts, OwnsRun, Over, journal, commandDoc, hostVars,
     JournalTypeOK
<1>4. CASE ExpireRunLease
  <2>1. faults' \in 0..MaxFaults
    BY <1>1, <1>4, JournalAssumption DEF ExpireRunLease, JournalTypeOK, JournalAssumption
  <2>2. JournalTypeOK'
    BY <1>1, <1>4, <2>1 DEF ExpireRunLease, journal, commandDoc, hostVars, JournalTypeOK
  <2>3. Undriven
    BY <1>1, <1>4 DEF ExpireRunLease, Undriven, Drifts, OwnsRun, Over, journal, commandDoc, hostVars
  <2> QED
    BY <2>2, <2>3, UndrivenKeeps
<1>5. CASE SweepRun
  <2>1. /\ runPhase' \in {"cancelled", "recoverable"} /\ runOwner' = Nobody
        /\ runAction' \in 0..Model /\ recovered' \in BOOLEAN
    BY <1>1, <1>5, JournalAssumption DEF SweepRun, NoCall, Model, JournalTypeOK, JournalAssumption
  <2>2. JournalTypeOK'
    BY <1>1, <1>5, <2>1 DEF SweepRun, journal, commandDoc, hostVars, JournalTypeOK
  <2>3. Drifts
    BY <1>1, <1>5 DEF SweepRun, Drifts, OwnsRun, Over, JournalTypeOK
  <2>4. Undriven
    BY <1>5, <2>3 DEF SweepRun, Undriven, journal, commandDoc
  <2> QED
    BY <2>2, <2>4, UndrivenKeeps
<1>6. ASSUME NEW c \in Calls, ExpireReceipt(c) PROVE JInv'
  BY <1>1, <1>6, UndrivenKeeps DEF ExpireReceipt, Undriven, Drifts, OwnsRun, Over, runDoc, journal, commandDoc, hostVars,
     JournalTypeOK
<1> QED
  BY <1>2, <1>3, <1>4, <1>5, <1>6

LEMMA LeaseKeeps ==
  ASSUME JInv, NEW h \in Hosts, LeaseRun(h)
  PROVE  JInv'
<1>1. /\ JournalTypeOK /\ HostPart /\ Local(h) /\ Grows /\ Answered' = Answered /\ NeverRan' = NeverRan
      /\ Nobody \notin Hosts /\ NoCall \notin Calls
  BY JournalAssumption DEF JInv, LeaseRun, journal, Grows, Answered, NeverRan, HostPart, Hosts, Nobody, Calls, NoCall,
     JournalAssumption
<1>2. /\ hplace[h] = "idle" /\ seen[h] = {} /\ closed[h] = {} /\ todo[h] = {} /\ out[h] = "none" /\ cstep[h] = 1
      /\ runPhase \in {"queued", "recoverable"}
  BY <1>1 DEF LeaseRun, Local, Copies, Outcomes
<1>3. /\ OthersStay(h) /\ hplace'[h] = "load" /\ hlease'[h] = leases + 1 /\ hstart'[h] = runAction
      /\ UNCHANGED <<seen, closed, todo, out, cstep>>
  BY <1>1 DEF LeaseRun, Goes, OthersStay, Same, JournalTypeOK
<1>4. leases + 1 \in 1..MaxLeases
  BY <1>1, JournalAssumption DEF LeaseRun, JournalTypeOK, JournalAssumption
<1>5. JournalTypeOK'
  <2>1. hplace' \in [Hosts -> Places] /\ hlease' \in [Hosts -> 0..MaxLeases] /\ hstart' \in [Hosts -> 0..Model]
    BY <1>1, <1>4 DEF LeaseRun, Goes, JournalTypeOK, Places
  <2> QED
    BY <1>1, <1>4, <2>1 DEF LeaseRun, journal, commandDoc, JournalTypeOK
<1>6. \A g \in Hosts \ {h} : /\ Local(g)' /\ Same(g)
                             /\ \A c : InHand(g, c)' <=> InHand(g, c)
                             /\ Hand(g)' = Hand(g)
  BY <1>1, <1>3, SameLocal, SameHand DEF HostPart, OthersStay
<1>7. Local(h)' /\ Commanding(h)' /\ \A c : ~InHand(h, c)'
  BY <1>2, <1>3, <1>4 DEF Local, Copies, Recovering, Opened, Outcomes, OfResponse, Commanding, InHand, Idle, Busy,
     Command, Starting
<1>8. /\ UNCHANGED <<keeper, runAction, recovered, made, sort, answers, effects, receipt, done>>
      /\ runPhase' = "running" /\ runOwner' = h
  BY DEF LeaseRun, journal, commandDoc
<1>9. ASSUME NEW c \in Calls, Fresh(c) PROVE Fresh(c)'
  BY <1>3, <1>6, <1>8, <1>9 DEF Fresh, Begun, Same
<1>10. HostPart'
  BY <1>6, <1>7 DEF HostPart
<1>11. ActionPart'
  BY <1>3, <1>8 DEF JInv, ActionPart, Expected, OwnsRun, Starting
<1>12. AnswerPart'
  BY <1>1, <1>8 DEF JInv, AnswerPart
<1>13. TodoPart'
  <2>1. \A g \in Hosts : todo'[g] = todo[g] /\ todo[g] \subseteq Calls
    BY <1>1, <1>3 DEF JournalTypeOK
  <2>2. \A f, g \in Hosts : f # g => todo'[f] \cap todo'[g] = {}
    BY <2>1 DEF JInv, TodoPart
  <2> QED
    BY <1>2, <1>6, <1>9, <2>1, <2>2 DEF JInv, TodoPart
<1>14. FreshPart'
  BY <1>1, <1>8, <1>9 DEF JInv, FreshPart
<1>15. NeverPart'
  <2> SUFFICES ASSUME NEW g \in Hosts, NEW c \in todo[g] \cap NeverRan PROVE PutAside(g, c)'
    BY <1>1, <1>3 DEF NeverPart
  <2>1. PutAside(g, c) /\ g # h
    BY <1>2 DEF JInv, NeverPart
  <2> QED
    BY <1>6, <1>8, <2>1 DEF PutAside, Same, OwnsRun
<1>16. TrackPart'
  <2> SUFFICES ASSUME keeper = "session", NEW c \in Calls,
                      Begun(c)' \/ \E g \in Hosts : InHand(g, c)' \/ hstart'[g] = c
               PROVE  Tracked(c)'
    BY <1>8 DEF TrackPart
  <2>1. (Begun(c) \/ \E g \in Hosts : InHand(g, c) \/ hstart[g] = c) \/ runAction = c
    BY <1>3, <1>6, <1>7, <1>8 DEF Begun, Same
  <2>2. Tracked(c) \/ runAction = c
    BY <2>1 DEF JInv, TrackPart
  <2> QED
    BY <1>1, <1>2, <1>8, <2>2 DEF Tracked, Over
<1>17. EffectPart'
  BY <1>3, <1>6, <1>8 DEF JInv, EffectPart, PlainToolOnce, Same
<1>18. CommandPart'
  <2>1. \A c \in Calls : done[c] \subseteq done'[c] /\ done'[c] \subseteq 1..Phases
    BY <1>1, <1>8 DEF JournalTypeOK
  <2>2. \A g \in Hosts : Commanding(g)'
    BY <1>1, <1>6, <1>7, <2>1, SameCommanding DEF HostPart, JInv, CommandPart
  <2>3. AnsweredCommandIsWhole'
    BY <1>8 DEF JInv, CommandPart, AnsweredCommandIsWhole, IsTeam
  <2> QED
    BY <1>8, <2>2, <2>3 DEF JInv, CommandPart, Whole
<1>19. SolePart'
  <2> SUFFICES ASSUME NEW g \in Hosts, Alone(g)' PROVE seen'[g] = made /\ closed'[g] = Answered
    BY <1>1, <1>8 DEF SolePart
  <2>1. g # h /\ Alone(g)
    BY <1>3, <1>6, <1>8 DEF Alone, Same, OwnsRun
  <2> QED
    BY <1>6, <2>1 DEF JInv, SolePart, Same
<1>20. SoloPart'
  <2> SUFFICES ASSUME keeper = "conversation", ~recovered PROVE SoloPart'
    BY <1>8 DEF SoloPart
  <2>1. made \subseteq Answered /\ \A g \in Hosts : Idle(g)
    BY <1>2 DEF JInv, SoloPart
  <2>2. \A g \in Hosts \ {h} : Idle(g)'
    BY <1>6, <2>1 DEF Idle, Same
  <2>3. \A f, g \in Hosts : ~Idle(f)' /\ ~Idle(g)' => f = g
    BY <2>2
  <2> QED
    BY <1>1, <1>3, <1>8, <2>1, <2>2, <2>3 DEF SoloPart, Idle
<1> QED
  BY <1>5, <1>10, <1>11, <1>12, <1>13, <1>14, <1>15, <1>16, <1>17, <1>18, <1>19, <1>20 DEF JInv

\* The run document has its type.
RunTyped ==
    /\ runPhase \in {"queued", "running", "recoverable", "waiting", "completed", "cancelled", "failed"}
    /\ runOwner \in Hosts \cup {Nobody} /\ runLive \in BOOLEAN /\ runStop \in BOOLEAN
    /\ runAction \in 0..Model /\ leases \in 0..MaxLeases /\ recovered \in BOOLEAN
    /\ (runOwner = Nobody) = (runPhase # "running")

LEMMA LeavesKeeps ==
  ASSUME JInv, NEW h \in Hosts, Leaves(h), Yields(h), RunTyped', faults' \in 0..MaxFaults,
         UNCHANGED <<keeper, made, sort, answers, effects, receipt, rholder, rfresh, done, working>>
  PROVE  JInv'
<1>1. JournalTypeOK
  BY DEF JInv
<1>2. JournalTypeOK'
  <2>1. /\ hplace' \in [Hosts -> Places] /\ hlease' \in [Hosts -> 0..MaxLeases]
        /\ seen' \in [Hosts -> SUBSET Calls] /\ closed' \in [Hosts -> SUBSET Calls]
        /\ hstart' \in [Hosts -> 0..Model] /\ hparked' \in [Hosts -> BOOLEAN]
        /\ todo' \in [Hosts -> SUBSET Calls]
        /\ out' \in [Hosts -> Results \cup {"none"}] /\ cstep' \in [Hosts -> 1..(Phases + 1)]
    BY <1>1, JournalAssumption DEF Leaves, Goes, JournalTypeOK, Places, NoCall, Model, JournalAssumption
  <2> QED
    BY <1>1, <2>1 DEF JournalTypeOK, RunTyped
<1>3. Gone(h)
  BY DEF Gone
<1> QED
  BY <1>2, <1>3, GoneKeeps

(* AgentRunLeaseLost, and the end of a run its host owns. *)
LEMMA DetachedKeeps ==
  ASSUME JInv, NEW h \in Hosts, Detached(h), Elsewhere, UNCHANGED <<journal, effects, commandDoc, working, faults>>
  PROVE  JInv'
<1>1. RunTyped' /\ faults' \in 0..MaxFaults
  <2>1. UNCHANGED <<runPhase, runOwner, runLive, runStop, runAction, leases, recovered, faults>>
    BY DEF Detached, Elsewhere
  <2> QED
    BY <2>1 DEF JInv, JournalTypeOK, RunTyped
<1>2. Leaves(h) /\ Yields(h)
  BY DEF Detached, Elsewhere, Yields
<1> QED
  BY <1>1, <1>2, LeavesKeeps DEF Elsewhere, journal, commandDoc

LEMMA EndsKeeps ==
  ASSUME JInv, NEW h \in Hosts,
         NEW status \in {"completed", "cancelled", "failed", "waiting"}, Ends(h, status), Elsewhere,
         status = "waiting" => hplace[h] = "ask",
         runAction' = runAction \/ (runAction' = NoCall /\ status = "completed"),
         UNCHANGED <<journal, effects, commandDoc, working, faults>>
  PROVE  JInv'
<1>1. RunTyped' /\ faults' \in 0..MaxFaults
  <2>1. /\ runPhase' = status /\ runOwner' = Nobody /\ runLive' = FALSE
        /\ UNCHANGED <<leases, runStop, recovered, faults>>
    BY DEF Ends, Elsewhere
  <2>2. runAction' \in 0..Model
    BY JournalAssumption DEF JInv, JournalTypeOK, NoCall, Model, JournalAssumption
  <2> QED
    BY <2>1, <2>2 DEF JInv, JournalTypeOK, RunTyped
<1>2. Leaves(h) /\ Yields(h)
  BY DEF Ends, Elsewhere, Yields
<1> QED
  BY <1>1, <1>2, LeavesKeeps DEF Elsewhere, journal, commandDoc

LEMMA LostKeeps ==
  ASSUME JInv, NEW h \in Hosts, NoticeLoss(h) \/ HostCrash(h) \/ BreakOff(h)
  PROVE  JInv'
<1>1. faults' \in 0..MaxFaults
  BY JournalAssumption DEF JInv, JournalTypeOK, JournalAssumption, NoticeLoss, HostCrash, BreakOff
<1>2. CASE NoticeLoss(h) \/ HostCrash(h)
  <2>1. RunTyped'
    BY <1>2 DEF JInv, JournalTypeOK, RunTyped, NoticeLoss, HostCrash, runDoc
  <2>2. Leaves(h) /\ Yields(h)
    BY <1>2 DEF NoticeLoss, HostCrash, Yields, runDoc
  <2> QED
    BY <1>1, <1>2, <2>1, <2>2, LeavesKeeps DEF NoticeLoss, HostCrash, journal, commandDoc
<1>3. CASE BreakOff(h)
  <2>1. RunTyped'
    BY <1>3 DEF JInv, JournalTypeOK, RunTyped, BreakOff, Ends
  <2>2. Leaves(h) /\ Yields(h)
    BY <1>3 DEF BreakOff, Ends, Yields
  <2> QED
    BY <1>1, <1>3, <2>1, <2>2, LeavesKeeps DEF BreakOff, journal, commandDoc
<1> QED
  BY <1>2, <1>3

-----------------------------------------------------------------------------
(* The loop. *)

LEMMA TurnKeeps ==
  ASSUME JInv, NEW h \in Hosts, Turn(h)
  PROVE  JInv'
<1>1. JournalTypeOK /\ Local(h) /\ hplace[h] = "turn" /\ Model \notin Calls /\ NoCall \notin Calls
  BY JournalAssumption DEF JInv, HostPart, Turn, Model, Calls, NoCall, JournalAssumption
<1>2. /\ todo[h] = {} /\ hstart[h] = NoCall /\ out[h] = "none" /\ cstep[h] = 1 /\ seen[h] \subseteq closed[h]
      /\ hlease[h] > 0
  BY <1>1 DEF Local, Copies, Opened, Outcomes, Starting, Command, Idle
<1>3. OwnsRun(h) => runAction = NoCall
  BY <1>1, <1>2 DEF JInv, ActionPart, Expected, Idle, Starting, AtModel, Busy, Command
<1>4. CASE Detached(h)
  BY <1>4, DetachedKeeps DEF Turn
<1>5. ASSUME NEW place \in {"abort", "model"}, Goes(h, place), Steady, UNCHANGED <<runPhase, runOwner, runLive>>,
             IF place = "model" THEN OwnsRun(h) /\ runAction' = Model ELSE UNCHANGED runAction
      PROVE  JInv'
  <2>1. /\ hplace'[h] = place /\ OthersStay(h)
        /\ todo'[h] = {} /\ hstart'[h] = NoCall /\ out'[h] = "none" /\ cstep'[h] = 1 /\ seen'[h] \subseteq closed'[h]
    BY <1>1, <1>2, <1>5 DEF Goes, Steady, OthersStay, Same, JournalTypeOK
  <2>2. UNCHANGED <<keeper, leases, runStop, recovered, journal, effects, commandDoc, working, faults>>
    BY DEF Turn, Elsewhere
  <2>3. JournalTypeOK'
    <3>1. hplace' \in [Hosts -> Places] /\ runAction' \in 0..Model
      BY <1>1, <1>5, JournalAssumption DEF Goes, JournalTypeOK, Places, Model, JournalAssumption
    <3> QED
      BY <1>1, <1>5, <2>2, <3>1 DEF Steady, journal, commandDoc, JournalTypeOK
  <2>4. Local(h)'
    BY <1>1, <1>2, <1>5, <2>1, <2>2 DEF Steady, Local, Copies, Recovering, Opened, Outcomes, OfResponse, Idle, Busy,
       Command, Starting, journal, Answered
  <2>5. Moves(h)
    BY <1>1, <1>2, <1>5, <2>1, <2>2 DEF Moves, Steady, journal, Idle
  <2>6. Names(h)
    BY <1>1, <1>3, <1>5, <2>1 DEF Names, Expected, Starting, AtModel, Busy, Command
  <2>7. Handles(h)
    BY <2>1 DEF Handles, InHand, Busy, Command
  <2>8. Does(h)
    BY <1>1, <2>1, <2>2 DEF Does, Commanding, Command, commandDoc, JInv, CommandPart, Whole
  <2> QED
    BY <2>3, <2>4, <2>5, <2>6, <2>7, <2>8, ActsKeep DEF Acts
<1> QED
  BY <1>4, <1>5 DEF Turn, MayUpdate

LEMMA ModelDoneKeeps ==
  ASSUME JInv, NEW h \in Hosts, ModelDone(h)
  PROVE  JInv'
<1>1. JournalTypeOK /\ Local(h) /\ hplace[h] = "made" /\ Model \notin Calls /\ NoCall \notin Calls
  BY JournalAssumption DEF JInv, HostPart, ModelDone, Model, Calls, NoCall, JournalAssumption
<1>2. /\ hstart[h] = NoCall /\ out[h] = "none" /\ cstep[h] = 1 /\ hlease[h] > 0 /\ todo[h] \subseteq seen[h]
      /\ todo[h] \subseteq closed[h] \/ todo[h] \cap closed[h] = {}
      /\ seen[h] \ closed[h] \subseteq todo[h]
  BY <1>1 DEF Local, Copies, Opened, Outcomes, Starting, Command, Idle
<1>3. OwnsRun(h) => runAction = Model
  BY <1>1, <1>2 DEF JInv, ActionPart, Expected, Idle, Starting, AtModel
<1>4. CASE Detached(h)
  BY <1>4, DetachedKeeps DEF ModelDone
<1>5. ASSUME NEW place \in {"abort", "calls"}, Goes(h, place), Steady, UNCHANGED <<runPhase, runOwner, runLive>>,
             OwnsRun(h), runAction' = NoCall, place = "calls" => todo[h] \cap closed[h] = {}
      PROVE  JInv'
  <2>1. /\ hplace'[h] = place /\ OthersStay(h) /\ seen'[h] = seen[h] /\ closed'[h] = closed[h]
        /\ todo'[h] = todo[h] /\ hstart'[h] = NoCall /\ out'[h] = "none" /\ cstep'[h] = 1
    BY <1>1, <1>2, <1>5 DEF Goes, Steady, OthersStay, Same, JournalTypeOK
  <2>2. UNCHANGED <<keeper, leases, runStop, recovered, journal, effects, commandDoc, working, faults>>
    BY DEF ModelDone, Elsewhere
  <2>3. JournalTypeOK'
    <3>1. hplace' \in [Hosts -> Places] /\ runAction' \in 0..Model
      BY <1>1, <1>5, JournalAssumption DEF Goes, JournalTypeOK, Places, Model, NoCall, JournalAssumption
    <3> QED
      BY <1>1, <1>5, <2>2, <3>1 DEF Steady, journal, commandDoc, JournalTypeOK
  <2>4. Local(h)'
    BY <1>1, <1>2, <1>5, <2>1, <2>2 DEF Steady, Local, Copies, Recovering, Opened, Outcomes, OfResponse, Idle, Busy,
       Command, Starting, journal, Answered
  <2>5. Moves(h)
    BY <1>1, <1>2, <1>5, <2>1, <2>2 DEF Moves, Steady, journal, Idle
  <2>6. Names(h)
    BY <1>1, <1>3, <1>5, <2>1 DEF Names, Expected, Starting, AtModel, Busy, Command
  <2>7. Handles(h)
    BY <1>1, <2>1 DEF Handles, InHand, Enters, Busy, Command
  <2>8. Does(h)
    BY <1>1, <2>1, <2>2 DEF Does, Commanding, Command, commandDoc, JInv, CommandPart, Whole
  <2> QED
    BY <2>3, <2>4, <2>5, <2>6, <2>7, <2>8, ActsKeep DEF Acts
<1> QED
  BY <1>2, <1>4, <1>5 DEF ModelDone, MayUpdate

LEMMA ConcludeKeeps ==
  ASSUME JInv, NEW h \in Hosts, NEW end \in {"finish", "ask"}, Conclude(h, end)
  PROVE  JInv'
<1>1. JournalTypeOK /\ Local(h) /\ hplace[h] = "model" /\ Model \notin Calls /\ NoCall \notin Calls
  BY JournalAssumption DEF JInv, HostPart, Conclude, Model, Calls, NoCall, JournalAssumption
<1>2. /\ todo[h] = {} /\ hstart[h] = NoCall /\ out[h] = "none" /\ cstep[h] = 1 /\ seen[h] \subseteq closed[h]
      /\ hlease[h] > 0
  BY <1>1 DEF Local, Copies, Opened, Outcomes, Starting, Command, Idle
<1>3. OwnsRun(h) => runAction = Model
  BY <1>1, <1>2 DEF JInv, ActionPart, Expected, Idle, Starting, AtModel
<1>4. CASE Detached(h)
  BY <1>4, DetachedKeeps DEF Conclude
<1>5. ASSUME NEW place \in {"abort", "finish", "ask"}, Goes(h, place), Steady,
             UNCHANGED <<runPhase, runOwner, runLive>>, OwnsRun(h), runAction' = NoCall
      PROVE  JInv'
  <2>1. /\ hplace'[h] = place /\ OthersStay(h) /\ seen'[h] = seen[h] /\ closed'[h] = closed[h]
        /\ todo'[h] = {} /\ hstart'[h] = NoCall /\ out'[h] = "none" /\ cstep'[h] = 1
    BY <1>1, <1>2, <1>5 DEF Goes, Steady, OthersStay, Same, JournalTypeOK
  <2>2. UNCHANGED <<keeper, leases, runStop, recovered, journal, effects, commandDoc, working, faults>>
    BY DEF Conclude, Elsewhere
  <2>3. JournalTypeOK'
    <3>1. hplace' \in [Hosts -> Places] /\ runAction' \in 0..Model
      BY <1>1, <1>5, JournalAssumption DEF Goes, JournalTypeOK, Places, Model, NoCall, JournalAssumption
    <3> QED
      BY <1>1, <1>5, <2>2, <3>1 DEF Steady, journal, commandDoc, JournalTypeOK
  <2>4. Local(h)'
    BY <1>1, <1>2, <1>5, <2>1, <2>2 DEF Steady, Local, Copies, Recovering, Opened, Outcomes, OfResponse, Idle, Busy,
       Command, Starting, journal, Answered
  <2>5. Moves(h)
    BY <1>1, <1>2, <1>5, <2>1, <2>2 DEF Moves, Steady, journal, Idle
  <2>6. Names(h)
    BY <1>1, <1>3, <1>5, <2>1 DEF Names, Expected, Starting, AtModel, Busy, Command
  <2>7. Handles(h)
    BY <2>1 DEF Handles, InHand, Busy, Command
  <2>8. Does(h)
    BY <1>1, <2>1, <2>2 DEF Does, Commanding, Command, commandDoc, JInv, CommandPart, Whole
  <2> QED
    BY <2>3, <2>4, <2>5, <2>6, <2>7, <2>8, ActsKeep DEF Acts
<1> QED
  BY <1>4, <1>5 DEF Conclude, MayUpdate

LEMMA FinishKeeps ==
  ASSUME JInv, NEW h \in Hosts, Finish(h)
  PROVE  JInv'
<1>1. hplace[h] \in {"finish", "abort", "ask"}
  BY DEF Finish, EndStatus
<1>2. /\ EndStatus[hplace[h]] \in {"completed", "cancelled", "waiting"}
      /\ EndStatus[hplace[h]] = "waiting" => hplace[h] = "ask"
  BY <1>1 DEF EndStatus
<1>3. CASE Ends(h, EndStatus[hplace[h]]) /\ UNCHANGED runAction
  <2> DEFINE status == EndStatus[hplace[h]]
  <2>1. Ends(h, status) /\ UNCHANGED runAction /\ (status = "waiting" => hplace[h] = "ask")
        /\ status \in {"completed", "cancelled", "failed", "waiting"}
    BY <1>2, <1>3
  <2>2. Elsewhere /\ UNCHANGED <<journal, effects, commandDoc, working, faults>>
    BY DEF Finish
  <2> HIDE DEF status
  <2> QED
    BY <2>1, <2>2, EndsKeeps
<1> QED
  BY <1>3, DetachedKeeps DEF Finish

-----------------------------------------------------------------------------
(* The start of a host. *)

LEMMA LoadKeeps ==
  ASSUME JInv, NEW h \in Hosts, Load(h)
  PROVE  JInv'
<1>1. JournalTypeOK /\ Local(h) /\ hplace[h] = "load" /\ Model \notin Calls /\ NoCall \notin Calls
  BY JournalAssumption DEF JInv, HostPart, Load, Model, Calls, NoCall, JournalAssumption
<1>2. /\ todo[h] = {} /\ out[h] = "none" /\ cstep[h] = 1 /\ hlease[h] > 0 /\ Answered \subseteq made
      /\ hstart[h] \in Calls => hstart[h] \in made
  BY <1>1 DEF JInv, AnswerPart, FreshPart, Fresh, Local, Copies, Outcomes, Starting, Idle
<1>3. OwnsRun(h) => runAction = hstart[h]
  BY <1>1, <1>2 DEF JInv, ActionPart, Expected, Idle, Starting
<1>4. CASE Detached(h)
  BY <1>4, DetachedKeeps DEF Load
<1>5. CASE Ends(h, "failed") /\ UNCHANGED runAction
  BY <1>5, EndsKeeps DEF Load
<1>6. ASSUME seen' = [seen EXCEPT ![h] = made], closed' = [closed EXCEPT ![h] = Answered],
             hparked' = [hparked EXCEPT ![h] = keeper = "session" /\ ~working], Goes(h, "recover"),
             UNCHANGED <<runPhase, runOwner, runLive, runAction, hlease, hstart, todo, out, cstep>>
      PROVE  JInv'
  <2>1. /\ hplace'[h] = "recover" /\ OthersStay(h) /\ seen'[h] = made /\ closed'[h] = Answered
        /\ todo'[h] = {} /\ hstart'[h] = hstart[h] /\ out'[h] = "none" /\ cstep'[h] = 1
    BY <1>1, <1>2, <1>6 DEF Goes, OthersStay, Same, JournalTypeOK
  <2>2. UNCHANGED <<keeper, leases, runStop, recovered, journal, effects, commandDoc, working, faults>>
    BY DEF Load, Elsewhere
  <2>3. JournalTypeOK'
    <3>1. hplace' \in [Hosts -> Places] /\ seen' \in [Hosts -> SUBSET Calls] /\ closed' \in [Hosts -> SUBSET Calls]
          /\ hparked' \in [Hosts -> BOOLEAN]
      BY <1>1, <1>2, <1>6 DEF Goes, JournalTypeOK, Places
    <3> QED
      BY <1>1, <1>6, <2>2, <3>1 DEF journal, commandDoc, JournalTypeOK
  <2>4. Local(h)'
    BY <1>1, <1>2, <1>6, <2>1, <2>2 DEF Local, Copies, Recovering, Opened, Outcomes, OfResponse, Idle, Busy,
       Command, Starting, journal, Answered
  <2>5. Moves(h)
    BY <1>1, <1>2, <1>6, <2>1, <2>2 DEF Moves, journal, Idle
  <2>6. Names(h)
    BY <1>1, <1>3, <1>6, <2>1 DEF Names, Expected, Starting
  <2>7. Handles(h)
    BY <1>1, <2>1 DEF Handles, InHand, Enters, Busy, Command
  <2>8. Does(h)
    BY <1>1, <2>1, <2>2 DEF Does, Commanding, Command, commandDoc, JInv, CommandPart, Whole
  <2> QED
    BY <2>3, <2>4, <2>5, <2>6, <2>7, <2>8, ActsKeep DEF Acts
<1> QED
  BY <1>4, <1>5, <1>6 DEF Load

LEMMA RecoverKeeps ==
  ASSUME JInv, NEW h \in Hosts, Recover(h)
  PROVE  JInv'
<1>1. JournalTypeOK /\ Local(h) /\ hplace[h] = "recover" /\ Model \notin Calls /\ NoCall \notin Calls
  BY JournalAssumption DEF JInv, HostPart, Recover, Model, Calls, NoCall, JournalAssumption
<1>2. /\ todo[h] = {} /\ out[h] = "none" /\ cstep[h] = 1 /\ hlease[h] > 0
      /\ hstart[h] \in Calls => hstart[h] \in seen[h]
      /\ seen[h] \subseteq made /\ made \subseteq Calls
  BY <1>1 DEF Local, Copies, Recovering, Outcomes, Starting, Idle, JournalTypeOK
<1>3. OwnsRun(h) => runAction = hstart[h]
  BY <1>1, <1>2 DEF JInv, ActionPart, Expected, Idle, Starting
<1>4. PICK place \in {"begin", "close"}, result \in {"none", "error", "unknown"} :
         /\ Goes(h, place) /\ out' = [out EXCEPT ![h] = result]
         /\ place = "begin" => hstart[h] \in seen[h] \ closed[h] /\ IsTeam(hstart[h]) /\ result = "none"
         /\ IF result = "none" THEN place = "close" => hstart[h] \notin seen[h] \ closed[h]
            ELSE hstart[h] \in seen[h] \ closed[h]
  <2>1. out = [out EXCEPT ![h] = "none"]
    BY <1>1, <1>2 DEF JournalTypeOK
  <2> QED
    BY <2>1 DEF Recover
<1>5. UNCHANGED <<keeper, runDoc, journal, effects, commandDoc, working,
                  hlease, seen, closed, hstart, hparked, todo, cstep, faults>>
  BY DEF Recover
<1>6. /\ hplace'[h] = place /\ OthersStay(h) /\ seen'[h] = seen[h] /\ closed'[h] = closed[h]
      /\ todo'[h] = {} /\ hstart'[h] = hstart[h] /\ out'[h] = result /\ cstep'[h] = 1
  BY <1>1, <1>2, <1>4, <1>5 DEF Goes, OthersStay, Same, JournalTypeOK
<1>7. JournalTypeOK'
  <2>1. hplace' \in [Hosts -> Places] /\ out' \in [Hosts -> Results \cup {"none"}]
    BY <1>1, <1>4 DEF Goes, JournalTypeOK, Places, Results
  <2> QED
    BY <1>1, <1>5, <2>1 DEF runDoc, journal, commandDoc, JournalTypeOK
<1>8. place = "begin" => Hand(h)' = hstart[h] /\ IsTeam(Hand(h))'
  BY <1>1, <1>2, <1>4, <1>5, <1>6 DEF Hand, Repeats, IsTeam, journal
<1>9. Local(h)'
  <2>1. Copies(h)'
    BY <1>1, <1>2, <1>4, <1>5, <1>6 DEF Local, Copies, OfResponse, Idle, Busy, Command, Starting, journal, Answered
  <2>2. Recovering(h)'
    BY <1>1, <1>2, <1>4, <1>5, <1>6 DEF Recovering, Command
  <2>3. Opened(h)' /\ Outcomes(h)'
    BY <1>1, <1>2, <1>4, <1>6, <1>8 DEF Opened, Outcomes, OfResponse, Busy, Command
  <2> QED
    BY <2>1, <2>2, <2>3 DEF Local
<1>10. Moves(h)
  BY <1>1, <1>2, <1>4, <1>5, <1>6 DEF Moves, runDoc, journal, Idle
<1>11. Names(h)
  BY <1>1, <1>2, <1>3, <1>4, <1>5, <1>6 DEF Names, Expected, Starting, runDoc, OwnsRun
<1>12. Handles(h)
  BY <1>1, <1>4, <1>6, <1>8 DEF Handles, InHand, Enters, Busy, Command
<1>13. Does(h)
  BY <1>1, <1>4, <1>5, <1>6 DEF Does, Commanding, Command, commandDoc, JInv, CommandPart, Whole
<1> QED
  BY <1>7, <1>9, <1>10, <1>11, <1>12, <1>13, ActsKeep DEF Acts

LEMMA ClosedKeeps ==
  ASSUME JInv, NEW h \in Hosts, Closed(h)
  PROVE  JInv'
<1>1. JournalTypeOK /\ Local(h) /\ hplace[h] = "closed" /\ Model \notin Calls /\ NoCall \notin Calls
  BY JournalAssumption DEF JInv, HostPart, Closed, Model, Calls, NoCall, JournalAssumption
<1>2. /\ todo[h] = {} /\ hlease[h] > 0 /\ seen[h] \subseteq closed[h]
      /\ hstart[h] \in Calls => hstart[h] \in Answered
  BY <1>1 DEF Local, Copies, Recovering, Opened, Starting, Idle
<1>3. OwnsRun(h) => runAction = hstart[h]
  BY <1>1, <1>2 DEF JInv, ActionPart, Expected, Idle, Starting
<1>4. CASE Detached(h)
  BY <1>4, DetachedKeeps DEF Closed
<1>5. CASE Ends(h, "completed") /\ runAction' = NoCall
  BY <1>5, EndsKeeps DEF Closed
<1>6. ASSUME runAction' = IF hstart[h] # NoCall THEN NoCall ELSE runAction, hstart[h] # NoCall => OwnsRun(h),
             Goes(h, "turn"), hstart' = [hstart EXCEPT ![h] = NoCall],
             out' = [out EXCEPT ![h] = "none"], cstep' = [cstep EXCEPT ![h] = 1],
             UNCHANGED <<runPhase, runOwner, runLive, hlease, seen, closed, hparked, todo>>
      PROVE  JInv'
  <2>1. /\ hplace'[h] = "turn" /\ OthersStay(h) /\ seen'[h] = seen[h] /\ closed'[h] = closed[h]
        /\ todo'[h] = {} /\ hstart'[h] = NoCall /\ out'[h] = "none" /\ cstep'[h] = 1
    BY <1>1, <1>2, <1>6 DEF Goes, OthersStay, Same, JournalTypeOK
  <2>2. UNCHANGED <<keeper, leases, runStop, recovered, journal, effects, commandDoc, working, faults>>
    BY DEF Closed, Elsewhere
  <2>3. JournalTypeOK'
    <3>1. hplace' \in [Hosts -> Places] /\ out' \in [Hosts -> Results \cup {"none"}]
      BY <1>1, <1>6 DEF Goes, JournalTypeOK, Places
    <3>2. hstart' \in [Hosts -> 0..Model] /\ cstep' \in [Hosts -> 1..(Phases + 1)] /\ runAction' \in 0..Model
      BY <1>1, <1>6, JournalAssumption DEF JournalTypeOK, NoCall, Model, JournalAssumption
    <3> QED
      BY <1>1, <1>6, <2>2, <3>1, <3>2 DEF journal, commandDoc, JournalTypeOK
  <2>4. Local(h)'
    BY <1>1, <1>2, <1>6, <2>1, <2>2 DEF Local, Copies, Recovering, Opened, Outcomes, OfResponse, Idle, Busy,
       Command, Starting, journal, Answered
  <2>5. Moves(h)
    BY <1>1, <1>2, <1>6, <2>1, <2>2 DEF Moves, journal, Idle
  <2>6. Names(h)
    BY <1>1, <1>2, <1>3, <1>6, <2>1 DEF Names, Expected, Starting, AtModel, Busy, Command
  <2>7. Handles(h)
    BY <1>1, <2>1 DEF Handles, InHand, Enters, Busy, Command
  <2>8. Does(h)
    BY <1>1, <2>1, <2>2 DEF Does, Commanding, Command, commandDoc, JInv, CommandPart, Whole
  <2> QED
    BY <2>3, <2>4, <2>5, <2>6, <2>7, <2>8, ActsKeep DEF Acts
<1> QED
  BY <1>4, <1>5, <1>6 DEF Closed

-----------------------------------------------------------------------------
(* The calls of a response. *)

LEMMA NextCallKeeps ==
  ASSUME JInv, NEW h \in Hosts, NextCall(h), todo[h] = {} \/ ~runStop
  PROVE  JInv'
<1>1. JournalTypeOK /\ Local(h) /\ hplace[h] = "calls" /\ Model \notin Calls /\ NoCall \notin Calls
  BY JournalAssumption DEF JInv, HostPart, NextCall, Model, Calls, NoCall, JournalAssumption
<1>2. /\ hstart[h] = NoCall /\ out[h] = "none" /\ cstep[h] = 1 /\ hlease[h] > 0 /\ todo[h] \subseteq seen[h]
      /\ todo[h] \cap closed[h] = {} /\ seen[h] \ closed[h] \subseteq todo[h]
  BY <1>1 DEF Local, Copies, Opened, Outcomes, Starting, Command, Idle
<1>3. OwnsRun(h) => runAction = NoCall
  BY <1>1, <1>2 DEF JInv, ActionPart, Expected, Idle, Starting, AtModel, Busy, Command
<1>4. CASE Detached(h)
  BY <1>4, DetachedKeeps DEF NextCall, journal
<1>5. todo[h] # {} => Hand(h) \in todo[h] /\ Hand(h) \in Calls
  BY <1>1, NextOf
<1>6. ASSUME NEW place \in {"turn", "answer", "execute", "begin"}, Goes(h, place),
             UNCHANGED <<runPhase, runOwner, runLive, made, answers, hlease, seen, closed, hstart, hparked, todo, cstep>>,
             out' = [out EXCEPT ![h] = IF place = "answer" THEN "rejected" ELSE "none"],
             (place = "turn") = (todo[h] = {}),
             place = "answer" => sort[Hand(h)] = "bad",
             place = "execute" => ~IsTeam(Hand(h)) /\ sort[Hand(h)] # "bad",
             place = "begin" => IsTeam(Hand(h)),
             IF place \in {"execute", "begin"} THEN OwnsRun(h) /\ runAction' = Hand(h) ELSE UNCHANGED runAction
      PROVE  JInv'
  <2>1. /\ hplace'[h] = place /\ OthersStay(h) /\ seen'[h] = seen[h] /\ closed'[h] = closed[h]
        /\ todo'[h] = todo[h] /\ hstart'[h] = NoCall /\ cstep'[h] = 1
        /\ out'[h] = IF place = "answer" THEN "rejected" ELSE "none"
    BY <1>1, <1>2, <1>6 DEF Goes, OthersStay, Same, JournalTypeOK
  <2>2. UNCHANGED <<keeper, leases, runStop, recovered, made, sort, answers, effects, commandDoc, working, faults>>
    BY <1>6 DEF NextCall, Elsewhere
  <2>3. JournalTypeOK'
    <3>1. hplace' \in [Hosts -> Places] /\ out' \in [Hosts -> Results \cup {"none"}]
      BY <1>1, <1>6 DEF Goes, JournalTypeOK, Places, Results
    <3>2. runAction' \in 0..Model
      <4>1. Calls \subseteq 0..Model
        BY JournalAssumption DEF Calls, Model, JournalAssumption
      <4>2. runAction' = Hand(h) => Hand(h) \in Calls \/ runAction' = runAction
        BY <1>5, <1>6
      <4>3. runAction' = runAction \/ runAction' = Hand(h)
        BY <1>6
      <4> QED
        BY <1>1, <4>1, <4>2, <4>3 DEF JournalTypeOK
    <3> QED
      BY <1>1, <1>6, <2>2, <3>1, <3>2 DEF commandDoc, JournalTypeOK
  <2>4. Hand(h)' = Hand(h) /\ sort' = sort
    BY <1>6, <2>1, <2>2 DEF Hand, Repeats, First
  <2>5. Local(h)'
    <3>1. Copies(h)'
      BY <1>1, <1>2, <1>6, <2>1, <2>2 DEF Local, Copies, OfResponse, Idle, Busy, Command, Starting, Answered
    <3>2. Recovering(h)' /\ Opened(h)'
      BY <1>1, <1>2, <1>6, <2>1 DEF Recovering, Opened, OfResponse, Busy, Command
    <3>3. Outcomes(h)'
      BY <1>6, <2>1, <2>4 DEF Outcomes, IsTeam, Command
    <3> QED
      BY <3>1, <3>2, <3>3 DEF Local
  <2>6. Moves(h)
    BY <1>1, <1>2, <1>6, <2>1, <2>2 DEF Moves, Idle
  <2>7. Names(h)
    BY <1>1, <1>3, <1>5, <1>6, <2>1, <2>4 DEF Names, Expected, Starting, AtModel, Busy, Command, Enters, IsTeam
  <2>8. Handles(h)
    BY <1>1, <1>6, <2>1, <2>4 DEF Handles, InHand, Enters, Busy, Command, IsTeam
  <2>9. Does(h)
    <3>1. Commanding(h)'
      BY <1>6, <2>1 DEF Commanding, Command
    <3> QED
      BY <2>2, <3>1 DEF Does, commandDoc, JInv, CommandPart, Whole
  <2> QED
    BY <2>3, <2>5, <2>6, <2>7, <2>8, <2>9, ActsKeep DEF Acts
<1>7. out = [out EXCEPT ![h] = "none"]
  BY <1>1, <1>2 DEF JournalTypeOK
<1>8. CASE todo[h] = {}
  BY <1>6, <1>7, <1>8 DEF NextCall, Steady
<1>9. CASE todo[h] # {} /\ sort[Hand(h)] = "bad"
  <2>1. Goes(h, "answer") /\ out' = [out EXCEPT ![h] = "rejected"]
        /\ UNCHANGED <<runPhase, runOwner, runLive, runAction, made, answers, hlease, seen, closed,
                       hstart, hparked, todo, cstep>>
    BY <1>9 DEF NextCall
  <2> QED
    BY <1>6, <1>9, <2>1
<1>10. CASE todo[h] # {} /\ sort[Hand(h)] # "bad" /\ ~Detached(h)
  <2>1. /\ OwnsRun(h) /\ runAction' = Hand(h) /\ Goes(h, IF IsTeam(Hand(h)) THEN "begin" ELSE "execute")
        /\ Steady /\ UNCHANGED <<runPhase, runOwner, runLive, made, answers>>
    BY <1>10 DEF NextCall, MayUpdate
  <2> QED
    BY <1>6, <1>7, <1>10, <2>1 DEF Steady
<1> QED
  BY <1>4, <1>8, <1>9, <1>10

LEMMA CallDoneKeeps ==
  ASSUME JInv, NEW h \in Hosts, CallDone(h)
  PROVE  JInv'
<1>1. JournalTypeOK /\ Local(h) /\ hplace[h] = "answered" /\ Model \notin Calls /\ NoCall \notin Calls
  BY JournalAssumption DEF JInv, HostPart, CallDone, Model, Calls, NoCall, JournalAssumption
<1>2. /\ hstart[h] = NoCall /\ hlease[h] > 0 /\ todo[h] \subseteq seen[h] /\ closed[h] \subseteq Answered
      /\ todo[h] \cap closed[h] = {Hand(h)} /\ seen[h] \ closed[h] \subseteq todo[h]
  BY <1>1 DEF Local, Copies, Opened, OfResponse, Starting, Command, Busy, Idle
<1>3. OwnsRun(h) => runAction = IF sort[Hand(h)] = "bad" THEN NoCall ELSE Hand(h)
  BY <1>1, <1>2 DEF JInv, ActionPart, Expected, Idle, Starting, AtModel, Busy, Command
<1>4. CASE Detached(h)
  BY <1>4, DetachedKeeps DEF CallDone
<1>5. ASSUME NEW place \in {"finish", "calls"}, Goes(h, place),
             UNCHANGED <<runPhase, runOwner, runLive, hlease, seen, closed, hstart, hparked>>,
             todo' = [todo EXCEPT ![h] = @ \ {Hand(h)}],
             out' = [out EXCEPT ![h] = "none"], cstep' = [cstep EXCEPT ![h] = 1],
             sort[Hand(h)] = "bad" \/ OwnsRun(h),
             runAction' = IF sort[Hand(h)] = "bad" THEN runAction ELSE NoCall
      PROVE  JInv'
  <2>1. /\ hplace'[h] = place /\ OthersStay(h) /\ seen'[h] = seen[h] /\ closed'[h] = closed[h]
        /\ todo'[h] = todo[h] \ {Hand(h)} /\ hstart'[h] = NoCall /\ cstep'[h] = 1 /\ out'[h] = "none"
    BY <1>1, <1>2, <1>5 DEF Goes, OthersStay, Same, JournalTypeOK
  <2>2. UNCHANGED <<keeper, leases, runStop, recovered, journal, effects, commandDoc, working, faults>>
    BY DEF CallDone, Elsewhere
  <2>3. JournalTypeOK'
    <3>1. hplace' \in [Hosts -> Places] /\ out' \in [Hosts -> Results \cup {"none"}]
          /\ todo' \in [Hosts -> SUBSET Calls]
      BY <1>1, <1>5 DEF Goes, JournalTypeOK, Places, Results
    <3>2. runAction' \in 0..Model /\ cstep' \in [Hosts -> 1..(Phases + 1)]
      BY <1>1, <1>5, JournalAssumption DEF JournalTypeOK, NoCall, Model, JournalAssumption
    <3> QED
      BY <1>1, <1>5, <2>2, <3>1, <3>2 DEF journal, commandDoc, JournalTypeOK
  <2>4. Local(h)'
    BY <1>1, <1>2, <1>5, <2>1, <2>2 DEF Local, Copies, Recovering, Opened, Outcomes, OfResponse, Idle, Busy,
       Command, Starting, journal, Answered
  <2>5. Moves(h)
    BY <1>1, <1>2, <1>5, <2>1, <2>2 DEF Moves, Idle, journal
  <2>6. Names(h)
    BY <1>1, <1>2, <1>3, <1>5, <2>1 DEF Names, Expected, Starting, AtModel, Busy, Command
  <2>7. Handles(h)
    BY <1>1, <2>1 DEF Handles, InHand, Enters, Busy, Command
  <2>8. Does(h)
    BY <1>1, <2>1, <2>2 DEF Does, Commanding, Command, commandDoc, JInv, CommandPart, Whole
  <2> QED
    BY <2>3, <2>4, <2>5, <2>6, <2>7, <2>8, ActsKeep DEF Acts
<1> QED
  BY <1>4, <1>5 DEF CallDone, MayUpdate

LEMMA ExecuteKeeps ==
  ASSUME JInv, NEW h \in Hosts, Execute(h)
  PROVE  JInv'
<1>1. JournalTypeOK /\ Local(h) /\ hplace[h] = "execute" /\ NoCall \notin Calls
  BY JournalAssumption DEF JInv, HostPart, Execute, Calls, NoCall, JournalAssumption
<1>2. /\ hstart[h] = NoCall /\ hlease[h] > 0 /\ cstep[h] \in 1..(Phases + 1)
      /\ ~IsTeam(Hand(h)) /\ sort[Hand(h)] # "bad" /\ Hand(h) \in Calls
  BY <1>1, HandOf DEF Local, Copies, Outcomes, Starting, Command, Busy, Idle, JournalTypeOK
<1>3. OwnsRun(h) => runAction = Hand(h)
  BY <1>1, <1>2 DEF JInv, ActionPart, Expected, Idle, Starting, AtModel, Busy, Command
<1>4. /\ hplace'[h] = "answer" /\ OthersStay(h) /\ seen'[h] = seen[h] /\ closed'[h] = closed[h]
      /\ todo'[h] = todo[h] /\ hstart'[h] = NoCall /\ cstep'[h] = cstep[h] /\ out'[h] = "answer"
  BY <1>1, <1>2 DEF Execute, Goes, OthersStay, Same, JournalTypeOK
<1>5. UNCHANGED <<keeper, runDoc, journal, commandDoc, working, hlease, seen, closed, hstart, hparked, todo, cstep,
                  faults>>
  BY DEF Execute
<1>6. Hand(h)' = Hand(h) /\ sort' = sort
  BY <1>4, <1>5 DEF Hand, Repeats, First, journal
<1>7. JournalTypeOK'
  <2>1. /\ hplace' \in [Hosts -> Places] /\ out' \in [Hosts -> Results \cup {"none"}]
        /\ effects' \in [Calls -> Nat]
    BY <1>1, <1>2 DEF Execute, Goes, JournalTypeOK, Places, Results
  <2> QED
    BY <1>1, <1>5, <2>1 DEF runDoc, journal, commandDoc, JournalTypeOK
<1>8. Local(h)'
  <2>1. Copies(h)'
    BY <1>1, <1>2, <1>4, <1>5 DEF Local, Copies, OfResponse, Idle, Busy, Command, Starting, Answered, journal
  <2>2. Recovering(h)' /\ Opened(h)'
    BY <1>1, <1>2, <1>4 DEF Local, Recovering, Opened, OfResponse, Busy, Command
  <2>3. Outcomes(h)'
    BY <1>2, <1>4, <1>6 DEF Outcomes, IsTeam, Command
  <2> QED
    BY <2>1, <2>2, <2>3 DEF Local
<1>9. Moves(h)
  BY <1>1, <1>2, <1>4, <1>5 DEF Moves, Idle, runDoc, journal
<1>10. Names(h)
  BY <1>2, <1>3, <1>4, <1>5, <1>6 DEF Names, Expected, Starting, AtModel, Busy, runDoc, OwnsRun
<1>11. Handles(h)
  BY <1>1, <1>2, <1>4, <1>6 DEF Handles, InHand, Enters, Busy
<1>12. Does(h)
  <2>1. Commanding(h)'
    BY <1>2, <1>4, <1>6 DEF Commanding, Command, IsTeam
  <2>2. \A c \in Calls : effects'[c] = IF c = Hand(h) THEN effects[c] + 1 ELSE effects[c]
    BY <1>1, <1>2 DEF Execute, JournalTypeOK
  <2> QED
    BY <1>1, <1>5, <2>1, <2>2 DEF Does, commandDoc, Takes, JInv, CommandPart, Whole
<1> QED
  BY <1>7, <1>8, <1>9, <1>10, <1>11, <1>12, ActsKeep DEF Acts

-----------------------------------------------------------------------------
(* Team commands. *)

\* A host goes on in its command, or returns from it.
InsideCommand(h, place) ==
    /\ hplace[h] \in Command /\ Goes(h, place)
    /\ IF place \in Command THEN UNCHANGED out
       ELSE /\ place = IF Repeats(h) THEN "close" ELSE "answer"
            /\ \E result \in {"answer", "error"} : out' = [out EXCEPT ![h] = result]
    /\ UNCHANGED <<keeper, runDoc, journal, effects, faults, hlease, seen, closed, hstart, hparked, todo>>
    /\ cstep' \in [Hosts -> 1..(Phases + 1)] /\ \A g \in Hosts \ {h} : cstep'[g] = cstep[g]
    /\ place \in {"begin", "reserve"} => cstep'[h] = 1

\* Only the receipt and the writes of its call change.
OwnCommand(h) ==
    /\ \A c \in Calls : c # Hand(h) => receipt'[c] = receipt[c] /\ done'[c] = done[c]
    /\ \A c \in Calls : done[c] \subseteq done'[c]
    /\ \A c \in Calls : receipt'[c] = "completed" => Whole(c)'
CommandTyped ==
    /\ receipt \in [Calls -> {"none", "processing", "completed", "failed"}]
    /\ rholder \in [Calls -> 0..MaxLeases] /\ rfresh \in [Calls -> BOOLEAN]
    /\ done \in [Calls -> SUBSET (1..Phases)] /\ working \in BOOLEAN

LEMMA InsideKeeps ==
  ASSUME JInv, NEW h \in Hosts, NEW place \in Command \cup {"answer", "close"},
         InsideCommand(h, place), OwnCommand(h), CommandTyped', Commanding(h)'
  PROVE  JInv'
<1>1. JournalTypeOK /\ Local(h) /\ hplace[h] \in Command /\ NoCall \notin Calls /\ hplace[h] \in Busy
  BY JournalAssumption DEF JInv, HostPart, InsideCommand, Calls, NoCall, JournalAssumption, Busy
<1>2. /\ hlease[h] > 0 /\ out[h] = "none" /\ IsTeam(Hand(h)) /\ Hand(h) \in Calls
      /\ hstart[h] # NoCall => todo[h] = {} /\ hstart[h] \in seen[h] \ closed[h] /\ Hand(h) = hstart[h]
  BY <1>1, HandOf DEF Local, Copies, Recovering, Outcomes, Command, Idle
<1>3. OwnsRun(h) => runAction = Hand(h)
  BY <1>1, <1>2 DEF JInv, ActionPart, Expected, Idle, Starting, AtModel, Busy, Command, IsTeam
<1>4. /\ hplace'[h] = place /\ OthersStay(h) /\ seen'[h] = seen[h] /\ closed'[h] = closed[h]
      /\ todo'[h] = todo[h] /\ hstart'[h] = hstart[h]
      /\ IF place \in Command THEN out'[h] = "none" ELSE out'[h] \in {"answer", "error"}
      /\ place = "close" => hstart[h] # NoCall
      /\ place = "answer" => hstart[h] = NoCall
      /\ place \in {"begin", "reserve"} => cstep'[h] = 1
  BY <1>1, <1>2 DEF InsideCommand, Goes, OthersStay, Same, JournalTypeOK, Repeats, Command
<1>5. UNCHANGED <<keeper, runDoc, journal, effects, faults, hlease, seen, closed, hstart, hparked, todo>>
  BY DEF InsideCommand
<1>6. Hand(h)' = Hand(h) /\ sort' = sort
  BY <1>4, <1>5 DEF Hand, Repeats, First, journal
<1>7. JournalTypeOK'
  <2>1. /\ hplace' \in [Hosts -> Places] /\ out' \in [Hosts -> Results \cup {"none"}]
        /\ cstep' \in [Hosts -> 1..(Phases + 1)]
    BY <1>1 DEF InsideCommand, Goes, JournalTypeOK, Places, Results, Command
  <2> QED
    BY <1>1, <1>5, <2>1 DEF runDoc, journal, CommandTyped, JournalTypeOK
<1>8. Local(h)'
  <2>1. Copies(h)'
    BY <1>1, <1>2, <1>4, <1>5 DEF Local, Copies, OfResponse, Idle, Busy, Command, Starting, Answered, journal
  <2>2. Recovering(h)'
    BY <1>1, <1>2, <1>4 DEF Recovering, Command
  <2>3. Opened(h)'
    BY <1>1, <1>2, <1>4, <1>6 DEF Local, Opened, OfResponse, Busy, Command
  <2>4. Outcomes(h)'
    BY <1>2, <1>4, <1>6 DEF Outcomes, IsTeam, Command
  <2> QED
    BY <2>1, <2>2, <2>3, <2>4 DEF Local
<1>9. Moves(h)
  BY <1>1, <1>2, <1>4, <1>5 DEF Moves, Idle, runDoc, journal, Command
<1>10. Names(h)
  BY <1>2, <1>3, <1>4, <1>5, <1>6 DEF Names, Expected, Starting, AtModel, Busy, Command, runDoc, OwnsRun, IsTeam
<1>11. Handles(h)
  BY <1>1, <1>2, <1>4, <1>6 DEF Handles, InHand, Enters, Busy, Command, IsTeam
<1>12. Does(h)
  BY <1>1, <1>5 DEF Does, Takes, OwnCommand
<1> QED
  BY <1>7, <1>8, <1>9, <1>10, <1>11, <1>12, ActsKeep DEF Acts

\* Nothing but the command changes.
Aside == UNCHANGED <<keeper, runDoc, journal, effects, faults>>

LEMMA ReturnsInside ==
  ASSUME JournalTypeOK, NEW h \in Hosts, hplace[h] \in Command, NEW result \in {"answer", "error"},
         Returns(h, result), Aside
  PROVE  /\ InsideCommand(h, IF Repeats(h) THEN "close" ELSE "answer")
         /\ Hand(h)' = Hand(h) /\ hplace'[h] \in {"answer", "close"} /\ out'[h] = result
<1>1. /\ hplace'[h] \in {"answer", "close"} /\ out'[h] = result
      /\ hstart' = hstart /\ todo' = todo
  BY DEF Returns, Goes, JournalTypeOK
<1>2. Hand(h)' = Hand(h)
  BY <1>1 DEF Hand, Repeats, First
<1>3. "close" \notin Command /\ "answer" \notin Command
  BY DEF Command
<1> QED
  BY <1>1, <1>2, <1>3 DEF InsideCommand, Returns, Aside, JournalTypeOK

LEMMA StaysInside ==
  ASSUME JournalTypeOK, NEW h \in Hosts, hplace[h] \in Command, NEW place \in {"reserve", "permit", "write", "settle"},
         Goes(h, place), Aside, UNCHANGED <<out, hlease, seen, closed, hstart, hparked, todo, cstep>>,
         place = "reserve" => cstep[h] = 1
  PROVE  /\ InsideCommand(h, place)
         /\ Hand(h)' = Hand(h) /\ hplace'[h] = place /\ cstep'[h] = cstep[h]
<1>1. hplace'[h] = place /\ place \in Command
  BY DEF Goes, JournalTypeOK, Command
<1>2. Hand(h)' = Hand(h)
  BY DEF Hand, Repeats, First
<1> QED
  BY <1>1, <1>2 DEF InsideCommand, Aside, JournalTypeOK

(* failCommand: nothing has become of the command. *)
LEMMA FailsKeeps ==
  ASSUME JInv, NEW h \in Hosts, hplace[h] \in Command, FailsCommand(h), Aside, UNCHANGED <<done, working>>
  PROVE  JInv'
<1>1. JournalTypeOK /\ Local(h) /\ Hand(h) \in Calls
  BY HandOf DEF JInv, HostPart, Busy
<1>2. /\ InsideCommand(h, IF Repeats(h) THEN "close" ELSE "answer")
      /\ Hand(h)' = Hand(h) /\ hplace'[h] \in {"answer", "close"} /\ out'[h] = "error"
  BY <1>1, ReturnsInside DEF FailsCommand
<1>3. /\ CommandTyped' /\ \A c \in Calls : receipt'[c] \in {receipt[c], "failed"}
      /\ \A c \in Calls : c # Hand(h) => receipt'[c] = receipt[c]
  <2>1. 0 \in 0..MaxLeases
    BY JournalAssumption DEF JournalAssumption
  <2>2. \/ UNCHANGED <<receipt, rholder, rfresh>>
        \/ /\ receipt' = [receipt EXCEPT ![Hand(h)] = "failed"] /\ rfresh' = [rfresh EXCEPT ![Hand(h)] = FALSE]
           /\ rholder' = [rholder EXCEPT ![Hand(h)] = 0]
    BY DEF FailsCommand
  <2>3. CASE UNCHANGED <<receipt, rholder, rfresh>>
    BY <1>1, <2>3 DEF CommandTyped, JournalTypeOK
  <2>4. CASE /\ receipt' = [receipt EXCEPT ![Hand(h)] = "failed"] /\ rfresh' = [rfresh EXCEPT ![Hand(h)] = FALSE]
             /\ rholder' = [rholder EXCEPT ![Hand(h)] = 0]
    <3>1. /\ receipt' \in [Calls -> {"none", "processing", "completed", "failed"}]
          /\ \A c \in Calls : receipt'[c] = IF c = Hand(h) THEN "failed" ELSE receipt[c]
      BY <1>1, <2>4 DEF JournalTypeOK
    <3>2. rholder' \in [Calls -> 0..MaxLeases] /\ rfresh' \in [Calls -> BOOLEAN]
      BY <1>1, <2>1, <2>4 DEF JournalTypeOK
    <3>3. done' \in [Calls -> SUBSET (1..Phases)] /\ working' \in BOOLEAN
      BY <1>1 DEF JournalTypeOK
    <3> QED
      BY <3>1, <3>2, <3>3 DEF CommandTyped
  <2> QED
    BY <2>2, <2>3, <2>4
<1>4. OwnCommand(h)
  BY <1>1, <1>3 DEF OwnCommand, JInv, CommandPart, Whole
<1>5. Commanding(h)'
  BY <1>2 DEF Commanding, Command
<1> QED
  BY <1>2, <1>3, <1>4, <1>5, InsideKeeps

LEMMA BeginKeeps ==
  ASSUME JInv, NEW h \in Hosts, Begin(h)
  PROVE  JInv'
<1>1. JournalTypeOK /\ hplace[h] = "begin" /\ hplace[h] \in Command /\ cstep[h] = 1 /\ Aside
  BY DEF JInv, HostPart, Local, Outcomes, Begin, InCommand, Command, Aside
<1>2. CommandTyped' /\ OwnCommand(h)
  BY <1>1 DEF Begin, commandDoc, CommandTyped, OwnCommand, JournalTypeOK, JInv, CommandPart, Whole
<1>3. CASE Goes(h, "reserve") /\ Steady
  <2>1. InsideCommand(h, "reserve") /\ hplace'[h] = "reserve" /\ cstep'[h] = 1
    BY <1>1, <1>3, StaysInside DEF Steady
  <2>2. Commanding(h)'
    BY <2>1 DEF Commanding, Command
  <2> QED
    BY <1>2, <2>1, <2>2, InsideKeeps DEF Command
<1>4. CASE Returns(h, "error")
  <2>1. /\ InsideCommand(h, IF Repeats(h) THEN "close" ELSE "answer")
        /\ hplace'[h] \in {"answer", "close"} /\ out'[h] = "error"
    BY <1>1, <1>4, ReturnsInside
  <2>2. Commanding(h)'
    BY <2>1 DEF Commanding, Command
  <2> QED
    BY <1>2, <2>1, <2>2, InsideKeeps
<1> QED
  BY <1>3, <1>4 DEF Begin

LEMMA ReserveKeeps ==
  ASSUME JInv, NEW h \in Hosts, Reserve(h)
  PROVE  JInv'
<1>1. JournalTypeOK /\ hplace[h] = "reserve" /\ hplace[h] \in Command /\ cstep[h] = 1 /\ Aside /\ Local(h)
  BY DEF JInv, HostPart, Local, Outcomes, Reserve, InCommand, Command, Aside
<1>2. Hand(h) \in Calls /\ UNCHANGED <<done, working>>
  BY <1>1, HandOf DEF Busy, Reserve
<1>3. CASE /\ receipt' = [receipt EXCEPT ![Hand(h)] = "processing"]
           /\ rholder' = [rholder EXCEPT ![Hand(h)] = hlease[h]] /\ rfresh' = [rfresh EXCEPT ![Hand(h)] = TRUE]
           /\ Goes(h, "permit") /\ Steady
  <2>1. InsideCommand(h, "permit") /\ hplace'[h] = "permit" /\ cstep'[h] = 1
    BY <1>1, <1>3, StaysInside DEF Steady
  <2>2. CommandTyped'
    BY <1>1, <1>2, <1>3 DEF CommandTyped, JournalTypeOK
  <2>3. OwnCommand(h)
    BY <1>1, <1>2, <1>3 DEF OwnCommand, JournalTypeOK, JInv, CommandPart, Whole
  <2>4. Commanding(h)'
    BY <2>1 DEF Commanding, Command
  <2> QED
    BY <2>1, <2>2, <2>3, <2>4, InsideKeeps DEF Command
<1>4. ASSUME NEW result \in {"answer", "error"}, Returns(h, result), UNCHANGED <<receipt, rholder, rfresh>>,
             result = "answer" => receipt[Hand(h)] = "completed"
      PROVE  JInv'
  <2>1. /\ InsideCommand(h, IF Repeats(h) THEN "close" ELSE "answer")
        /\ Hand(h)' = Hand(h) /\ hplace'[h] \in {"answer", "close"} /\ out'[h] = result
    BY <1>1, <1>4, ReturnsInside
  <2>2. CommandTyped' /\ OwnCommand(h)
    BY <1>1, <1>2, <1>4 DEF CommandTyped, OwnCommand, JournalTypeOK, JInv, CommandPart, Whole
  <2>3. Commanding(h)'
    BY <1>2, <1>4, <2>1 DEF Commanding, Command, Whole, JInv, CommandPart
  <2> QED
    BY <2>1, <2>2, <2>3, InsideKeeps
<1> QED
  BY <1>3, <1>4 DEF Reserve

LEMMA PermitKeeps ==
  ASSUME JInv, NEW h \in Hosts, Permit(h)
  PROVE  JInv'
<1>1. JournalTypeOK /\ hplace[h] = "permit" /\ hplace[h] \in Command /\ Aside /\ Local(h) /\ Commanding(h)
  BY DEF JInv, HostPart, CommandPart, Permit, InCommand, Command, Aside
<1>2. cstep[h] \in 1..(Phases + 1) /\ Phases \in Nat /\ UNCHANGED <<done, working>>
  BY <1>1, JournalAssumption DEF JournalTypeOK, JournalAssumption, Permit
<1>3. CASE /\ Goes(h, IF cstep[h] <= Phases THEN "write" ELSE "settle") /\ Steady
           /\ UNCHANGED <<receipt, rholder, rfresh>>
  <2> DEFINE place == IF cstep[h] <= Phases THEN "write" ELSE "settle"
  <2>1. InsideCommand(h, place) /\ Hand(h)' = Hand(h) /\ hplace'[h] = place /\ cstep'[h] = cstep[h]
    BY <1>1, <1>3, StaysInside DEF Steady
  <2>2. CommandTyped' /\ OwnCommand(h)
    BY <1>1, <1>2, <1>3 DEF CommandTyped, OwnCommand, JournalTypeOK, JInv, CommandPart, Whole
  <2>3. 1..(cstep[h] - 1) \subseteq done[Hand(h)]
    BY <1>1 DEF Commanding
  <2>4. Commanding(h)'
    BY <1>2, <2>1, <2>3 DEF Commanding, Command
  <2> QED
    BY <2>1, <2>2, <2>4, InsideKeeps DEF Command
<1> QED
  BY <1>1, <1>2, <1>3, FailsKeeps DEF Permit

LEMMA WriteKeeps ==
  ASSUME JInv, NEW h \in Hosts, Write(h)
  PROVE  JInv'
<1>1. JournalTypeOK /\ hplace[h] = "write" /\ hplace[h] \in Command /\ Aside /\ Local(h) /\ Commanding(h)
  BY DEF JInv, HostPart, CommandPart, Write, InCommand, Command, Aside
<1>2. cstep[h] \in 1..Phases /\ Phases \in Nat /\ Hand(h) \in Calls /\ 1..(cstep[h] - 1) \subseteq done[Hand(h)]
  BY <1>1, HandOf, JournalAssumption DEF JournalTypeOK, JournalAssumption, Commanding, Busy
<1>3. /\ hplace'[h] = "permit" /\ cstep'[h] = cstep[h] + 1 /\ Hand(h)' = Hand(h)
      /\ done'[Hand(h)] = done[Hand(h)] \cup {cstep[h]}
      /\ \A c \in Calls : c # Hand(h) => done'[c] = done[c]
  <2>1. hplace'[h] = "permit" /\ cstep'[h] = cstep[h] + 1
    BY <1>1 DEF Write, Goes, JournalTypeOK
  <2>2. Hand(h)' = Hand(h)
    BY DEF Write, Hand, Repeats, First
  <2>3. done' = [done EXCEPT ![Hand(h)] = @ \cup {cstep[h]}]
    BY DEF Write
  <2> QED
    BY <1>1, <1>2, <2>1, <2>2, <2>3 DEF JournalTypeOK
<1>4. InsideCommand(h, "permit")
  <2>1. /\ cstep' \in [Hosts -> 1..(Phases + 1)] /\ \A g \in Hosts \ {h} : cstep'[g] = cstep[g]
    BY <1>1, <1>2 DEF Write, JournalTypeOK
  <2> QED
    BY <1>1, <2>1 DEF InsideCommand, Write, Aside, Command
<1>5. CommandTyped'
  BY <1>1, <1>2 DEF Write, CommandTyped, JournalTypeOK
<1>6. OwnCommand(h)
  <2>1. receipt' = receipt /\ \A c \in Calls : done[c] \subseteq done'[c] /\ done'[c] \subseteq 1..Phases
    BY <1>3, <1>5 DEF Write, CommandTyped
  <2> QED
    BY <1>3, <2>1 DEF OwnCommand, JInv, CommandPart, Whole
<1>7. Commanding(h)'
  BY <1>2, <1>3 DEF Commanding, Command
<1> QED
  BY <1>4, <1>5, <1>6, <1>7, InsideKeeps DEF Command

LEMMA SettleKeeps ==
  ASSUME JInv, NEW h \in Hosts, Settle(h)
  PROVE  JInv'
<1>1. JournalTypeOK /\ hplace[h] = "settle" /\ hplace[h] \in Command /\ Aside /\ Local(h) /\ Commanding(h)
  BY DEF JInv, HostPart, CommandPart, Settle, InCommand, Command, Aside
<1>2. Hand(h) \in Calls /\ UNCHANGED <<done, working>>
  BY <1>1, HandOf DEF Busy, Settle
<1>3. Whole(Hand(h))
  <2>1. 1..(cstep[h] - 1) \subseteq done[Hand(h)] /\ cstep[h] = Phases + 1
    BY <1>1 DEF Commanding
  <2>2. done[Hand(h)] \subseteq 1..Phases
    BY <1>1, <1>2 DEF JournalTypeOK
  <2>3. (Phases + 1) - 1 = Phases
    BY JournalAssumption DEF JournalAssumption
  <2> QED
    BY <2>1, <2>2, <2>3 DEF Whole
<1>4. CASE /\ receipt' = [receipt EXCEPT ![Hand(h)] = "completed"] /\ rfresh' = [rfresh EXCEPT ![Hand(h)] = FALSE]
           /\ rholder' = [rholder EXCEPT ![Hand(h)] = 0]
           /\ Returns(h, "answer")
  <2>1. /\ InsideCommand(h, IF Repeats(h) THEN "close" ELSE "answer")
        /\ Hand(h)' = Hand(h) /\ hplace'[h] \in {"answer", "close"} /\ out'[h] = "answer"
    BY <1>1, <1>4, ReturnsInside
  <2>2. CommandTyped'
    BY <1>1, <1>2, <1>4, JournalAssumption DEF CommandTyped, JournalTypeOK, JournalAssumption
  <2>3. OwnCommand(h)
    BY <1>1, <1>2, <1>3, <1>4 DEF OwnCommand, JournalTypeOK, JInv, CommandPart, Whole
  <2>4. Commanding(h)'
    BY <1>2, <1>3, <2>1 DEF Commanding, Command, Whole
  <2> QED
    BY <2>1, <2>2, <2>3, <2>4, InsideKeeps
<1> QED
  BY <1>1, <1>2, <1>4, FailsKeeps DEF Settle

LEMMA RefuseKeeps ==
  ASSUME JInv, NEW h \in Hosts, Refuse(h)
  PROVE  JInv'
<1>1. hplace[h] \in Command /\ Aside
  BY DEF Refuse, InCommand, Command, Aside
<1> QED
  BY <1>1, FailsKeeps DEF Refuse

-----------------------------------------------------------------------------
(* A step of a host that writes to the transcript. *)

Appends(h, calls, results) ==
    /\ OthersStay(h) /\ ~Idle(h) /\ hplace[h] # "load" /\ hplace'[h] \in {"closed", "made", "abort", "answered"}
    /\ UNCHANGED <<keeper, runPhase, runOwner, runAction, recovered, effects, receipt, done>>
    /\ made' = made \cup calls
    /\ answers' = answers \cup {[call |-> c, as |-> results[c], lease |-> hlease[h]] : c \in DOMAIN results}
    /\ seen'[h] = seen[h] \cup calls /\ closed'[h] = closed[h] \cup DOMAIN results
    /\ todo'[h] = todo[h] \cup calls /\ hstart'[h] = hstart[h]
    /\ \A c \in made : sort'[c] = sort[c]
    /\ calls = {} \/ \E n \in 1..2 : calls = NewCalls(n)
    /\ DOMAIN results \subseteq seen'[h] \ closed[h]
    /\ keeper = "session" => OwnsRun(h)
    /\ Expected(h)' = Expected(h) /\ \A c \in Calls : InHand(h, c)' <=> InHand(h, c)

\* It says of no call what is not so.
SaysNever(c, as) == as = "interrupted" \/ (as = "orphan" /\ keeper = "session")
Truthful(h, results) ==
    \A c \in DOMAIN results :
       /\ results[c] = "rejected" => c \in made /\ sort[c] = "bad"
       /\ results[c] = "answer" => c \in made /\ (IsTeam(c) => Whole(c))
       /\ SaysNever(c, results[c]) => Fresh(c) /\ \A g \in Hosts \ {h} : c \in todo[g] => PutAside(g, c)

(* The calls of a response get the next numbers. *)
LEMMA CallsAdded ==
  ASSUME NEW calls, made \subseteq Calls, made = 1..Cardinality(made),
         calls = {} \/ \E n \in 1..2 : calls = NewCalls(n)
  PROVE  /\ calls \cap made = {}
         /\ made \cup calls = 1..Cardinality(made \cup calls)
<1>1. Cardinality(made) \in Nat
  <2>1. IsFiniteSet(Calls)
    BY FS_Interval, JournalAssumption DEF Calls, JournalAssumption
  <2> QED
    BY <2>1, FS_Subset, FS_CardinalityType
<1>2. ASSUME NEW n \in 1..2, calls = NewCalls(n)
      PROVE  calls \cap made = {} /\ made \cup calls = 1..Cardinality(made \cup calls)
  <2> DEFINE k == Cardinality(made)
  <2> HIDE DEF k
  <2>1. k \in Nat /\ made = 1..k /\ calls = (k + 1)..(k + n)
    BY <1>1, <1>2 DEF k, NewCalls
  <2>2. made \cup calls = 1..(k + n) /\ calls \cap made = {}
    BY <2>1
  <2>3. Cardinality(1..(k + n)) = k + n
    BY <2>1, FS_Interval
  <2> QED
    BY <2>2, <2>3
<1> QED
  BY <1>2

LEMMA AppendKeepsAnswers ==
  ASSUME JInv, NEW h \in Hosts, NEW calls, NEW results, Appends(h, calls, results), Truthful(h, results)
  PROVE  /\ AnswerPart' /\ Answered' = Answered \cup DOMAIN results /\ calls \cap made = {} /\ Grows
         /\ \A c : c \in NeverRan' => \/ c \in NeverRan
                                      \/ c \in DOMAIN results /\ (SaysNever(c, results[c]) \/ (c \in made /\ sort[c] = "bad"))
<1>1. JournalTypeOK /\ AnswerPart /\ HostPart
  BY DEF JInv
<1>2. calls \cap made = {} /\ made' = 1..Cardinality(made')
  BY <1>1, CallsAdded DEF AnswerPart, JournalTypeOK, Appends
<1>3. Answered' = Answered \cup DOMAIN results
  <2> DEFINE new == {[call |-> c, as |-> results[c], lease |-> hlease[h]] : c \in DOMAIN results}
  <2>1. answers' = answers \cup new
    BY DEF Appends
  <2>2. ASSUME NEW c \in DOMAIN results PROVE \E a \in new : a.call = c
    <3>1. [call |-> c, as |-> results[c], lease |-> hlease[h]] \in new
      OBVIOUS
    <3> HIDE DEF new
    <3> QED
      BY <3>1
  <2>3. \A a \in new : a.call \in DOMAIN results
    OBVIOUS
  <2> HIDE DEF new
  <2>4. Answered' = {a.call : a \in answers'}
    BY DEF Answered
  <2> QED
    BY <2>1, <2>2, <2>3, <2>4 DEF Answered
<1>4. Grows
  BY DEF Appends, Grows
<1>5. ASSUME NEW a \in answers'
      PROVE  a \in answers \/ (a.call \in DOMAIN results /\ a = [call |-> a.call, as |-> results[a.call], lease |-> hlease[h]])
  BY DEF Appends
<1>6. ASSUME NEW c \in NeverRan'
      PROVE  \/ c \in NeverRan
             \/ c \in DOMAIN results /\ (SaysNever(c, results[c]) \/ (c \in made /\ sort[c] = "bad"))
  <2>1. PICK a \in answers' : /\ a.call = c
                              /\ \/ a.as \in {"interrupted", "rejected"}
                                 \/ a.as = "orphan" /\ keeper = "session"
    BY <1>6 DEF NeverRan, Appends
  <2>2. CASE a \in answers
    BY <2>1, <2>2 DEF NeverRan
  <2>3. CASE a \notin answers
    <3>1. c \in DOMAIN results /\ a.as = results[c]
      BY <1>5, <2>1, <2>3
    <3> QED
      BY <2>1, <3>1 DEF SaysNever, Truthful
  <2> QED
    BY <2>2, <2>3
<1>7. AnswerPart'
  <2>1. Answered' \subseteq made'
    BY <1>1, <1>3 DEF AnswerPart, Appends, HostPart, Local, Copies
  <2>2. ASSUME NEW a \in answers', a.as = "rejected" PROVE sort'[a.call] = "bad"
    <3>1. CASE a \in answers
      BY <1>1, <2>2, <3>1 DEF AnswerPart, Answered, Appends
    <3>2. CASE a \notin answers
      BY <1>5, <2>2, <3>2 DEF Truthful, Appends
    <3> QED
      BY <3>1, <3>2
  <2>3. ASSUME keeper' = "session", NEW a \in answers', NEW b \in answers', a.call = b.call PROVE a = b
    <3>1. closed[h] = Answered
      BY <2>3 DEF JInv, SolePart, Alone, Appends, Idle
    <3>2. \A d \in answers : d.call \notin DOMAIN results
      BY <3>1 DEF Answered, Appends
    <3>3. CASE a \in answers /\ b \in answers
      BY <1>1, <2>3, <3>3 DEF AnswerPart, Appends
    <3> QED
      BY <1>5, <2>3, <3>2, <3>3
  <2> QED
    BY <1>2, <2>1, <2>2, <2>3 DEF AnswerPart
<1> QED
  BY <1>2, <1>3, <1>4, <1>6, <1>7

LEMMA AppendKeepsCalls ==
  ASSUME JInv, NEW h \in Hosts, NEW calls, NEW results, Appends(h, calls, results), Truthful(h, results),
         Local(h)', JournalTypeOK'
  PROVE  TodoPart' /\ FreshPart' /\ NeverPart' /\ TrackPart' /\ EffectPart'
<1>1. /\ JournalTypeOK /\ HostPart /\ Answered' = Answered \cup DOMAIN results /\ calls \cap made = {} /\ Grows
      /\ \A c : c \in NeverRan' => \/ c \in NeverRan
                                   \/ c \in DOMAIN results /\ (SaysNever(c, results[c]) \/ (c \in made /\ sort[c] = "bad"))
  BY AppendKeepsAnswers DEF JInv
<1>2. \A g \in Hosts \ {h} : /\ Local(g)' /\ Same(g) /\ Hand(g)' = Hand(g)
                             /\ \A c : InHand(g, c)' <=> InHand(g, c)
  BY <1>1, SameLocal, SameHand DEF HostPart, Appends, OthersStay
<1>3. \A g \in Hosts : \A c \in Calls : InHand(g, c)' <=> InHand(g, c)
  BY <1>2 DEF Appends
<1>4. \A g \in Hosts : hstart'[g] = hstart[g] /\ closed[g] \subseteq closed'[g] /\ todo[g] \subseteq made
  BY <1>1, <1>2 DEF Same, Appends, HostPart, Local, Copies
<1>5. \A c \in Calls : Begun(c)' = Begun(c) /\ (Fresh(c) => Fresh(c)')
  BY <1>4 DEF Appends, Begun, Fresh
<1>6. \A c \in calls : c \in Calls /\ Fresh(c)
  BY <1>1 DEF JInv, FreshPart, Appends, JournalTypeOK
<1>7. TodoPart'
  <2>1. ASSUME NEW f \in Hosts, NEW g \in Hosts, f # g PROVE todo'[f] \cap todo'[g] = {}
    BY <1>1, <1>2, <1>4, <2>1 DEF JInv, TodoPart, Appends, Same
  <2>2. ASSUME NEW g \in Hosts, NEW c \in todo'[g] PROVE InHand(g, c)' \/ Fresh(c)'
    <3>1. c \in Calls /\ (c \in todo[g] \/ c \in calls)
      BY <1>2, <2>2 DEF Appends, Same, JournalTypeOK
    <3> QED
      BY <1>3, <1>5, <1>6, <3>1 DEF JInv, TodoPart
  <2> QED
    BY <2>1, <2>2 DEF TodoPart
<1>8. FreshPart'
  <2> SUFFICES ASSUME NEW c \in Calls, c \notin made' \/ sort'[c] = "bad" \/ c \in NeverRan' PROVE Fresh(c)
    BY <1>5 DEF FreshPart
  <2>1. c \notin made \/ sort[c] = "bad" \/ c \in NeverRan => Fresh(c)
    BY DEF JInv, FreshPart
  <2>2. c \in NeverRan' => Fresh(c)
    BY <1>1, <2>1 DEF Truthful
  <2> QED
    BY <2>1, <2>2 DEF Appends
<1>9. NeverPart'
  <2> SUFFICES ASSUME NEW g \in Hosts, NEW c \in todo'[g], c \in NeverRan' PROVE PutAside(g, c)'
    BY DEF NeverPart
  <2>1. c \in Calls /\ Answered \subseteq made
    BY <1>1 DEF JournalTypeOK, JInv, AnswerPart
  <2>2. CASE c \in DOMAIN results /\ g = h
    BY <2>2 DEF PutAside, Appends
  <2>3. CASE c \in made /\ sort[c] = "bad"
    BY <2>3 DEF PutAside, Appends
  <2>4. CASE c \in DOMAIN results /\ SaysNever(c, results[c]) /\ g # h
    <3>1. PutAside(g, c) /\ c \in made
      BY <1>2, <1>4, <2>4 DEF Truthful, Same
    <3> QED
      BY <1>3, <1>4, <2>1, <3>1 DEF PutAside, Appends, OwnsRun
  <2>5. CASE c \in NeverRan
    <3>1. c \in made
      BY <2>1, <2>5 DEF NeverRan, Answered
    <3>2. c \in todo[g]
      BY <1>1, <1>2, <3>1 DEF Appends, Same
    <3>3. PutAside(g, c)
      BY <2>5, <3>2 DEF JInv, NeverPart
    <3> QED
      BY <1>3, <1>4, <2>1, <3>1, <3>3 DEF PutAside, Appends, OwnsRun
  <2> QED
    BY <1>1, <2>2, <2>3, <2>4, <2>5
<1>10. TrackPart'
  <2> SUFFICES ASSUME keeper = "session", NEW c \in Calls,
                      Begun(c)' \/ \E g \in Hosts : InHand(g, c)' \/ hstart'[g] = c
               PROVE  Tracked(c)'
    BY DEF TrackPart, Appends
  <2>1. Begun(c) \/ \E g \in Hosts : InHand(g, c) \/ hstart[g] = c
    BY <1>3, <1>4, <1>5
  <2>2. Tracked(c)
    BY <2>1 DEF JInv, TrackPart
  <2> QED
    BY <1>1, <2>2 DEF Tracked, Over, Appends
<1>11. EffectPart'
  <2>1. \A g \in Hosts : hplace'[g] = "execute" => effects'[Hand(g)'] = 0
    BY <1>2 DEF JInv, EffectPart, Appends, Same
  <2> QED
    BY <2>1 DEF JInv, EffectPart, PlainToolOnce, Appends
<1> QED
  BY <1>7, <1>8, <1>9, <1>10, <1>11

(* A host that writes to the transcript keeps the invariant. *)
LEMMA AppendsKeep ==
  ASSUME JInv, NEW h \in Hosts, NEW calls, NEW results, Appends(h, calls, results), Truthful(h, results),
         Local(h)', JournalTypeOK'
  PROVE  JInv'
<1>1. /\ JournalTypeOK /\ HostPart /\ Answered' = Answered \cup DOMAIN results /\ calls \cap made = {} /\ Grows
      /\ AnswerPart'
  BY AppendKeepsAnswers DEF JInv
<1>2. \A g \in Hosts \ {h} : /\ Local(g)' /\ Same(g) /\ Hand(g)' = Hand(g)
                             /\ Expected(g)' = Expected(g) /\ Idle(g)' = Idle(g)
  BY <1>1, SameLocal, SameHand DEF HostPart, Appends, OthersStay
<1>3. HostPart'
  BY <1>2 DEF HostPart
<1>4. ActionPart'
  <2>1. ASSUME NEW g \in Hosts, OwnsRun(g)', ~Idle(g)' PROVE runAction' = Expected(g)'
    BY <1>2, <2>1 DEF JInv, ActionPart, Appends, OwnsRun
  <2> QED
    BY <2>1 DEF JInv, ActionPart, Appends
<1>5. CommandPart'
  <2>1. \A c \in Calls : done[c] \subseteq done'[c] /\ done'[c] \subseteq 1..Phases
    BY DEF Appends, JournalTypeOK
  <2>2. \A g \in Hosts \ {h} : Commanding(g)'
    BY <1>1, <1>2, <2>1, SameCommanding DEF HostPart, JInv, CommandPart
  <2>3. Commanding(h)'
    BY DEF Commanding, Appends, Command
  <2>4. AnsweredCommandIsWhole'
    <3> SUFFICES ASSUME NEW a \in answers', IsTeam(a.call)', a.as = "answer" PROVE done'[a.call] = 1..Phases
      BY DEF AnsweredCommandIsWhole
    <3>1. CASE a \in answers
      <4>1. a.call \in made
        BY <3>1 DEF JInv, AnswerPart, Answered
      <4>2. IsTeam(a.call)
        BY <4>1 DEF IsTeam, Appends
      <4> QED
        BY <3>1, <4>2 DEF JInv, CommandPart, AnsweredCommandIsWhole, Appends
    <3>2. CASE a \notin answers
      <4>1. PICK c \in DOMAIN results : a = [call |-> c, as |-> results[c], lease |-> hlease[h]]
        BY <3>2 DEF Appends
      <4>2. c \in made /\ (IsTeam(c) => Whole(c))
        BY <4>1 DEF Truthful
      <4> QED
        BY <4>1, <4>2 DEF IsTeam, Whole, Appends
    <3> QED
      BY <3>1, <3>2
  <2> QED
    BY <2>2, <2>3, <2>4 DEF JInv, CommandPart, Whole, Appends
<1>6. ASSUME NEW g \in Hosts \ {h}, ~Idle(g), keeper = "session" => OwnsRun(g)
      PROVE  ~(keeper = "conversation" /\ ~recovered) /\ keeper # "session"
  BY <1>6 DEF Appends, OwnsRun, JInv, SoloPart
<1>7. SolePart'
  <2> SUFFICES ASSUME NEW g \in Hosts, Alone(g)' PROVE seen'[g] = made' /\ closed'[g] = Answered'
    BY DEF SolePart
  <2>1. CASE g = h
    <3>1. Alone(h)
      BY <2>1 DEF Alone, Appends, Idle, OwnsRun
    <3> QED
      BY <1>1, <2>1, <3>1 DEF JInv, SolePart, Appends
  <2>2. CASE g # h
    <3>1. Alone(g) /\ ~Idle(g)
      BY <1>2, <2>2 DEF Alone, Same, Appends, OwnsRun, Idle
    <3> QED
      BY <1>6, <2>2, <3>1 DEF Alone
  <2> QED
    BY <2>1, <2>2
<1>8. SoloPart'
  <2> SUFFICES ASSUME keeper = "conversation", ~recovered PROVE SoloPart'
    BY DEF SoloPart, Appends
  <2>1. \A g \in Hosts \ {h} : Idle(g)'
    BY <1>2, <1>6
  <2>2. runPhase' \notin {"queued", "waiting", "recoverable"}
    BY DEF JInv, SoloPart, Appends
  <2> QED
    BY <2>1, <2>2 DEF SoloPart, Appends, Idle
<1> QED
  BY <1>1, <1>3, <1>4, <1>5, <1>7, <1>8, AppendKeepsCalls DEF JInv

LEMMA AddsIs ==
  ASSUME JournalTypeOK, NEW h \in Hosts, hlease[h] > 0, NEW calls \in SUBSET Calls, NEW results,
         DOMAIN results \subseteq Calls, \A c \in DOMAIN results : results[c] \in Results, Adds(h, calls, results)
  PROVE  /\ made' \subseteq Calls /\ answers' \subseteq [call : Calls, as : Results, lease : 1..MaxLeases]
         /\ seen' \in [Hosts -> SUBSET Calls] /\ closed' \in [Hosts -> SUBSET Calls]
         /\ seen'[h] = seen[h] \cup calls /\ closed'[h] = closed[h] \cup DOMAIN results
         /\ \A g \in Hosts \ {h} : seen'[g] = seen[g] /\ closed'[g] = closed[g]
<1>1. hlease[h] \in 1..MaxLeases
  BY JournalAssumption DEF JournalTypeOK, JournalAssumption
<1>2. made' \subseteq Calls
  BY DEF Adds, JournalTypeOK
<1>3. answers' \subseteq [call : Calls, as : Results, lease : 1..MaxLeases]
  BY <1>1 DEF Adds, JournalTypeOK
<1>4. /\ seen' \in [Hosts -> SUBSET Calls] /\ closed' \in [Hosts -> SUBSET Calls]
      /\ seen'[h] = seen[h] \cup calls /\ closed'[h] = closed[h] \cup DOMAIN results
      /\ \A g \in Hosts \ {h} : seen'[g] = seen[g] /\ closed'[g] = closed[g]
  BY DEF Adds, JournalTypeOK
<1> QED
  BY <1>2, <1>3, <1>4

LEMMA CloseKeeps ==
  ASSUME JInv, NEW h \in Hosts, Close(h)
  PROVE  JInv'
<1>1. JournalTypeOK /\ Local(h) /\ hplace[h] = "close" /\ Nobody \notin Hosts /\ NoCall \notin Calls
  BY JournalAssumption DEF JInv, HostPart, Close, Hosts, Nobody, Calls, NoCall, JournalAssumption
<1>2. /\ todo[h] = {} /\ hlease[h] > 0 /\ seen[h] \subseteq made /\ made \subseteq Calls
      /\ closed[h] \subseteq Answered /\ closed[h] \subseteq seen[h]
      /\ out[h] \in {"none", "answer", "error", "unknown"}
      /\ IF out[h] = "none" THEN hstart[h] \in Calls => hstart[h] \in closed[h]
         ELSE hstart[h] \in seen[h] \ closed[h]
  BY <1>1 DEF Local, Copies, Recovering, Outcomes, Starting, Idle, JournalTypeOK
<1>3. CASE Detached(h) /\ UNCHANGED <<made, answers>>
  BY <1>3, DetachedKeeps DEF Close, journal
<1>4. CASE /\ MayWrite(h)
           /\ Adds(h, {}, [c \in Orphans(h) \cup (IF out[h] = "none" THEN {} ELSE {hstart[h]}) |->
                              IF c \in Orphans(h) THEN "orphan" ELSE out[h]])
           /\ Goes(h, "closed")
           /\ UNCHANGED <<runPhase, runOwner, runLive, runAction, hlease, hstart, hparked, todo, out, cstep>>
  <2> DEFINE D == Orphans(h) \cup (IF out[h] = "none" THEN {} ELSE {hstart[h]})
             results == [c \in D |-> IF c \in Orphans(h) THEN "orphan" ELSE out[h]]
  <2>1. Adds(h, {}, results) /\ DOMAIN results = D
    BY <1>4
  <2>2. \A c \in D : results[c] = IF c \in Orphans(h) THEN "orphan" ELSE out[h]
    OBVIOUS
  <2>3. D \subseteq seen[h] \ closed[h] /\ (hstart[h] \in Calls => hstart[h] \in closed[h] \cup D)
    BY <1>2 DEF Orphans
  <2>4. seen[h] \subseteq closed[h] \cup D
    <3>1. CASE Recovers(h)
      BY <3>1 DEF Orphans
    <3>2. CASE ~Recovers(h)
      <4>1. seen[h] \subseteq closed[h]
        BY <1>1, <3>2 DEF Recovers, JInv, SoloPart, JournalTypeOK
      <4> QED
        BY <4>1
    <3> QED
      BY <3>1, <3>2
  <2>5. \A c \in D : c \notin Orphans(h) => out[h] # "none" /\ c = hstart[h]
    OBVIOUS
  <2> HIDE DEF D, results
  <2>6. \A c \in DOMAIN results : results[c] \in Results
    BY <1>2, <2>1, <2>2, <2>5 DEF Results
  <2>7. /\ made' \subseteq Calls /\ answers' \subseteq [call : Calls, as : Results, lease : 1..MaxLeases]
        /\ seen' \in [Hosts -> SUBSET Calls] /\ closed' \in [Hosts -> SUBSET Calls]
        /\ seen'[h] = seen[h] /\ closed'[h] = closed[h] \cup D
        /\ \A g \in Hosts \ {h} : seen'[g] = seen[g] /\ closed'[g] = closed[g]
    <3>1. {} \in SUBSET Calls /\ DOMAIN results \subseteq Calls
      BY <1>2, <2>1, <2>3
    <3>2. Adds(h, {}, results)
      BY <2>1
    <3>3. /\ made' \subseteq Calls /\ answers' \subseteq [call : Calls, as : Results, lease : 1..MaxLeases]
          /\ seen' \in [Hosts -> SUBSET Calls] /\ closed' \in [Hosts -> SUBSET Calls]
          /\ seen'[h] = seen[h] \cup {} /\ closed'[h] = closed[h] \cup DOMAIN results
          /\ \A g \in Hosts \ {h} : seen'[g] = seen[g] /\ closed'[g] = closed[g]
      BY <1>1, <1>2, <2>6, <3>1, <3>2, AddsIs
    <3> QED
      BY <2>1, <3>3
  <2>8. UNCHANGED <<keeper, leases, runStop, recovered, sort, effects, commandDoc, working, faults>>
    BY DEF Close, Elsewhere
  <2>9. hplace' \in [Hosts -> Places] /\ hplace'[h] = "closed" /\ OthersStay(h)
    BY <1>1, <1>4, <2>7 DEF Goes, OthersStay, Same, JournalTypeOK, Places
  <2>10. JournalTypeOK'
    BY <1>1, <1>4, <2>7, <2>8, <2>9 DEF commandDoc, JournalTypeOK
  <2>11. /\ made' = made
         /\ answers' = answers \cup {[call |-> c, as |-> results[c], lease |-> hlease[h]] : c \in DOMAIN results}
    BY <2>1 DEF Adds
  <2>12. Appends(h, {}, results)
    <3>1. keeper = "session" => OwnsRun(h)
      BY <1>4 DEF MayWrite, Fenced
    <3>2. Expected(h)' = Expected(h) /\ \A c \in Calls : InHand(h, c)' <=> InHand(h, c)
      BY <1>1, <1>4, <2>9 DEF Expected, InHand, Starting, Busy, Command
    <3> QED
      BY <1>1, <1>4, <2>1, <2>3, <2>7, <2>8, <2>9, <2>11, <3>1, <3>2 DEF Appends, Idle, commandDoc
  <2>13. ASSUME NEW c \in D, c \in Orphans(h), keeper = "session"
         PROVE  Fresh(c) /\ \A g \in Hosts \ {h} : PutAside(g, c)
    <3>1. OwnsRun(h) /\ closed[h] = Answered /\ runAction = hstart[h] /\ ~Over
      BY <1>1, <1>4, <2>13 DEF MayWrite, Fenced, JInv, SolePart, Alone, ActionPart, Expected, Starting, Idle, Over, OwnsRun,
         JournalTypeOK
    <3>2. c \in Calls /\ c \notin Answered /\ c # hstart[h]
      BY <1>2, <2>3, <2>13, <3>1 DEF Orphans
    <3>3. ~Tracked(c)
      BY <3>1, <3>2 DEF Tracked
    <3>4. ~Begun(c) /\ \A g \in Hosts : ~InHand(g, c) /\ hstart[g] # c
      BY <2>13, <3>2, <3>3 DEF JInv, TrackPart
    <3> QED
      BY <2>13, <3>1, <3>2, <3>4 DEF Fresh, PutAside, OwnsRun
  <2>14. Truthful(h, results)
    <3>1. ASSUME NEW c \in D, results[c] = "answer" PROVE c \in made /\ (IsTeam(c) => Whole(c))
      <4>1. c = hstart[h] /\ out[h] = "answer" /\ c \in made /\ c \in Calls
        BY <1>2, <2>2, <2>3, <2>5, <3>1
      <4>2. Hand(h) = c
        BY <1>1, <4>1 DEF Hand, Repeats
      <4> QED
        BY <1>1, <4>1, <4>2 DEF JInv, CommandPart, Commanding
    <3>2. ASSUME NEW c \in D PROVE results[c] # "rejected" /\ results[c] # "interrupted"
      BY <1>2, <2>2
    <3>3. ASSUME NEW c \in D, results[c] = "orphan" PROVE c \in Orphans(h)
      BY <1>2, <2>2, <3>3
    <3> QED
      BY <2>1, <2>13, <3>1, <3>2, <3>3 DEF Truthful, SaysNever
  <2>15. Local(h)'
    <3>1. Answered \subseteq Answered' /\ D \subseteq Answered'
      BY <2>1, <2>12, <2>14, AppendKeepsAnswers
    <3>2. hlease' = hlease /\ todo'[h] = {} /\ hstart'[h] = hstart[h]
      BY <1>2, <1>4
    <3>3. Copies(h)'
      BY <1>1, <1>2, <2>3, <2>7, <2>9, <2>11, <3>1, <3>2 DEF Copies, OfResponse, Starting, Busy, Command, Idle
    <3>4. Recovering(h)' /\ Opened(h)' /\ Outcomes(h)'
      BY <2>3, <2>4, <2>7, <2>9, <3>2 DEF Recovering, Opened, Outcomes, OfResponse, Busy, Command
    <3> QED
      BY <3>3, <3>4 DEF Local
  <2> QED
    BY <2>10, <2>12, <2>14, <2>15, AppendsKeep
<1> QED
  BY <1>3, <1>4 DEF Close

LEMMA RespondKeeps ==
  ASSUME JInv, NEW h \in Hosts, Respond(h)
  PROVE  JInv'
<1>1. JournalTypeOK /\ Local(h) /\ hplace[h] = "model" /\ NoCall \notin Calls
  BY JournalAssumption DEF JInv, HostPart, Respond, Calls, NoCall, JournalAssumption
<1>2. /\ todo[h] = {} /\ hstart[h] = NoCall /\ out[h] = "none" /\ cstep[h] = 1 /\ seen[h] \subseteq closed[h]
      /\ hlease[h] > 0 /\ closed[h] \subseteq Answered /\ closed[h] \subseteq seen[h] /\ seen[h] \subseteq made
      /\ made \subseteq Calls
  BY <1>1 DEF Local, Copies, Opened, Outcomes, Starting, Command, Idle, JournalTypeOK
<1>3. CASE Detached(h) /\ UNCHANGED journal
  BY <1>3, DetachedKeeps DEF Respond
<1>4. ASSUME NEW n \in 1..2, Cardinality(made) + n <= MaxCalls, MayWrite(h), NEW kinds \in Sorts(n),
             sort' = [c \in Calls |-> IF c \in NewCalls(n) THEN kinds[c] ELSE sort[c]],
             Adds(h, NewCalls(n), [c \in IF runStop THEN NewCalls(n) ELSE {} |-> "interrupted"]),
             Goes(h, "made"), todo' = [todo EXCEPT ![h] = NewCalls(n)],
             UNCHANGED <<runPhase, runOwner, runLive, runAction, hlease, hstart, hparked, out, cstep>>
      PROVE  JInv'
  <2> DEFINE D == IF runStop THEN NewCalls(n) ELSE {}
             results == [c \in D |-> "interrupted"]
  <2>1. Adds(h, NewCalls(n), results) /\ DOMAIN results = D /\ \A c \in D : results[c] = "interrupted"
    BY <1>4
  <2>2. NewCalls(n) \in SUBSET Calls /\ NewCalls(n) \cap made = {} /\ (D = {} \/ D = NewCalls(n))
    <3>1. Cardinality(made) \in Nat
      <4>1. IsFiniteSet(Calls)
        BY FS_Interval, JournalAssumption DEF Calls, JournalAssumption
      <4> QED
        BY <1>2, <4>1, FS_Subset, FS_CardinalityType
    <3>2. NewCalls(n) \subseteq Calls
      BY <1>4, <3>1, JournalAssumption DEF NewCalls, Calls, JournalAssumption
    <3>3. NewCalls(n) \cap made = {}
      BY <1>2, CallsAdded DEF JInv, AnswerPart
    <3> QED
      BY <3>2, <3>3
  <2> HIDE DEF D, results
  <2>3. /\ made' \subseteq Calls /\ answers' \subseteq [call : Calls, as : Results, lease : 1..MaxLeases]
        /\ seen' \in [Hosts -> SUBSET Calls] /\ closed' \in [Hosts -> SUBSET Calls]
        /\ seen'[h] = seen[h] \cup NewCalls(n) /\ closed'[h] = closed[h] \cup DOMAIN results
        /\ \A g \in Hosts \ {h} : seen'[g] = seen[g] /\ closed'[g] = closed[g]
    <3>1. DOMAIN results \subseteq Calls /\ \A c \in DOMAIN results : results[c] \in Results
      BY <2>1, <2>2 DEF Results
    <3> QED
      BY <1>1, <1>2, <2>1, <2>2, <3>1, AddsIs
  <2>4. UNCHANGED <<keeper, leases, runStop, recovered, effects, commandDoc, working, faults>>
    BY DEF Respond, Elsewhere
  <2>5. /\ hplace' \in [Hosts -> Places] /\ todo' \in [Hosts -> SUBSET Calls]
        /\ hplace'[h] = "made" /\ todo'[h] = NewCalls(n) /\ OthersStay(h)
    BY <1>1, <1>4, <2>2, <2>3 DEF Goes, OthersStay, Same, JournalTypeOK, Places
  <2>6. sort' \in [Calls -> {"none", "plain", "team", "submit", "bad"}] /\ \A c \in made : sort'[c] = sort[c]
    <3>1. \A c \in NewCalls(n) : kinds[c] \in {"none", "plain", "team", "submit", "bad"}
      BY <1>4 DEF Sorts
    <3> QED
      BY <1>1, <1>2, <1>4, <2>2, <3>1 DEF JournalTypeOK
  <2>7. JournalTypeOK'
    BY <1>1, <1>4, <2>3, <2>4, <2>5, <2>6 DEF commandDoc, JournalTypeOK
  <2>8. /\ made' = made \cup NewCalls(n)
        /\ answers' = answers \cup {[call |-> c, as |-> results[c], lease |-> hlease[h]] : c \in DOMAIN results}
    BY <2>1 DEF Adds
  <2>9. Appends(h, NewCalls(n), results)
    <3>1. keeper = "session" => OwnsRun(h)
      BY <1>4 DEF MayWrite, Fenced
    <3>2. Expected(h)' = Expected(h) /\ \A c \in Calls : InHand(h, c)' <=> InHand(h, c)
      BY <1>1, <1>2, <1>4, <2>5 DEF Expected, InHand, Starting, AtModel, Busy, Command
    <3>3. DOMAIN results \subseteq seen'[h] \ closed[h]
      BY <1>2, <2>1, <2>2, <2>3
    <3>4. ~Idle(h) /\ hplace[h] # "load" /\ hplace'[h] \in {"closed", "made", "abort", "answered"}
      BY <1>1, <2>5 DEF Idle
    <3>5. todo'[h] = todo[h] \cup NewCalls(n) /\ hstart'[h] = hstart[h]
      BY <1>2, <1>4, <2>5
    <3> QED
      BY <1>4, <2>3, <2>4, <2>5, <2>6, <2>8, <3>1, <3>2, <3>3, <3>4, <3>5 DEF Appends, commandDoc
  <2>10. Truthful(h, results)
    <3> SUFFICES ASSUME NEW c \in D PROVE Fresh(c) /\ \A g \in Hosts \ {h} : c \notin todo[g]
      BY <2>1 DEF Truthful
    <3>1. c \in Calls /\ c \notin made
      BY <2>2
    <3> QED
      BY <3>1 DEF JInv, FreshPart, HostPart, Local, Copies
  <2>11. Local(h)'
    <3>1. Answered' = Answered \cup DOMAIN results
      BY <2>9, <2>10, AppendKeepsAnswers
    <3>2. hlease' = hlease /\ hstart'[h] = NoCall /\ out'[h] = "none" /\ cstep'[h] = 1
      BY <1>2, <1>4
    <3>3. closed'[h] \subseteq seen'[h]
      BY <1>2, <2>1, <2>2, <2>3
    <3>4. Copies(h)'
      BY <1>2, <2>3, <2>5, <2>8, <3>1, <3>2, <3>3 DEF Copies, OfResponse, Starting, Busy, Command, Idle
    <3>5. todo'[h] \subseteq closed'[h] \/ todo'[h] \cap closed'[h] = {}
      BY <1>2, <2>1, <2>2, <2>3, <2>5
    <3>6. Recovering(h)' /\ Opened(h)' /\ Outcomes(h)'
      BY <1>2, <2>3, <2>5, <3>2, <3>5 DEF Recovering, Opened, Outcomes, OfResponse, Busy, Command
    <3> QED
      BY <3>4, <3>6 DEF Local
  <2> QED
    BY <2>7, <2>9, <2>10, <2>11, AppendsKeep
<1> QED
  BY <1>3, <1>4 DEF Respond

(* What is left of a response when the run is stopped. *)
LEMMA InterruptKeeps ==
  ASSUME JInv, NEW h \in Hosts, NextCall(h), todo[h] # {}, runStop
  PROVE  JInv'
<1>1. JournalTypeOK /\ Local(h) /\ hplace[h] = "calls" /\ NoCall \notin Calls
  BY JournalAssumption DEF JInv, HostPart, NextCall, Calls, NoCall, JournalAssumption
<1>2. /\ hstart[h] = NoCall /\ hlease[h] > 0 /\ todo[h] \subseteq seen[h] /\ seen[h] \subseteq made
      /\ made \subseteq Calls /\ closed[h] \subseteq Answered /\ closed[h] \subseteq seen[h]
      /\ todo[h] \cap closed[h] = {}
  BY <1>1 DEF Local, Copies, Opened, Starting, Command, Idle, JournalTypeOK
<1>3. CASE Detached(h) /\ UNCHANGED <<made, answers>>
  BY <1>3, DetachedKeeps DEF NextCall, journal
<1>4. CASE /\ MayWrite(h) /\ Adds(h, {}, [c \in todo[h] |-> "interrupted"]) /\ Goes(h, "abort")
           /\ UNCHANGED <<runPhase, runOwner, runLive, runAction, hlease, hstart, hparked, todo, out, cstep>>
  <2> DEFINE results == [c \in todo[h] |-> "interrupted"]
  <2>1. Adds(h, {}, results) /\ DOMAIN results = todo[h] /\ \A c \in todo[h] : results[c] = "interrupted"
    BY <1>4
  <2> HIDE DEF results
  <2>2. /\ made' \subseteq Calls /\ answers' \subseteq [call : Calls, as : Results, lease : 1..MaxLeases]
        /\ seen' \in [Hosts -> SUBSET Calls] /\ closed' \in [Hosts -> SUBSET Calls]
        /\ seen'[h] = seen[h] \cup {} /\ closed'[h] = closed[h] \cup DOMAIN results
        /\ \A g \in Hosts \ {h} : seen'[g] = seen[g] /\ closed'[g] = closed[g]
    <3>1. {} \in SUBSET Calls /\ DOMAIN results \subseteq Calls /\ \A c \in DOMAIN results : results[c] \in Results
      BY <1>2, <2>1 DEF Results
    <3> QED
      BY <1>1, <1>2, <2>1, <3>1, AddsIs
  <2>3. UNCHANGED <<keeper, leases, runStop, recovered, sort, effects, commandDoc, working, faults>>
    BY DEF NextCall, Elsewhere
  <2>4. /\ hplace' \in [Hosts -> Places] /\ hplace'[h] = "abort" /\ OthersStay(h)
    BY <1>1, <1>4, <2>2 DEF Goes, OthersStay, Same, JournalTypeOK, Places
  <2>5. JournalTypeOK'
    BY <1>1, <1>4, <2>2, <2>3, <2>4 DEF commandDoc, JournalTypeOK
  <2>6. /\ made' = made
        /\ answers' = answers \cup {[call |-> c, as |-> results[c], lease |-> hlease[h]] : c \in DOMAIN results}
    BY <2>1 DEF Adds
  <2>7. Appends(h, {}, results)
    <3>1. keeper = "session" => OwnsRun(h)
      BY <1>4 DEF MayWrite, Fenced
    <3>2. Expected(h)' = Expected(h) /\ \A c \in Calls : InHand(h, c)' <=> InHand(h, c)
      BY <1>1, <1>2, <1>4, <2>4 DEF Expected, InHand, Starting, AtModel, Busy, Command
    <3> QED
      BY <1>1, <1>2, <1>4, <2>1, <2>2, <2>3, <2>4, <2>6, <3>1, <3>2 DEF Appends, Idle, commandDoc
  <2>8. Truthful(h, results)
    <3> SUFFICES ASSUME NEW c \in todo[h] PROVE Fresh(c) /\ \A g \in Hosts \ {h} : c \notin todo[g]
      BY <2>1 DEF Truthful
    <3>1. ~InHand(h, c)
      BY <1>1 DEF InHand, Busy, Command
    <3> QED
      BY <3>1 DEF JInv, TodoPart
  <2>9. Local(h)'
    <3>1. Answered' = Answered \cup DOMAIN results
      BY <2>7, <2>8, AppendKeepsAnswers
    <3>2. Copies(h)'
      BY <1>2, <1>4, <2>1, <2>2, <2>4, <2>6, <3>1 DEF Copies, OfResponse, Starting, Busy, Command, Idle
    <3>3. Recovering(h)' /\ Opened(h)' /\ Outcomes(h)'
      BY <2>4 DEF Recovering, Opened, Outcomes, OfResponse, Busy, Command
    <3> QED
      BY <3>2, <3>3 DEF Local
  <2> QED
    BY <2>5, <2>7, <2>8, <2>9, AppendsKeep
<1> QED
  BY <1>3, <1>4 DEF NextCall

LEMMA AnswerKeeps ==
  ASSUME JInv, NEW h \in Hosts, Answer(h)
  PROVE  JInv'
<1>1. JournalTypeOK /\ Local(h) /\ hplace[h] = "answer" /\ NoCall \notin Calls
  BY JournalAssumption DEF JInv, HostPart, Answer, Calls, NoCall, JournalAssumption
<1>2. /\ hstart[h] = NoCall /\ hlease[h] > 0 /\ todo[h] \subseteq seen[h] /\ seen[h] \subseteq made
      /\ made \subseteq Calls /\ closed[h] \subseteq Answered /\ closed[h] \subseteq seen[h]
      /\ todo[h] \cap closed[h] = {} /\ seen[h] \ closed[h] \subseteq todo[h] /\ Hand(h) \in todo[h]
      /\ IF sort[Hand(h)] = "bad" THEN out[h] = "rejected" ELSE out[h] \in {"answer", "error"}
  BY <1>1, HandOf DEF Local, Copies, Opened, Outcomes, OfResponse, Starting, Busy, Command, Idle, JournalTypeOK
<1>3. CASE Detached(h) /\ UNCHANGED <<made, answers>>
  BY <1>3, DetachedKeeps DEF Answer, journal
<1>4. CASE /\ MayWrite(h) /\ Adds(h, {}, [c \in {Hand(h)} |-> out[h]]) /\ Goes(h, "answered")
           /\ UNCHANGED <<runPhase, runOwner, runLive, runAction, hlease, hstart, hparked, todo, out, cstep>>
  <2> DEFINE results == [c \in {Hand(h)} |-> out[h]]
  <2>1. Adds(h, {}, results) /\ DOMAIN results = {Hand(h)} /\ results[Hand(h)] = out[h]
    BY <1>4
  <2> HIDE DEF results
  <2>2. /\ made' \subseteq Calls /\ answers' \subseteq [call : Calls, as : Results, lease : 1..MaxLeases]
        /\ seen' \in [Hosts -> SUBSET Calls] /\ closed' \in [Hosts -> SUBSET Calls]
        /\ seen'[h] = seen[h] \cup {} /\ closed'[h] = closed[h] \cup DOMAIN results
        /\ \A g \in Hosts \ {h} : seen'[g] = seen[g] /\ closed'[g] = closed[g]
    <3>1. {} \in SUBSET Calls /\ DOMAIN results \subseteq Calls /\ \A c \in DOMAIN results : results[c] \in Results
      BY <1>2, <2>1 DEF Results
    <3> QED
      BY <1>1, <1>2, <2>1, <3>1, AddsIs
  <2>3. UNCHANGED <<keeper, leases, runStop, recovered, sort, effects, commandDoc, working, faults>>
    BY DEF Answer, Elsewhere
  <2>4. /\ hplace' \in [Hosts -> Places] /\ hplace'[h] = "answered" /\ OthersStay(h)
    BY <1>1, <1>4, <2>2 DEF Goes, OthersStay, Same, JournalTypeOK, Places
  <2>5. JournalTypeOK'
    BY <1>1, <1>4, <2>2, <2>3, <2>4 DEF commandDoc, JournalTypeOK
  <2>6. /\ made' = made
        /\ answers' = answers \cup {[call |-> c, as |-> results[c], lease |-> hlease[h]] : c \in DOMAIN results}
    BY <2>1 DEF Adds
  <2>7. Hand(h)' = Hand(h) /\ todo'[h] = todo[h] /\ hstart'[h] = hstart[h] /\ out'[h] = out[h]
    BY <1>4 DEF Hand, Repeats, First
  <2>8. Appends(h, {}, results)
    <3>1. keeper = "session" => OwnsRun(h)
      BY <1>4 DEF MayWrite, Fenced
    <3>2. Expected(h)' = Expected(h) /\ \A c \in Calls : InHand(h, c)' <=> InHand(h, c)
      BY <1>1, <1>2, <2>3, <2>4, <2>7 DEF Expected, InHand, Starting, AtModel, Busy, Command
    <3> QED
      BY <1>1, <1>2, <1>4, <2>1, <2>2, <2>3, <2>4, <2>6, <2>7, <3>1, <3>2 DEF Appends, Idle, commandDoc
  <2>9. Truthful(h, results)
    <3>1. out[h] = "answer" /\ IsTeam(Hand(h)) => Whole(Hand(h))
      BY <1>1 DEF JInv, CommandPart, Commanding
    <3> QED
      BY <1>2, <2>1, <3>1 DEF Truthful, SaysNever
  <2>10. Local(h)'
    <3>1. Answered' = Answered \cup DOMAIN results
      BY <2>8, <2>9, AppendKeepsAnswers
    <3>2. Copies(h)'
      BY <1>2, <1>4, <2>1, <2>2, <2>4, <2>6, <2>7, <3>1 DEF Copies, OfResponse, Starting, Busy, Command, Idle
    <3>3. Opened(h)'
      BY <1>2, <2>1, <2>2, <2>4, <2>7 DEF Opened, OfResponse, Busy, Command
    <3>4. Recovering(h)' /\ Outcomes(h)'
      BY <1>2, <2>3, <2>4, <2>7 DEF Recovering, Outcomes, Command
    <3> QED
      BY <3>2, <3>3, <3>4 DEF Local
  <2> QED
    BY <2>5, <2>8, <2>9, <2>10, AppendsKeep
<1> QED
  BY <1>3, <1>4 DEF Answer

-----------------------------------------------------------------------------
(* The invariant, and what it is for. *)

LEMMA JournalStarts ==
  ASSUME JournalInit
  PROVE  JInv
<1>1. Nobody \notin Hosts /\ NoCall \notin Calls /\ Cardinality({}) = 0 /\ 1..0 = {}
  BY FS_EmptySet, JournalAssumption DEF Hosts, Nobody, Calls, NoCall, JournalAssumption
<1>2. JournalTypeOK
  <2>1. /\ 0 \in 0..MaxLeases /\ 0 \in 0..Model /\ 0 \in 0..MaxFaults /\ 1 \in 1..(Phases + 1)
    BY JournalAssumption DEF Model, JournalAssumption
  <2> QED
    BY <2>1 DEF JournalInit, JournalTypeOK, Places, NoCall
<1>3. Answered = {} /\ NeverRan = {}
  BY DEF JournalInit, Answered, NeverRan
<1>4. \A h \in Hosts : /\ hplace[h] = "idle" /\ hlease[h] = 0 /\ seen[h] = {} /\ closed[h] = {} /\ hstart[h] = NoCall
                       /\ todo[h] = {} /\ out[h] = "none" /\ cstep[h] = 1
  BY DEF JournalInit
<1>5. \A h \in Hosts : Local(h) /\ Commanding(h) /\ \A c : ~InHand(h, c)
  BY <1>4 DEF Local, Copies, Recovering, Opened, Outcomes, OfResponse, Commanding, InHand, Idle, Busy, Command, Starting
<1>6. \A c \in Calls : ~Begun(c) /\ Fresh(c)
  BY <1>1, <1>4 DEF JournalInit, Begun, Fresh
<1>7. HostPart /\ CommandPart
  BY <1>5 DEF HostPart, CommandPart, AnsweredCommandIsWhole, JournalInit
<1>8. ActionPart /\ AnswerPart
  BY <1>1, <1>3, <1>4 DEF ActionPart, AnswerPart, JournalInit, Idle
<1>9. TodoPart /\ FreshPart /\ NeverPart
  BY <1>4, <1>6 DEF TodoPart, FreshPart, NeverPart
<1>10. TrackPart /\ EffectPart
  BY <1>1, <1>4, <1>5, <1>6 DEF TrackPart, EffectPart, PlainToolOnce, JournalInit
<1>11. SolePart /\ SoloPart
  BY <1>4 DEF SolePart, SoloPart, Alone, Idle, JournalInit
<1> QED
  BY <1>2, <1>7, <1>8, <1>9, <1>10, <1>11 DEF JInv

LEMMA JournalSteps ==
  ASSUME JInv, [JournalNext]_journalVars
  PROVE  JInv'
<1>1. ASSUME NEW h \in Hosts, HostStep(h) \/ Conclude(h, "ask") \/ Refuse(h)
      PROVE  JInv'
  <2>1. CASE Load(h) \/ Recover(h) \/ Close(h) \/ Closed(h)
    BY <2>1, LoadKeeps, RecoverKeeps, CloseKeeps, ClosedKeeps
  <2>2. CASE Turn(h) \/ Respond(h) \/ ModelDone(h) \/ Finish(h)
    BY <2>2, TurnKeeps, RespondKeeps, ModelDoneKeeps, FinishKeeps
  <2>3. CASE Conclude(h, "finish") \/ Conclude(h, "ask")
    BY <2>3, ConcludeKeeps
  <2>4. CASE NextCall(h)
    BY <2>4, NextCallKeeps, InterruptKeeps DEF JInv, JournalTypeOK
  <2>5. CASE Execute(h) \/ Answer(h) \/ CallDone(h)
    BY <2>5, ExecuteKeeps, AnswerKeeps, CallDoneKeeps
  <2>6. CASE Begin(h) \/ Reserve(h) \/ Permit(h) \/ Write(h) \/ Settle(h) \/ Refuse(h)
    BY <2>6, BeginKeeps, ReserveKeeps, PermitKeeps, WriteKeeps, SettleKeeps, RefuseKeeps
  <2> QED
    BY <1>1, <2>1, <2>2, <2>3, <2>4, <2>5, <2>6 DEF HostStep
<1>2. ASSUME NEW h \in Hosts, LeaseRun(h) \/ NoticeLoss(h) \/ HostCrash(h) \/ BreakOff(h)
      PROVE  JInv'
  BY <1>2, LeaseKeeps, LostKeeps
<1>3. CASE UNCHANGED journalVars
  <2>1. JournalTypeOK'
    BY <1>3 DEF JInv, JournalTypeOK, journalVars, runDoc, journal, commandDoc, hostVars
  <2>2. Undriven
    BY <1>3 DEF Undriven, Drifts, OwnsRun, Over, journalVars, runDoc, journal, commandDoc, hostVars
  <2> QED
    BY <2>1, <2>2, UndrivenKeeps
<1> QED
  BY <1>1, <1>2, <1>3, EnvKeeps DEF JournalNext

(* The invariant holds in every state of a run of any number of servers, calls and faults. *)
LEMMA JournalInvariant == JournalSpec => []JInv
<1>1. JournalInit => JInv
  BY JournalStarts
<1>2. JInv /\ [JournalNext]_journalVars => JInv'
  BY JournalSteps
<1> QED
  BY <1>1, <1>2, PTL DEF JournalSpec

(* Every state of a run, its transcript, its receipts and its hosts has its type. *)
THEOREM JournalTypeCorrect == JournalSpec => []JournalTypeOK
<1>1. JInv => JournalTypeOK
  BY DEF JInv
<1> QED
  BY <1>1, JournalInvariant, PTL

(* What the transcript says of a call is what has become of it: executeTool, withCommand and
   the recovery of a run by another server never make a call that was reported as not run,
   never report a command that is not whole, and never repeat a tool that is not of the team. *)
THEOREM EffectsReported == JournalSpec => []EffectsAsReported
<1>1. ASSUME JInv PROVE EffectsAsReported
  <2>1. \A c \in NeverRan : c \in Calls /\ Fresh(c)
    BY <1>1 DEF JInv, FreshPart, NeverRan, JournalTypeOK
  <2>2. NotRunMeansNoEffect
    BY <1>1, <2>1 DEF NotRunMeansNoEffect, Fresh, Begun, JInv, JournalTypeOK
  <2>3. AnsweredCommandIsWhole /\ PlainToolOnce
    BY <1>1 DEF JInv, CommandPart, EffectPart
  <2> QED
    BY <2>2, <2>3 DEF EffectsAsReported
<1> QED
  BY <1>1, JournalInvariant, PTL

(* A context that is sent to the model has a result of each call, and the session of a
   member keeps one result of each, whichever servers have written to it. *)
THEOREM OneResultEach == JournalSpec => []ResultsPaired
<1>1. ASSUME JInv PROVE ResultsPaired
  <2>1. RequestIsPaired
    BY <1>1 DEF RequestIsPaired, JInv, HostPart, Local, Opened
  <2>2. ASSUME keeper = "session", NEW c \in made
        PROVE  Cardinality({a \in answers : a.call = c}) <= 1
    <3> DEFINE S == {a \in answers : a.call = c}
    <3>1. \A a, b \in S : a = b
      BY <1>1, <2>2 DEF JInv, AnswerPart
    <3>2. CASE S = {}
      BY <3>2, FS_EmptySet
    <3>3. CASE S # {}
      <4>1. PICK a : a \in S
        BY <3>3
      <4>2. S = {a}
        BY <3>1, <4>1
      <4>3. Cardinality({a}) = 1
        BY FS_Singleton
      <4> HIDE DEF S
      <4>4. Cardinality(S) <= 1
        BY <4>2, <4>3
      <4> QED
        BY <4>4 DEF S
    <3> QED
      BY <3>2, <3>3
  <2> QED
    BY <2>1, <2>2 DEF ResultsPaired, SessionResultOnce, OneResult
<1> QED
  BY <1>1, JournalInvariant, PTL

-----------------------------------------------------------------------------
(* What a run keeps, together: each component moves by its own steps or not at all. *)

LEMMA StoresComponents == StoresSpec => QueueSpec /\ WorkspaceSpec /\ MemorySpec /\ JournalSpec
<1>1. StoresInit => QueueInit /\ WorkspaceInit /\ MemoryInit /\ JournalInit
  BY DEF StoresInit
<1>2. [StoresNext]_storesVars => [QueueNext]_queueVars
  BY DEF StoresNext, storesVars
<1>3. [StoresNext]_storesVars => [WorkspaceNext]_workspaceVars
  BY DEF StoresNext, storesVars
<1>4. [StoresNext]_storesVars => [MemoryNext]_memoryVars
  BY DEF StoresNext, storesVars
<1>5. [StoresNext]_storesVars => [JournalNext]_journalVars
  BY DEF StoresNext, storesVars
<1> QED
  BY <1>1, <1>2, <1>3, <1>4, <1>5, PTL
  DEF StoresSpec, QueueSpec, WorkspaceSpec, MemorySpec, JournalSpec

(* Type correctness of what a run keeps beside its context: its queue, the files of its
   workspace, its memory and the journal of its turn. *)
THEOREM StoresTypeCorrect == StoresSpec => []StoresTypeOK
<1>1. QueueTypeOK /\ WorkspaceTypeOK /\ MemoryTypeOK /\ JournalTypeOK => StoresTypeOK
  BY DEF StoresTypeOK
<1> QED
  BY <1>1, StoresComponents, QueueTypeCorrect, WorkspaceTypeCorrect, MemoryTypeCorrect,
     JournalTypeCorrect, PTL
=============================================================================
