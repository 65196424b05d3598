---------------------------- MODULE Stores_proofs ----------------------------
(***************************************************************************)
(* Proofs about what a run keeps beside its context: the files of its      *)
(* workspace, its memory and its message queue.  The three share no state, *)
(* and each has an inductive invariant of its own.                         *)
(***************************************************************************)
EXTENDS WorkspaceCapacity, MemoryPipeline, MessageQueue, FiniteSetTheorems, TLAPS

(***************************************************************************)
(* Theorems about WorkspaceCapacity, for any number of writers, paths and  *)
(* sets: the type invariant, and that what is published and what is        *)
(* promised never exceed the capacity together.                            *)
(***************************************************************************)

(* A writer holds what it has read of the capacity document and of the     *)
(* heads only between its read and its swap, and as long as its swap would *)
(* go through the reservation it has read stands.  It has admitted a file  *)
(* only between the two steps of its commit.                               *)
SwapInv ==
    \A w \in Writers :
       /\ wplace[w] # "commit" => pending[w] = {}
       /\ wplace[w] # "swap" => looked[w] = {} /\ w \notin unswapped
       /\ w \in unswapped => resStatus[Set(w)] = "reserved" /\ looked[w] \subseteq newPaths[Set(w)]

IInv == WorkspaceTypeOK /\ SwapInv /\ PathsWithinCapacity

-----------------------------------------------------------------------------
(* The capacity document.                                                  *)

Held(status) == {r \in SetIds : status[r] = "reserved"}
Promised(status, paths) == UNION {paths[r] : r \in Held(status)}

(* What is published and promised, by any document, stays finite.          *)
LEMMA CountsFinite ==
    ASSUME NEW S \in SUBSET Paths
    PROVE  IsFiniteSet(S) /\ Cardinality(S) \in Nat
BY WorkspaceAssumption, FS_Subset, FS_CardinalityType

LEMMA CountUnion ==
    ASSUME NEW S \in SUBSET Paths, NEW T \in SUBSET Paths
    PROVE  /\ Cardinality(S \cup T) <= Cardinality(S) + Cardinality(T)
           /\ S \cap T = {} => Cardinality(S \cup T) = Cardinality(S) + Cardinality(T)
           /\ S \subseteq T => Cardinality(S) <= Cardinality(T)
<1>1. /\ IsFiniteSet(S) /\ IsFiniteSet(T) /\ IsFiniteSet(S \cap T)
      /\ Cardinality(S) \in Nat /\ Cardinality(T) \in Nat /\ Cardinality(S \cap T) \in Nat
  BY CountsFinite
<1>2. Cardinality(S \cup T) = Cardinality(S) + Cardinality(T) - Cardinality(S \cap T)
  BY <1>1, FS_Union
<1>3. S \cap T = {} => Cardinality(S \cap T) = 0
  BY FS_EmptySet
<1>4. S \subseteq T => Cardinality(S) <= Cardinality(T)
  BY <1>1, FS_Subset
<1> QED
  BY <1>1, <1>2, <1>3, <1>4

LEMMA PromisedPaths ==
    ASSUME WorkspaceTypeOK
    PROVE  /\ published \in SUBSET Paths
           /\ Promised(resStatus, newPaths) \in SUBSET Paths
           /\ \A r \in SetIds : ReservedBut(r) \in SUBSET Paths
BY DEF WorkspaceTypeOK, Promised, Held, ReservedBut

(* A reservation is made, or revived, for paths that nobody else has been  *)
(* promised, and only if there is room for them.                           *)
LEMMA ReservedWithinCapacity ==
    ASSUME IInv, NEW w \in Writers, ReserveSet(w)
    PROVE  PathsWithinCapacity'
<1> DEFINE id == Set(w)
<1>1. id \in SetIds
  BY DEF Set, SetIds
<1>2. /\ resStatus \in [SetIds -> {"none", "reserved", "finalized", "released"}]
      /\ newPaths \in [SetIds -> SUBSET Paths] /\ published \in SUBSET Paths
      /\ Missing(w) \in SUBSET Paths
  BY DEF IInv, WorkspaceTypeOK, Missing
<1>3. /\ resStatus' = [resStatus EXCEPT ![id] = "reserved"]
      /\ newPaths' = [newPaths EXCEPT ![id] = Missing(w)]
      /\ published' = published
      /\ Missing(w) \cap ReservedBut(id) = {}
      /\ Cardinality(published) + Cardinality(ReservedBut(id)) + Cardinality(Missing(w)) <= MaxFiles
  BY DEF ReserveSet, Collides, Fits
<1> HIDE DEF id
<1>4. Promised(resStatus', newPaths') = ReservedBut(id) \cup Missing(w)
  BY <1>1, <1>2, <1>3 DEF Promised, Held, ReservedBut
<1>5. Cardinality(published') + Cardinality(Promised(resStatus', newPaths')) <= MaxFiles
  <2>1. ReservedBut(id) \in SUBSET Paths
    BY <1>1, PromisedPaths DEF IInv
  <2>2. Cardinality(ReservedBut(id) \cup Missing(w))
           <= Cardinality(ReservedBut(id)) + Cardinality(Missing(w))
    BY <2>1, <1>2, CountUnion
  <2>3. /\ Cardinality(published) \in Nat /\ Cardinality(ReservedBut(id)) \in Nat
        /\ Cardinality(Missing(w)) \in Nat /\ Cardinality(ReservedBut(id) \cup Missing(w)) \in Nat
    BY <2>1, <1>2, CountsFinite
  <2>4. MaxFiles \in Nat
    BY WorkspaceAssumption
  <2>5. Cardinality(published) + Cardinality(ReservedBut(id) \cup Missing(w)) <= MaxFiles
    BY <1>3, <2>2, <2>3, <2>4
  <2> QED
    BY <1>3, <1>4, <2>5
<1>6. \A r \in Held(resStatus') :
         /\ newPaths'[r] \cap published' = {}
         /\ \A q \in Held(resStatus') \ {r} : newPaths'[r] \cap newPaths'[q] = {}
  <2>1. \A q \in Held(resStatus') \ {id} :
           /\ newPaths'[q] = newPaths[q] /\ q \in Held(resStatus)
           /\ newPaths[q] \subseteq ReservedBut(id)
    BY <1>1, <1>2, <1>3 DEF Held, ReservedBut
  <2>2. newPaths'[id] = Missing(w) /\ Missing(w) \cap published = {}
    BY <1>1, <1>2, <1>3 DEF Missing
  <2>3. \A r \in Held(resStatus) : 
           /\ newPaths[r] \cap published = {}
           /\ \A q \in Held(resStatus) \ {r} : newPaths[r] \cap newPaths[q] = {}
    BY DEF IInv, PathsWithinCapacity, Held
  <2>4. ASSUME NEW r \in Held(resStatus') \ {id}
        PROVE  newPaths'[r] \cap Missing(w) = {} /\ newPaths'[r] \cap published' = {}
    BY <1>3, <2>1, <2>3
  <2>5. ASSUME NEW r \in Held(resStatus') \ {id}, NEW q \in Held(resStatus') \ {id}, q # r
        PROVE  newPaths'[r] \cap newPaths'[q] = {}
    BY <2>1, <2>3, <2>5
  <2>6. ASSUME NEW r \in Held(resStatus')
        PROVE  newPaths'[r] \cap published' = {}
    BY <1>3, <2>2, <2>4
  <2>7. ASSUME NEW r \in Held(resStatus'), NEW q \in Held(resStatus') \ {r}
        PROVE  newPaths'[r] \cap newPaths'[q] = {}
    <3>1. CASE r = id
      BY <2>2, <2>4, <3>1
    <3>2. CASE q = id
      BY <2>2, <2>4, <3>2
    <3>3. CASE r # id /\ q # id
      BY <2>5, <3>3
    <3> QED
      BY <3>1, <3>2, <3>3
  <2> QED
    BY <2>6, <2>7
<1> QED
  BY <1>5, <1>6 DEF PathsWithinCapacity, Promised, Held

(* A swap publishes paths of its own reservation, and ends it.             *)
LEMMA SwappedWithinCapacity ==
    ASSUME IInv, NEW w \in Writers, SwapCapacity(w)
    PROVE  PathsWithinCapacity'
<1> DEFINE id == Set(w)
<1>1. id \in SetIds
  BY DEF Set, SetIds
<1>2. /\ resStatus \in [SetIds -> {"none", "reserved", "finalized", "released"}]
      /\ newPaths \in [SetIds -> SUBSET Paths] /\ published \in SUBSET Paths
      /\ found[w] \subseteq looked[w]
  BY DEF IInv, WorkspaceTypeOK
<1>3. newPaths' = newPaths
  BY DEF SwapCapacity
<1>4. CASE ~Swaps(w)
  <2>1. UNCHANGED <<resStatus, published>>
    BY <1>4 DEF SwapCapacity
  <2> QED
    BY <1>3, <2>1 DEF IInv, PathsWithinCapacity
<1>5. CASE Swaps(w)
  <2> DEFINE end == IF goal[w] = "release" THEN "released" ELSE "finalized"
  <2>1. /\ resStatus' = [resStatus EXCEPT ![id] = end]
        /\ published' = published \cup found[w]
    BY <1>5 DEF SwapCapacity
  <2>2. resStatus[id] = "reserved" /\ found[w] \subseteq newPaths[id]
    BY <1>2, <1>5 DEF IInv, SwapInv, Swaps
  <2> HIDE DEF id
  <2>3. Held(resStatus') = Held(resStatus) \ {id} /\ id \in Held(resStatus)
    BY <1>1, <1>2, <2>1, <2>2 DEF Held
  <2>4. \A r \in Held(resStatus) : 
           /\ newPaths[r] \cap published = {}
           /\ \A q \in Held(resStatus) \ {r} : newPaths[r] \cap newPaths[q] = {}
    BY DEF IInv, PathsWithinCapacity, Held
  <2>5. \A r \in Held(resStatus') :
           /\ newPaths'[r] \cap published' = {}
           /\ \A q \in Held(resStatus') \ {r} : newPaths'[r] \cap newPaths'[q] = {}
    BY <1>3, <2>1, <2>2, <2>3, <2>4
  <2>6. /\ found[w] \cap Promised(resStatus', newPaths') = {} /\ found[w] \cap published = {}
        /\ found[w] \cup Promised(resStatus', newPaths') \subseteq Promised(resStatus, newPaths)
    BY <1>3, <2>2, <2>3, <2>4 DEF Promised
  <2>7. Cardinality(published') + Cardinality(Promised(resStatus', newPaths')) <= MaxFiles
    <3> DEFINE S == Promised(resStatus', newPaths')
               T == Promised(resStatus, newPaths)
    <3>1. published \in SUBSET Paths /\ found[w] \in SUBSET Paths /\ T \in SUBSET Paths
          /\ S \in SUBSET Paths
      BY <2>6, PromisedPaths DEF IInv
    <3> HIDE DEF S, T
    <3>2. /\ Cardinality(published \cup found[w]) = Cardinality(published) + Cardinality(found[w])
          /\ Cardinality(found[w] \cup S) = Cardinality(found[w]) + Cardinality(S)
          /\ Cardinality(found[w] \cup S) <= Cardinality(T)
      <4>1. found[w] \cup S \in SUBSET Paths /\ found[w] \cup S \subseteq T
        BY <2>6, <3>1 DEF S, T
      <4> QED
        BY <2>6, <3>1, <4>1, CountUnion DEF S
    <3>3. Cardinality(published) + Cardinality(T) <= MaxFiles
      BY DEF IInv, PathsWithinCapacity, T, Promised, Held
    <3>4. /\ Cardinality(published) \in Nat /\ Cardinality(found[w]) \in Nat
          /\ Cardinality(S) \in Nat /\ Cardinality(T) \in Nat
      BY <3>1, CountsFinite
    <3>5. Cardinality(published \cup found[w]) + Cardinality(S) <= MaxFiles
      BY <3>2, <3>3, <3>4, WorkspaceAssumption
    <3> QED
      BY <2>1, <3>5 DEF S
  <2> QED
    BY <2>5, <2>7 DEF PathsWithinCapacity, Promised, Held
<1> QED
  BY <1>4, <1>5

LEMMA CapacityStep == IInv /\ WorkspaceNext => PathsWithinCapacity'
<1> SUFFICES ASSUME IInv, WorkspaceNext PROVE PathsWithinCapacity'
  OBVIOUS
<1>1. \/ \E w \in Writers : ReserveSet(w) \/ SwapCapacity(w)
      \/ UNCHANGED capacityVars
  BY DEF WorkspaceNext, StartSet, AdmitFile, Commit, ReadHead, FoundWhole, Refused, Wait, Acquired,
         StageFails, StagedAll, ReadCapacity, CannotSettle, Projected, Abort, Discard, RecoverStale,
         WaitOver, FenceLost, WriterDies, Age, Forget, Go, Settled, SettleSet, lookVars, writerVars
<1>2. ASSUME UNCHANGED capacityVars PROVE PathsWithinCapacity'
  BY <1>2 DEF IInv, PathsWithinCapacity, capacityVars
<1> QED
  BY <1>1, <1>2, ReservedWithinCapacity, SwappedWithinCapacity

-----------------------------------------------------------------------------
(* Types.                                                                  *)

LEMMA TypeStep == IInv /\ WorkspaceNext => WorkspaceTypeOK'
<1> SUFFICES ASSUME IInv, WorkspaceNext PROVE WorkspaceTypeOK'
  OBVIOUS
<1>0. WorkspaceTypeOK /\ SwapInv
  BY DEF IInv
<1> USE DEF WorkspaceTypeOK, capacityVars, headVars, writerVars, lookVars, Go
<1>1. ASSUME NEW w \in Writers, NEW k \in {"shared", "batch", "single"}, NEW P \in SUBSET Paths,
             StartSet(w, k, P)
      PROVE  WorkspaceTypeOK'
  <2>1. /\ wanted' \in [Writers -> SUBSET Paths] /\ kind' \in [Writers -> {"shared", "batch", "single"}]
        /\ wplace' = [wplace EXCEPT ![w] = "begin"]
        /\ UNCHANGED <<capacityVars, headVars, fence, unwritten, pending, lookVars, aged>>
    BY <1>0, <1>1 DEF StartSet
  <2> QED
    BY <1>0, <2>1
<1>2. ASSUME NEW w \in Writers,
             \/ StartSet(w, "shared", SharedPaths)
             \/ \E p \in OwnPaths : StartSet(w, "batch", {p}) \/ StartSet(w, "single", {p})
      PROVE  WorkspaceTypeOK'
  <2>1. SharedPaths \in SUBSET Paths /\ \A p \in OwnPaths : {p} \in SUBSET Paths
    BY WorkspaceAssumption
  <2> QED
    BY <1>1, <1>2, <2>1
<1>3. ASSUME NEW w \in Writers, NEW p \in Paths, AdmitFile(w, p) PROVE WorkspaceTypeOK'
  <2>1. /\ pending' \in [Writers -> SUBSET Paths]
        /\ \A v \in Writers : pending'[v] \subseteq unwritten[v]
        /\ wplace' = [wplace EXCEPT ![w] = "commit"]
    BY <1>0, <1>3 DEF AdmitFile
  <2> QED
    BY <1>0, <1>3, <2>1 DEF AdmitFile
<1>4. ASSUME NEW w \in Writers, NEW p \in Paths, Commit(w, p) PROVE WorkspaceTypeOK'
  BY <1>0, <1>4 DEF Commit, Set, SetIds
<1>5. ASSUME NEW w \in Writers, NEW p \in Paths, ReadHead(w, p) PROVE WorkspaceTypeOK'
  BY <1>0, <1>5 DEF ReadHead, Reading
<1>6. ASSUME NEW w \in Writers, FoundWhole(w) PROVE WorkspaceTypeOK'
  BY <1>0, <1>6 DEF FoundWhole
<1>7. ASSUME NEW w \in Writers, ReserveSet(w) PROVE WorkspaceTypeOK'
  BY <1>0, <1>7 DEF ReserveSet, Beginning, Missing, Visible, Set, SetIds, SwapInv
<1>8. ASSUME NEW w \in Writers, Refused(w) PROVE WorkspaceTypeOK'
  BY <1>0, <1>8 DEF Refused
<1>9. ASSUME NEW w \in Writers, Wait(w) PROVE WorkspaceTypeOK'
  BY <1>0, <1>9 DEF Wait
<1>10. ASSUME NEW w \in Writers, Acquired(w) PROVE WorkspaceTypeOK'
  BY <1>0, <1>10 DEF Acquired
<1>11. ASSUME NEW w \in Writers, StageFails(w) PROVE WorkspaceTypeOK'
  BY <1>0, <1>11 DEF StageFails
<1>12. ASSUME NEW w \in Writers, StagedAll(w) PROVE WorkspaceTypeOK'
  BY <1>0, <1>12 DEF StagedAll, SettleSet
<1>13. ASSUME NEW w \in Writers, ReadCapacity(w) PROVE WorkspaceTypeOK'
  BY <1>0, <1>13 DEF ReadCapacity, Settled
<1>14. ASSUME NEW w \in Writers, CannotSettle(w) PROVE WorkspaceTypeOK'
  BY <1>0, <1>14 DEF CannotSettle, Settled, Forget
<1>15. ASSUME NEW w \in Writers, SwapCapacity(w) PROVE WorkspaceTypeOK'
  BY <1>0, <1>15 DEF SwapCapacity, Set, SetIds, Settled, Forget, Swaps
<1>16. ASSUME NEW w \in Writers, Projected(w) PROVE WorkspaceTypeOK'
  BY <1>0, <1>16 DEF Projected
<1>17. ASSUME NEW w \in Writers, Abort(w) PROVE WorkspaceTypeOK'
  BY <1>0, <1>17 DEF Abort, SettleSet
<1>18. ASSUME NEW w \in Writers, Discard(w) PROVE WorkspaceTypeOK'
  BY <1>0, <1>18 DEF Discard, StagedIn
<1>19. ASSUME NEW w \in Writers, RecoverStale(w) PROVE WorkspaceTypeOK'
  BY <1>0, <1>19 DEF RecoverStale, AfterRecovery
<1>20. ASSUME NEW w \in Writers, WaitOver(w) PROVE WorkspaceTypeOK'
  BY <1>0, <1>20 DEF WaitOver
<1>21. ASSUME NEW w \in Writers, FenceLost(w) PROVE WorkspaceTypeOK'
  BY <1>0, <1>21 DEF FenceLost
<1>22. ASSUME NEW w \in Writers, WriterDies(w) PROVE WorkspaceTypeOK'
  BY <1>0, <1>22 DEF WriterDies, Forget
<1>23. ASSUME Age PROVE WorkspaceTypeOK'
  BY <1>0, <1>23 DEF Age
<1> HIDE DEF WorkspaceTypeOK, capacityVars, headVars, writerVars, lookVars, Go
<1> QED
  BY <1>1, <1>2, <1>3, <1>4, <1>5, <1>6, <1>7, <1>8,
     <1>9, <1>10, <1>11, <1>12, <1>13, <1>14, <1>15, <1>16,
     <1>17, <1>18, <1>19, <1>20, <1>21, <1>22, <1>23 DEF WorkspaceNext

-----------------------------------------------------------------------------
(* What a writer has read.                                                 *)

LEMMA SwapInvStep == IInv /\ WorkspaceNext => SwapInv'
<1> SUFFICES ASSUME IInv, WorkspaceNext PROVE SwapInv'
  OBVIOUS
<1> USE DEF IInv, WorkspaceTypeOK, SwapInv
<1>1. ASSUME NEW w \in Writers, StartSet(w, "shared", SharedPaths) PROVE SwapInv'
  BY <1>1 DEF StartSet, capacityVars, lookVars, writerVars, Go, Set
<1>2. ASSUME NEW w \in Writers, NEW p \in OwnPaths,
             StartSet(w, "batch", {p}) \/ StartSet(w, "single", {p})
      PROVE SwapInv'
  BY <1>2 DEF StartSet, capacityVars, lookVars, writerVars, Go, Set
<1>3. ASSUME NEW w \in Writers, NEW p \in Paths, AdmitFile(w, p) PROVE SwapInv'
  BY <1>3 DEF AdmitFile, capacityVars, lookVars, writerVars, Go, Set
<1>4. ASSUME NEW w \in Writers, NEW p \in Paths, Commit(w, p) PROVE SwapInv'
  BY <1>4 DEF Commit, capacityVars, lookVars, writerVars, Go, Set
<1>5. ASSUME NEW w \in Writers, NEW p \in Paths, ReadHead(w, p) PROVE SwapInv'
  BY <1>5 DEF ReadHead, Reading, capacityVars, lookVars, writerVars, Go, Set
<1>6. ASSUME NEW w \in Writers, FoundWhole(w) PROVE SwapInv'
  BY <1>6 DEF FoundWhole, capacityVars, lookVars, writerVars, Go, Set
<1>7. ASSUME NEW w \in Writers, ReserveSet(w) PROVE SwapInv'
  BY <1>7 DEF ReserveSet, Beginning, Missing, Visible, capacityVars, lookVars, writerVars, Go, Set
<1>8. ASSUME NEW w \in Writers, Refused(w) PROVE SwapInv'
  BY <1>8 DEF Refused, Beginning, capacityVars, lookVars, writerVars, Go, Set
<1>9. ASSUME NEW w \in Writers, Wait(w) PROVE SwapInv'
  BY <1>9 DEF Wait, Beginning, capacityVars, lookVars, writerVars, Go, Set
<1>10. ASSUME NEW w \in Writers, Acquired(w) PROVE SwapInv'
  BY <1>10 DEF Acquired, capacityVars, lookVars, writerVars, Go, Set
<1>11. ASSUME NEW w \in Writers, StageFails(w) PROVE SwapInv'
  BY <1>11 DEF StageFails, capacityVars, lookVars, writerVars, Go, Set
<1>12. ASSUME NEW w \in Writers, StagedAll(w) PROVE SwapInv'
  BY <1>12 DEF StagedAll, SettleSet, capacityVars, lookVars, writerVars, Go, Set
<1>13. ASSUME NEW w \in Writers, ReadCapacity(w) PROVE SwapInv'
  BY <1>13 DEF ReadCapacity, Settled, capacityVars, lookVars, writerVars, Go, Set
<1>14. ASSUME NEW w \in Writers, CannotSettle(w) PROVE SwapInv'
  BY <1>14 DEF CannotSettle, Reading, Settled, Forget, capacityVars, lookVars, writerVars, Go, Set
<1>15. ASSUME NEW w \in Writers, SwapCapacity(w) PROVE SwapInv'
  BY <1>15 DEF SwapCapacity, ReadAll, Reading, Settled, Forget, Swaps, capacityVars, lookVars, writerVars, Go, Set
<1>16. ASSUME NEW w \in Writers, Projected(w) PROVE SwapInv'
  BY <1>16 DEF Projected, capacityVars, lookVars, writerVars, Go, Set
<1>17. ASSUME NEW w \in Writers, Abort(w) PROVE SwapInv'
  BY <1>17 DEF Abort, SettleSet, capacityVars, lookVars, writerVars, Go, Set
<1>18. ASSUME NEW w \in Writers, Discard(w) PROVE SwapInv'
  BY <1>18 DEF Discard, StagedIn, capacityVars, lookVars, writerVars, Go, Set
<1>19. ASSUME NEW w \in Writers, RecoverStale(w) PROVE SwapInv'
  BY <1>19 DEF RecoverStale, AfterRecovery, capacityVars, lookVars, writerVars, Go, Set
<1>20. ASSUME NEW w \in Writers, WaitOver(w) PROVE SwapInv'
  BY <1>20 DEF WaitOver, capacityVars, lookVars, writerVars, Go, Set
<1>21. ASSUME NEW w \in Writers, FenceLost(w) PROVE SwapInv'
  BY <1>21 DEF FenceLost, capacityVars, lookVars, writerVars, Go, Set
<1>22. ASSUME NEW w \in Writers, WriterDies(w) PROVE SwapInv'
  BY <1>22 DEF WriterDies, Forget, capacityVars, lookVars, writerVars, Go, Set
<1>23. ASSUME Age PROVE SwapInv'
  BY <1>23 DEF Age, capacityVars, lookVars, writerVars, Go, Set
<1> HIDE DEF IInv, WorkspaceTypeOK, SwapInv
<1> QED
  BY <1>1, <1>2, <1>3, <1>4, <1>5, <1>6, <1>7, <1>8,
     <1>9, <1>10, <1>11, <1>12, <1>13, <1>14, <1>15, <1>16,
     <1>17, <1>18, <1>19, <1>20, <1>21, <1>22, <1>23 DEF WorkspaceNext

-----------------------------------------------------------------------------
(* The invariant.                                                          *)

LEMMA InitInv == WorkspaceInit => IInv
<1> SUFFICES ASSUME WorkspaceInit PROVE IInv
  OBVIOUS
<1>1. WorkspaceTypeOK /\ SwapInv
  BY WorkspaceAssumption DEF WorkspaceInit, WorkspaceTypeOK, SwapInv
<1>2. PathsWithinCapacity
  <2>1. {r \in SetIds : resStatus[r] = "reserved"} = {} /\ published = {}
    BY DEF WorkspaceInit
  <2>2. UNION {newPaths[r] : r \in {}} = {} /\ Cardinality({}) = 0
    BY FS_EmptySet
  <2>3. MaxFiles \in Nat
    BY WorkspaceAssumption
  <2> QED
    BY <2>1, <2>2, <2>3 DEF PathsWithinCapacity
<1> QED
  BY <1>1, <1>2 DEF IInv

LEMMA Invariance == WorkspaceSpec => []IInv
<1>1. IInv /\ UNCHANGED workspaceVars => IInv'
  BY DEF IInv, WorkspaceTypeOK, SwapInv, PathsWithinCapacity, Set, workspaceVars, capacityVars,
         headVars, writerVars, lookVars
<1>2. IInv /\ [WorkspaceNext]_workspaceVars => IInv'
  BY <1>1, TypeStep, SwapInvStep, CapacityStep DEF IInv
<1> QED
  BY InitInv, <1>2, PTL DEF WorkspaceSpec

(* Every variable of the model stays in its type.                          *)
THEOREM WorkspaceTypeCorrect == WorkspaceSpec => []WorkspaceTypeOK
<1>1. IInv => WorkspaceTypeOK
  BY DEF IInv
<1> QED
  BY <1>1, Invariance, PTL

(* What is published and what is promised never exceed the capacity of the *)
(* workspace together, and no path is promised twice or promised although  *)
(* it is visible: the compare-and-swap of the capacity document protects   *)
(* it against any number of writers.                                       *)
THEOREM CapacityRespected == WorkspaceSpec => []PathsWithinCapacity
<1>1. IInv => PathsWithinCapacity
  BY DEF IInv
<1> QED
  BY <1>1, Invariance, PTL

(***************************************************************************)
(* Proofs about the memory pipeline: what is remembered comes once from a  *)
(* turn that ended naturally, no two workers decide on one candidate, and  *)
(* a candidate enters the profile once.  The invariant says what a worker  *)
(* may hold in its hands between two calls: the batch it has claimed, and  *)
(* a copy of the profile in which the candidate to be added is missing.    *)
(***************************************************************************)

\* A turn is recorded while it runs, and a worker makes candidates of a turn
\* that ended naturally.
TurnPart ==
    /\ turnEnd \in [MemoryRuns -> {"running", "natural", "waiting", "other"}]
    /\ memStatus \in [MemoryRuns -> {"recording", "queued", "processing", "completed",
                                     "discarded", "failed"}]
    /\ memHolder \in [MemoryRuns -> MemoryWorkers \cup {NoWorker}]
    /\ attempts \in [MemoryRuns -> 0..MaxAttempts]
    /\ mplace \in [MemoryWorkers -> {"idle", "leased", "candidate", "pick", "claim", "revert",
                                     "batch", "write", "promote", "finish", "fail"}]
    /\ mrun \in [MemoryWorkers -> SUBSET MemoryRuns]
    /\ memCrashes \in 0..MaxMemoryCrashes
    /\ \A r \in MemoryRuns : memStatus[r] = "recording" => turnEnd[r] = "running"
    /\ \A w \in MemoryWorkers :
          /\ (mplace[w] = "idle") = (mrun[w] = {})
          /\ \A r, q \in mrun[w] : r = q
          /\ mplace[w] = "candidate" => \A r \in mrun[w] : turnEnd[r] = "natural"

\* One event, and a candidate that has a batch exists.
FactPart ==
    /\ events \in [MemoryRuns -> 0..2]
    /\ candStatus \in [MemoryRuns -> {"none", "pending", "claimed", "promoted", "ignored", "conflict"}]
    /\ candBatch \in [MemoryRuns -> MemoryWorkers \cup {NoWorker}]
    /\ suppressed \subseteq MemoryRuns
    /\ \A r \in MemoryRuns :
          /\ events[r] <= 1
          /\ events[r] > 0 \/ candStatus[r] # "none" => turnEnd[r] = "natural"
          /\ candStatus[r] = "none" => candBatch[r] = NoWorker

\* A worker has a batch while it decides on it, and all of it is its own.
BatchPart ==
    /\ batch \in [MemoryWorkers -> SUBSET MemoryRuns]
    /\ chosen \in [MemoryWorkers -> SUBSET MemoryRuns]
    /\ \A w \in MemoryWorkers :
          /\ mplace[w] = "claim" => Cardinality(chosen[w]) = BatchSize
          /\ mplace[w] \in {"write", "promote"} => chosen[w] \subseteq batch[w]
          /\ batch[w] # {} => mplace[w] \in {"batch", "write", "promote"}
          /\ \A c \in batch[w] : candBatch[c] = w /\ candStatus[c] = "claimed"

\* No copy of the profile has a preference twice, and one that is to be
\* written back lacks the preference that is added.
ProfilePart ==
    /\ profile \in Preferences
    /\ copy \in [MemoryWorkers -> Preferences]
    /\ userCopy \in Preferences /\ userTarget \subseteq MemoryRuns
    /\ \A c \in MemoryRuns : profile[c] <= 1 /\ userCopy[c] <= 1
    /\ \A w \in MemoryWorkers :
          /\ \A c \in MemoryRuns : copy[w][c] <= 1
          /\ mplace[w] = "write" => \A c \in chosen[w] : copy[w][c] = 0

MemInv == TurnPart /\ FactPart /\ BatchPart /\ ProfilePart

LEMMA MemInvImplies == MemInv => MemoryTypeOK /\ MemoryOfCompletedTurns /\ DecidedOnce
  <1> SUFFICES ASSUME MemInv PROVE MemoryTypeOK /\ MemoryOfCompletedTurns /\ DecidedOnce OBVIOUS
  <1> USE DEF MemInv
  <1>1. MemoryTypeOK BY DEF TurnPart, FactPart, BatchPart, ProfilePart, MemoryTypeOK
  <1>2. MemoryOfCompletedTurns BY DEF FactPart, MemoryOfCompletedTurns
  <1>3. PreferenceOnce BY DEF ProfilePart, PreferenceOnce
  <1>4. BatchesApart BY DEF BatchPart, BatchesApart
  <1> QED BY <1>1, <1>2, <1>3, <1>4 DEF DecidedOnce

LEMMA MemInvInit == MemoryInit => MemInv
  <1> SUFFICES ASSUME MemoryInit PROVE MemInv OBVIOUS
  <1> USE MemoryAssumption DEF MemoryInit, Nothing
  <1>1. TurnPart BY DEF TurnPart
  <1>2. FactPart BY DEF FactPart
  <1>3. BatchPart BY DEF BatchPart
  <1>4. ProfilePart BY DEF ProfilePart, Preferences
  <1> QED BY <1>1, <1>2, <1>3, <1>4 DEF MemInv

\* The steps one by one.
MemoryStep ==
    \/ \E r \in MemoryRuns : (\E end \in {"natural", "waiting", "other"} : EndTurn(r, end))
    \/ \E r \in MemoryRuns : TurnResumed(r)
    \/ \E r \in MemoryRuns : UserReads(r)
    \/ \E r \in MemoryRuns : UserDeletes(r)
    \/ \E r \in MemoryRuns : (ResolveConflict(r, "pending") \/ ResolveConflict(r, "ignored"))
    \/ \E w \in MemoryWorkers, r \in MemoryRuns : Discarded(w, r)
    \/ \E w \in MemoryWorkers, r \in MemoryRuns : RecordEvent(w, r)
    \/ \E w \in MemoryWorkers, r \in MemoryRuns : RecordCandidate(w, r)
    \/ \E w \in MemoryWorkers, r \in MemoryRuns : FinishMemory(w, r)
    \/ \E w \in MemoryWorkers, r \in MemoryRuns : FailMemory(w, r)
    \/ \E w \in MemoryWorkers, r \in MemoryRuns : Decline(w, r, "ignored") \/ Decline(w, r, "conflict")
    \/ \E w \in MemoryWorkers, r \in MemoryRuns : ReadProfile(w, r)
    \/ \E w \in MemoryWorkers, r \in MemoryRuns : WriteProfile(w, r)
    \/ \E w \in MemoryWorkers, r \in MemoryRuns : Promote(w, r)
    \/ \E w \in MemoryWorkers : Pick(w)
    \/ \E w \in MemoryWorkers : Claim(w)
    \/ \E w \in MemoryWorkers : Revert(w)
    \/ \E w \in MemoryWorkers : Consolidated(w)
    \/ \E w \in MemoryWorkers : ResetBatch(w)
    \/ \E w \in MemoryWorkers : MemoryCrash(w)
    \/ \E w \in MemoryWorkers, r \in MemoryRuns : LeaseMemory(w, r)

LEMMA MemoryNextIs == MemoryNext => MemoryStep
  BY DEF MemoryNext, MemoryWork, MemoryStep

-----------------------------------------------------------------------------
(* The turns and the places of the workers. *)

LEMMA TurnsEvolve ==
  ASSUME MemInv, MemoryNext PROVE TurnPart'
  <1> USE MemoryAssumption DEF MemInv, TurnPart, runDocVars, mworkerVars, Proceed
  <1>1. ASSUME NEW r \in MemoryRuns, \E end \in {"natural", "waiting", "other"} : EndTurn(r, end)
        PROVE  TurnPart'
    BY <1>1 DEF EndTurn, SetMemoryStatus
  <1>2. ASSUME NEW r \in MemoryRuns, TurnResumed(r) PROVE TurnPart'
    BY <1>2 DEF TurnResumed
  <1>3. ASSUME NEW r \in MemoryRuns, UserReads(r) PROVE TurnPart'
    BY <1>3 DEF UserReads
  <1>4. ASSUME NEW r \in MemoryRuns, UserDeletes(r) PROVE TurnPart'
    BY <1>4 DEF UserDeletes
  <1>5. ASSUME NEW r \in MemoryRuns, ResolveConflict(r, "pending") \/ ResolveConflict(r, "ignored")
        PROVE  TurnPart'
    BY <1>5 DEF ResolveConflict
  <1>6. ASSUME NEW w \in MemoryWorkers, NEW r \in MemoryRuns, Discarded(w, r) PROVE TurnPart'
    BY <1>6 DEF Discarded, SetMemoryStatus
  <1>7. ASSUME NEW w \in MemoryWorkers, NEW r \in MemoryRuns, RecordEvent(w, r) PROVE TurnPart'
    BY <1>7 DEF RecordEvent, Authorized
  <1>8. ASSUME NEW w \in MemoryWorkers, NEW r \in MemoryRuns, RecordCandidate(w, r)
        PROVE  TurnPart'
    BY <1>8 DEF RecordCandidate
  <1>9. ASSUME NEW w \in MemoryWorkers, NEW r \in MemoryRuns, FinishMemory(w, r)
        PROVE  TurnPart'
    BY <1>9 DEF FinishMemory, SetMemoryStatus
  <1>10. ASSUME NEW w \in MemoryWorkers, NEW r \in MemoryRuns, FailMemory(w, r) PROVE TurnPart'
    BY <1>10 DEF FailMemory, SetMemoryStatus
  <1>11. ASSUME NEW w \in MemoryWorkers, NEW r \in MemoryRuns, Decline(w, r, "ignored") \/ Decline(w, r, "conflict")
         PROVE  TurnPart'
    BY <1>11 DEF Decline
  <1>12. ASSUME NEW w \in MemoryWorkers, NEW r \in MemoryRuns, ReadProfile(w, r)
         PROVE  TurnPart'
    BY <1>12 DEF ReadProfile
  <1>13. ASSUME NEW w \in MemoryWorkers, NEW r \in MemoryRuns, WriteProfile(w, r)
         PROVE  TurnPart'
    BY <1>13 DEF WriteProfile
  <1>14. ASSUME NEW w \in MemoryWorkers, NEW r \in MemoryRuns, Promote(w, r) PROVE TurnPart'
    BY <1>14 DEF Promote
  <1>15. ASSUME NEW w \in MemoryWorkers, Pick(w) PROVE TurnPart'
    BY <1>15 DEF Pick
  <1>16. ASSUME NEW w \in MemoryWorkers, Claim(w) PROVE TurnPart'
    BY <1>16 DEF Claim
  <1>17. ASSUME NEW w \in MemoryWorkers, Revert(w) PROVE TurnPart'
    BY <1>17 DEF Revert
  <1>18. ASSUME NEW w \in MemoryWorkers, Consolidated(w) PROVE TurnPart'
    BY <1>18 DEF Consolidated
  <1>19. ASSUME NEW w \in MemoryWorkers, ResetBatch(w) PROVE TurnPart'
    BY <1>19 DEF ResetBatch
  <1>20. ASSUME NEW w \in MemoryWorkers, MemoryCrash(w) PROVE TurnPart'
    BY <1>20 DEF MemoryCrash
  <1>21. ASSUME NEW w \in MemoryWorkers, NEW r \in MemoryRuns, LeaseMemory(w, r)
         PROVE  TurnPart'
    <2>1. attempts' \in [MemoryRuns -> 0..MaxAttempts] BY <1>21 DEF LeaseMemory, Leasable
    <2>2. mplace'[w] = "leased" /\ mrun'[w] = {r} /\ mrun' \in [MemoryWorkers -> SUBSET MemoryRuns]
      BY <1>21 DEF LeaseMemory
    <2>3. \A v \in MemoryWorkers \ {w} : mplace'[v] = mplace[v] /\ mrun'[v] = mrun[v]
      BY <1>21 DEF LeaseMemory
    <2>4. UNCHANGED <<turnEnd, memCrashes>> /\ memStatus'[r] = "processing"
      BY <1>21 DEF LeaseMemory
    <2>5. \A v \in MemoryWorkers :
             /\ (mplace'[v] = "idle") = (mrun'[v] = {})
             /\ \A p, q \in mrun'[v] : p = q
             /\ mplace'[v] = "candidate" => \A p \in mrun'[v] : turnEnd'[p] = "natural"
      BY <2>2, <2>3, <2>4
    <2> QED BY <1>21, <2>1, <2>2, <2>4, <2>5 DEF LeaseMemory
  <1> HIDE DEF MemInv, TurnPart
  <1> QED
    BY MemoryNextIs, <1>1, <1>2, <1>3, <1>4, <1>5, <1>6, <1>7, <1>8, <1>9, <1>10, <1>11, <1>12,
       <1>13, <1>14, <1>15, <1>16, <1>17, <1>18, <1>19, <1>20, <1>21 DEF MemoryStep

-----------------------------------------------------------------------------
(* The events and the candidates. *)

FactVars == <<turnEnd, events, candStatus, candBatch, suppressed>>

LEMMA BackToPendingKeeps ==
  ASSUME FactPart, NEW w \in MemoryWorkers, NEW S \in SUBSET MemoryRuns,
         \A c \in S : candBatch[c] = w, BackToPending(w, S), UNCHANGED <<turnEnd, events, suppressed>>
  PROVE  FactPart'
  BY MemoryAssumption DEF FactPart, BackToPending

LEMMA FactsEvolve ==
  ASSUME MemInv, MemoryNext PROVE FactPart'
  <1> USE MemoryAssumption DEF MemInv, runDocVars, candVars, profileVars
  <1>0. ASSUME UNCHANGED FactVars PROVE FactPart' BY <1>0 DEF FactVars, FactPart
  <1>1. ASSUME NEW r \in MemoryRuns, NEW end \in {"natural", "waiting", "other"}, EndTurn(r, end)
        PROVE  FactPart'
    <2>1. turnEnd[r] = "running" BY <1>1 DEF EndTurn, TurnPart
    <2> QED BY <1>1, <2>1 DEF EndTurn, FactPart, TurnPart
  <1>2. ASSUME NEW r \in MemoryRuns, TurnResumed(r) PROVE FactPart'
    BY <1>2 DEF TurnResumed, FactPart, TurnPart
  <1>3. ASSUME NEW r \in MemoryRuns, UserDeletes(r) PROVE FactPart' BY <1>3 DEF UserDeletes, FactPart
  <1>4. ASSUME NEW r \in MemoryRuns, NEW status \in {"pending", "ignored"}, ResolveConflict(r, status)
        PROVE  FactPart'
    BY <1>4 DEF ResolveConflict, FactPart
  <1>5. ASSUME NEW w \in MemoryWorkers, NEW r \in MemoryRuns, RecordEvent(w, r) PROVE FactPart'
    BY <1>5 DEF RecordEvent, NextEvents, Authorized, FactPart
  <1>6. ASSUME NEW w \in MemoryWorkers, NEW r \in MemoryRuns, RecordCandidate(w, r) PROVE FactPart'
    <2>1. turnEnd[r] = "natural" BY <1>6 DEF RecordCandidate, TurnPart
    <2> QED BY <1>6, <2>1 DEF RecordCandidate, FactPart
  <1>7. ASSUME NEW w \in MemoryWorkers, NEW r \in MemoryRuns,
               NEW status \in {"ignored", "conflict"}, Decline(w, r, status)
        PROVE  FactPart'
    BY <1>7 DEF Decline, Finalize, FactPart
  <1>8. ASSUME NEW w \in MemoryWorkers, NEW r \in MemoryRuns, Promote(w, r) PROVE FactPart'
    BY <1>8 DEF Promote, Finalize, FactPart
  <1>9. ASSUME NEW w \in MemoryWorkers, Claim(w) PROVE FactPart'
    BY <1>9 DEF Claim, StillPending, Pending, FactPart
  <1>10. ASSUME NEW w \in MemoryWorkers, Revert(w) PROVE FactPart'
    BY <1>10, BackToPendingKeeps DEF Revert
  <1>11. ASSUME NEW w \in MemoryWorkers, ResetBatch(w) PROVE FactPart'
    BY <1>11, BackToPendingKeeps DEF ResetBatch
  <1>12. ASSUME NEW w \in MemoryWorkers, MemoryCrash(w) PROVE FactPart'
    BY <1>12 DEF MemoryCrash, FactPart
  <1>13. ASSUME NEW r \in MemoryRuns, UserReads(r) PROVE FactPart' BY <1>0, <1>13 DEF UserReads, FactVars
  <1>14. ASSUME NEW w \in MemoryWorkers, NEW r \in MemoryRuns,
                \/ Discarded(w, r) \/ FinishMemory(w, r) \/ FailMemory(w, r)
                \/ ReadProfile(w, r) \/ WriteProfile(w, r) \/ LeaseMemory(w, r)
         PROVE  FactPart'
    BY <1>0, <1>14 DEF Discarded, FinishMemory, FailMemory, ReadProfile, WriteProfile, LeaseMemory, FactVars
  <1>15. ASSUME NEW w \in MemoryWorkers, Pick(w) \/ Consolidated(w) PROVE FactPart'
    BY <1>0, <1>15 DEF Pick, Consolidated, FactVars
  <1> HIDE DEF MemInv
  <1> QED
    BY MemoryNextIs, <1>1, <1>2, <1>3, <1>4, <1>5, <1>6, <1>7, <1>8, <1>9, <1>10, <1>11, <1>12, <1>13,
       <1>14, <1>15 DEF MemoryStep

-----------------------------------------------------------------------------
(* The batches of the workers. *)

BatchVars == <<mplace, batch, chosen, candStatus, candBatch>>

\* The batches of the other workers are as they were, and their candidates.
OthersKept(w) ==
    /\ \A v \in MemoryWorkers \ {w} :
          mplace'[v] = mplace[v] /\ batch'[v] = batch[v] /\ chosen'[v] = chosen[v]
    /\ \A c \in MemoryRuns : candStatus[c] = "claimed" /\ candBatch[c] \in MemoryWorkers \ {w} =>
          candStatus'[c] = "claimed" /\ candBatch'[c] = candBatch[c]

LEMMA WorkerBatch ==
  ASSUME BatchPart, NEW w \in MemoryWorkers, OthersKept(w),
         batch' \in [MemoryWorkers -> SUBSET MemoryRuns],
         chosen' \in [MemoryWorkers -> SUBSET MemoryRuns],
         mplace'[w] = "claim" => Cardinality(chosen'[w]) = BatchSize,
         mplace'[w] \in {"write", "promote"} => chosen'[w] \subseteq batch'[w],
         batch'[w] # {} => mplace'[w] \in {"batch", "write", "promote"},
         \A c \in batch'[w] : candBatch'[c] = w /\ candStatus'[c] = "claimed"
  PROVE  BatchPart'
  <1> SUFFICES ASSUME NEW v \in MemoryWorkers
               PROVE  /\ mplace'[v] = "claim" => Cardinality(chosen'[v]) = BatchSize
                      /\ mplace'[v] \in {"write", "promote"} => chosen'[v] \subseteq batch'[v]
                      /\ batch'[v] # {} => mplace'[v] \in {"batch", "write", "promote"}
                      /\ \A c \in batch'[v] : candBatch'[c] = v /\ candStatus'[c] = "claimed"
    BY DEF BatchPart
  <1>1. CASE v = w BY <1>1
  <1>2. CASE v # w BY <1>2 DEF BatchPart, OthersKept
  <1> QED BY <1>1, <1>2

LEMMA BatchesEvolve ==
  ASSUME MemInv, MemoryNext PROVE BatchPart'
  <1> USE MemoryAssumption DEF MemInv, candVars, mworkerVars
  <1>t. mplace \in [MemoryWorkers -> {"idle", "leased", "candidate", "pick", "claim", "revert",
                                     "batch", "write", "promote", "finish", "fail"}]
    BY DEF TurnPart
  <1>0. ASSUME UNCHANGED BatchVars PROVE BatchPart' BY <1>0 DEF BatchVars, BatchPart
  <1>1. ASSUME NEW r \in MemoryRuns,
               \/ \E end \in {"natural", "waiting", "other"} : EndTurn(r, end)
               \/ TurnResumed(r) \/ UserReads(r) \/ UserDeletes(r)
        PROVE  BatchPart'
    BY <1>0, <1>1 DEF EndTurn, TurnResumed, UserReads, UserDeletes, BatchVars
  <1>2. ASSUME NEW r \in MemoryRuns, NEW status \in {"pending", "ignored"}, ResolveConflict(r, status)
        PROVE  BatchPart'
    BY <1>2 DEF ResolveConflict, BatchPart, FactPart
  <1>3. ASSUME NEW w \in MemoryWorkers, NEW r \in MemoryRuns,
               \/ Discarded(w, r) \/ FinishMemory(w, r) \/ FailMemory(w, r) \/ RecordEvent(w, r)
               \/ RecordCandidate(w, r) \/ LeaseMemory(w, r)
        PROVE  BatchPart'
    <2>1. batch[w] = {} BY <1>3 DEF BatchPart, Discarded, FinishMemory, FailMemory, RecordEvent,
                                    RecordCandidate, LeaseMemory
    <2>2. mplace'[w] \notin {"claim", "write", "promote"} /\ UNCHANGED <<batch, chosen>>
      BY <1>t, <1>3 DEF Proceed, Discarded, FinishMemory, FailMemory, RecordEvent, RecordCandidate,
                        LeaseMemory
    <2>3. OthersKept(w)
      BY <1>t, <1>3 DEF OthersKept, Proceed, FactPart, Discarded, FinishMemory, FailMemory,
                        RecordEvent, RecordCandidate, LeaseMemory
    <2> QED BY <2>1, <2>2, <2>3, WorkerBatch DEF BatchPart
  <1>4. ASSUME NEW w \in MemoryWorkers, NEW r \in MemoryRuns,
               NEW status \in {"ignored", "conflict"}, Decline(w, r, status)
        PROVE  BatchPart'
    <2>1. candBatch[r] = w BY <1>4 DEF Decline, BatchPart
    <2>2. OthersKept(w) BY <1>4, <2>1 DEF OthersKept, Decline, Finalize, Decided, FactPart, BatchPart
    <2>3. batch' \in [MemoryWorkers -> SUBSET MemoryRuns] /\ chosen' = chosen /\ mplace' = mplace
          /\ batch'[w] = batch[w] \ {r}
      BY <1>4 DEF Decline, Decided, BatchPart
    <2>4. \A c \in batch'[w] : candBatch'[c] = w /\ candStatus'[c] = "claimed"
      BY <1>4, <2>3 DEF Decline, Finalize, BatchPart, FactPart
    <2> QED BY <1>4, <2>2, <2>3, <2>4, WorkerBatch DEF Decline, BatchPart
  <1>5. ASSUME NEW w \in MemoryWorkers, NEW r \in MemoryRuns, ReadProfile(w, r) PROVE BatchPart'
    <2>1. OthersKept(w) BY <1>t, <1>5 DEF OthersKept, ReadProfile, Proceed, BatchPart
    <2>2. chosen' = [chosen EXCEPT ![w] = {r}] /\ r \in batch[w] /\ UNCHANGED <<batch, candVars>>
          /\ mplace'[w] \in {"write", "promote"}
      BY <1>t, <1>5 DEF ReadProfile, Proceed
    <2> QED BY <2>1, <2>2, WorkerBatch DEF BatchPart
  <1>6. ASSUME NEW w \in MemoryWorkers, NEW r \in MemoryRuns, WriteProfile(w, r) PROVE BatchPart'
    <2>1. OthersKept(w) BY <1>t, <1>6 DEF OthersKept, WriteProfile, Proceed
    <2> QED BY <1>t, <1>6, <2>1, WorkerBatch DEF WriteProfile, Proceed, BatchPart
  <1>7. ASSUME NEW w \in MemoryWorkers, NEW r \in MemoryRuns, Promote(w, r) PROVE BatchPart'
    <2>1. r \in batch[w] /\ candBatch[r] = w BY <1>7 DEF Promote, BatchPart
    <2>2. OthersKept(w)
      BY <1>t, <1>7, <2>1 DEF OthersKept, Promote, Finalize, Decided, Proceed, FactPart, BatchPart
    <2>3. /\ batch' \in [MemoryWorkers -> SUBSET MemoryRuns] /\ batch'[w] = batch[w] \ {r}
          /\ chosen' \in [MemoryWorkers -> SUBSET MemoryRuns]
          /\ mplace'[w] = "batch"
      BY <1>t, <1>7 DEF Promote, Decided, Proceed, BatchPart
    <2>4. \A c \in batch'[w] : candBatch'[c] = w /\ candStatus'[c] = "claimed"
      BY <1>7, <2>3 DEF Promote, Finalize, BatchPart, FactPart
    <2> QED BY <2>2, <2>3, <2>4, WorkerBatch
  <1>8. ASSUME NEW w \in MemoryWorkers, Pick(w) PROVE BatchPart'
    <2>1. UNCHANGED <<batch, candVars>> /\ batch[w] = {} BY <1>8 DEF Pick, BatchPart
    <2>2. PICK ids \in SUBSET MemoryRuns :
             /\ chosen' = [chosen EXCEPT ![w] = ids]
             /\ \/ Cardinality(ids) = BatchSize /\ mplace' = [mplace EXCEPT ![w] = "claim"]
                \/ mplace' = [mplace EXCEPT ![w] = "finish"]
      <3>1. CASE Proceed(w, "finish") /\ UNCHANGED chosen
        <4>1. chosen' = [chosen EXCEPT ![w] = chosen[w]] /\ chosen[w] \in SUBSET MemoryRuns
          BY <3>1 DEF BatchPart
        <4> QED BY <3>1, <4>1 DEF Proceed
      <3>2. CASE \E ids \in SUBSET Pending :
                    /\ Cardinality(ids) = BatchSize
                    /\ chosen' = [chosen EXCEPT ![w] = ids]
                    /\ Proceed(w, "claim")
        BY <3>2 DEF Pending, Proceed
      <3> QED BY <1>8, <3>1, <3>2 DEF Pick
    <2>3. OthersKept(w) BY <1>t, <2>1, <2>2 DEF OthersKept, BatchPart
    <2>4. chosen' \in [MemoryWorkers -> SUBSET MemoryRuns] /\ chosen'[w] = ids
      BY <2>2 DEF BatchPart
    <2> QED BY <1>t, <2>1, <2>2, <2>3, <2>4, WorkerBatch DEF BatchPart
  <1>9. ASSUME NEW w \in MemoryWorkers, Claim(w) PROVE BatchPart'
    <2>1. batch[w] = {} /\ Cardinality(chosen[w]) = BatchSize /\ chosen[w] \in SUBSET MemoryRuns
      BY <1>9 DEF Claim, BatchPart
    <2>2. Cardinality(StillPending(w)) = BatchSize => StillPending(w) = chosen[w]
      <3>1. IsFiniteSet(chosen[w]) BY <2>1, FS_Subset
      <3> QED BY <2>1, <3>1, FS_Subset DEF StillPending
    <2>3. OthersKept(w)
      BY <1>t, <1>9 DEF OthersKept, Claim, StillPending, Pending, Proceed, BatchPart, FactPart
    <2>4. chosen' \in [MemoryWorkers -> SUBSET MemoryRuns] /\ chosen'[w] = {}
      BY <1>9 DEF Claim, BatchPart
    <2>5. CASE Cardinality(StillPending(w)) = BatchSize
      <3>1. batch' = [batch EXCEPT ![w] = chosen[w]] /\ mplace' = [mplace EXCEPT ![w] = "batch"]
        BY <1>9, <2>5 DEF Claim, Proceed
      <3>2. batch' \in [MemoryWorkers -> SUBSET MemoryRuns] /\ batch'[w] = chosen[w]
            /\ mplace'[w] = "batch"
        BY <1>t, <2>1, <3>1 DEF BatchPart
      <3>3. \A c \in chosen[w] : candBatch'[c] = w /\ candStatus'[c] = "claimed"
        BY <1>9, <2>1, <2>2, <2>5 DEF Claim
      <3> QED BY <2>3, <2>4, <3>2, <3>3, WorkerBatch
    <2>6. CASE Cardinality(StillPending(w)) # BatchSize
      <3>1. batch' = batch /\ mplace' = [mplace EXCEPT ![w] = "revert"]
        BY <1>9, <2>6 DEF Claim, Proceed
      <3>2. batch' \in [MemoryWorkers -> SUBSET MemoryRuns] /\ batch'[w] = {} /\ mplace'[w] = "revert"
        BY <1>t, <2>1, <3>1 DEF BatchPart
      <3> QED BY <2>3, <2>4, <3>2, WorkerBatch
    <2> QED BY <2>5, <2>6
  <1>10. ASSUME NEW w \in MemoryWorkers, Revert(w) PROVE BatchPart'
    <2>1. batch[w] = {} /\ UNCHANGED <<batch, chosen>> /\ mplace'[w] = "finish"
      BY <1>t, <1>10 DEF Revert, Proceed, BatchPart
    <2>2. OthersKept(w) BY <1>t, <1>10 DEF OthersKept, Revert, BackToPending, Proceed
    <2> QED BY <2>1, <2>2, WorkerBatch DEF BatchPart
  <1>11. ASSUME NEW w \in MemoryWorkers, Consolidated(w) PROVE BatchPart'
    <2>1. batch[w] = {} /\ UNCHANGED <<batch, chosen>> /\ mplace'[w] = "finish"
      BY <1>t, <1>11 DEF Consolidated, Proceed, BatchPart
    <2>2. OthersKept(w) BY <1>t, <1>11 DEF OthersKept, Consolidated, Proceed
    <2> QED BY <2>1, <2>2, WorkerBatch DEF BatchPart
  <1>12. ASSUME NEW w \in MemoryWorkers, ResetBatch(w) PROVE BatchPart'
    <2>1. /\ batch' \in [MemoryWorkers -> SUBSET MemoryRuns] /\ batch'[w] = {}
          /\ chosen' \in [MemoryWorkers -> SUBSET MemoryRuns] /\ chosen'[w] = {}
          /\ mplace'[w] = "fail"
      BY <1>t, <1>12 DEF ResetBatch, Proceed, BatchPart
    <2>2. OthersKept(w) BY <1>t, <1>12 DEF OthersKept, ResetBatch, BackToPending, Proceed, BatchPart
    <2> QED BY <2>1, <2>2, WorkerBatch
  <1>13. ASSUME NEW w \in MemoryWorkers, MemoryCrash(w) PROVE BatchPart'
    <2>1. /\ batch' \in [MemoryWorkers -> SUBSET MemoryRuns] /\ batch'[w] = {}
          /\ chosen' \in [MemoryWorkers -> SUBSET MemoryRuns] /\ chosen'[w] = {}
          /\ mplace'[w] = "idle"
      BY <1>t, <1>13 DEF MemoryCrash, Proceed, BatchPart
    <2>2. OthersKept(w) BY <1>t, <1>13 DEF OthersKept, MemoryCrash, Proceed, BatchPart
    <2> QED BY <2>1, <2>2, WorkerBatch
  <1> HIDE DEF MemInv
  <1> QED
    BY MemoryNextIs, <1>1, <1>2, <1>3, <1>4, <1>5, <1>6, <1>7, <1>8, <1>9, <1>10, <1>11, <1>12, <1>13
       DEF MemoryStep

-----------------------------------------------------------------------------
(* The profile and its copies. *)

ProfileVars == <<mplace, profile, copy, userCopy, userTarget, chosen>>

\* The copies of the other workers stay, and this one's may be written.
LEMMA WorkerCopy ==
  ASSUME ProfilePart, NEW w \in MemoryWorkers, NEW c \in Preferences,
         \A r \in MemoryRuns : c[r] <= 1,
         copy' = [copy EXCEPT ![w] = c],
         mplace'[w] = "write" => \A r \in chosen'[w] : c[r] = 0,
         \A v \in MemoryWorkers \ {w} : mplace'[v] = mplace[v] /\ chosen'[v] = chosen[v],
         UNCHANGED userVars,
         profile' \in Preferences, \A r \in MemoryRuns : profile'[r] <= 1
  PROVE  ProfilePart'
  <1>1. copy' \in [MemoryWorkers -> Preferences] BY DEF ProfilePart
  <1>2. \A r \in MemoryRuns : userCopy'[r] <= 1 BY DEF ProfilePart, userVars
  <1>3. ASSUME NEW v \in MemoryWorkers
        PROVE  /\ \A r \in MemoryRuns : copy'[v][r] <= 1
               /\ mplace'[v] = "write" => \A r \in chosen'[v] : copy'[v][r] = 0
    <2>1. CASE v = w BY <2>1 DEF ProfilePart
    <2>2. CASE v # w BY <2>2 DEF ProfilePart
    <2> QED BY <2>1, <2>2
  <1> QED BY <1>1, <1>2, <1>3 DEF ProfilePart, userVars

LEMMA EmptyCopy == Nothing \in Preferences /\ \A r \in MemoryRuns : Nothing[r] <= 1
  BY DEF Nothing, Preferences

LEMMA ProfileEvolves ==
  ASSUME MemInv, MemoryNext PROVE ProfilePart'
  <1> USE DEF MemInv, profileVars, userVars, mworkerVars
  <1>t. /\ mplace \in [MemoryWorkers -> {"idle", "leased", "candidate", "pick", "claim", "revert",
                                        "batch", "write", "promote", "finish", "fail"}]
        /\ chosen \in [MemoryWorkers -> SUBSET MemoryRuns]
    BY DEF TurnPart, BatchPart
  <1>p. profile \in Preferences /\ \A r \in MemoryRuns : profile[r] <= 1 BY DEF ProfilePart
  <1>w. ASSUME NEW w \in MemoryWorkers
        PROVE  /\ copy[w] \in Preferences /\ \A r \in MemoryRuns : copy[w][r] <= 1
               /\ copy = [copy EXCEPT ![w] = copy[w]]
    BY DEF ProfilePart
  <1>0. ASSUME UNCHANGED ProfileVars PROVE ProfilePart' BY <1>0 DEF ProfileVars, ProfilePart
  <1>1. ASSUME NEW r \in MemoryRuns,
               \/ \E end \in {"natural", "waiting", "other"} : EndTurn(r, end)
               \/ TurnResumed(r) \/ ResolveConflict(r, "pending") \/ ResolveConflict(r, "ignored")
        PROVE  ProfilePart'
    BY <1>0, <1>1 DEF EndTurn, TurnResumed, ResolveConflict, ProfileVars
  <1>2. ASSUME NEW r \in MemoryRuns, UserReads(r) PROVE ProfilePart'
    BY <1>2 DEF UserReads, ProfilePart
  <1>3. ASSUME NEW r \in MemoryRuns, UserDeletes(r) PROVE ProfilePart'
    <2>1. profile' = [userCopy EXCEPT ![r] = 0] /\ userCopy' = Nothing /\ userTarget' = {}
          /\ UNCHANGED <<mplace, copy, chosen>>
      BY <1>3 DEF UserDeletes
    <2>2. profile' \in Preferences /\ \A c \in MemoryRuns : profile'[c] <= 1
      BY <2>1 DEF ProfilePart, Preferences
    <2> QED BY <2>1, <2>2, EmptyCopy DEF ProfilePart
  <1>4. ASSUME NEW w \in MemoryWorkers, NEW r \in MemoryRuns,
               \/ Discarded(w, r) \/ FinishMemory(w, r) \/ FailMemory(w, r) \/ RecordEvent(w, r)
               \/ RecordCandidate(w, r) \/ LeaseMemory(w, r)
        PROVE  ProfilePart'
    <2>1. /\ mplace'[w] # "write" /\ UNCHANGED <<chosen, copy, userCopy, userTarget, profile>>
          /\ \A v \in MemoryWorkers \ {w} : mplace'[v] = mplace[v]
      BY <1>t, <1>4 DEF Proceed, Discarded, FinishMemory, FailMemory, RecordEvent, RecordCandidate,
                        LeaseMemory
    <2> QED BY <2>1 DEF ProfilePart
  <1>5. ASSUME NEW w \in MemoryWorkers, NEW r \in MemoryRuns,
               Decline(w, r, "ignored") \/ Decline(w, r, "conflict")
        PROVE  ProfilePart'
    BY <1>0, <1>5 DEF Decline, ProfileVars
  <1>6. ASSUME NEW w \in MemoryWorkers, NEW r \in MemoryRuns, ReadProfile(w, r) PROVE ProfilePart'
    <2>1. /\ chosen' = [chosen EXCEPT ![w] = {r}]
          /\ UNCHANGED <<userCopy, userTarget, profile>>
          /\ \A v \in MemoryWorkers \ {w} : mplace'[v] = mplace[v] /\ chosen'[v] = chosen[v]
      BY <1>t, <1>6 DEF ReadProfile, Proceed
    <2>2. CASE AlreadyAdded(r)
      <3>1. copy' = [copy EXCEPT ![w] = copy[w]] /\ mplace'[w] = "promote"
        BY <1>t, <1>6, <2>2 DEF ReadProfile, Proceed
      <3> QED BY <1>w, <1>p, <2>1, <3>1, WorkerCopy
    <2>3. CASE ~AlreadyAdded(r)
      <3>1. copy' = [copy EXCEPT ![w] = profile] BY <1>6, <2>3 DEF ReadProfile
      <3>2. profile[r] = 0 BY <2>3, <1>p DEF AlreadyAdded, Preferences
      <3>3. \A c \in chosen'[w] : profile[c] = 0 BY <1>t, <2>1, <3>2
      <3> QED BY <1>p, <2>1, <3>1, <3>3, WorkerCopy
    <2> QED BY <2>2, <2>3
  <1>7. ASSUME NEW w \in MemoryWorkers, NEW r \in MemoryRuns, WriteProfile(w, r) PROVE ProfilePart'
    <2>1. copy[w][r] = 0 /\ r \in MemoryRuns BY <1>7 DEF WriteProfile, ProfilePart
    <2>2. /\ profile' = [copy[w] EXCEPT ![r] = IF @ < 2 THEN @ + 1 ELSE @]
          /\ copy' = [copy EXCEPT ![w] = Nothing] /\ mplace' = [mplace EXCEPT ![w] = "promote"]
          /\ UNCHANGED <<chosen, userCopy, userTarget>>
      BY <1>7 DEF WriteProfile, Proceed
    <2>3. profile' \in Preferences /\ \A c \in MemoryRuns : profile'[c] <= 1
      BY <1>w, <2>1, <2>2 DEF Preferences
    <2> QED BY <1>t, <2>2, <2>3, EmptyCopy, WorkerCopy
  <1>8. ASSUME NEW w \in MemoryWorkers, NEW r \in MemoryRuns, Promote(w, r) PROVE ProfilePart'
    <2>1. /\ mplace'[w] # "write" /\ UNCHANGED <<copy, userCopy, userTarget, profile>>
          /\ \A v \in MemoryWorkers \ {w} : mplace'[v] = mplace[v] /\ chosen'[v] = chosen[v]
      BY <1>t, <1>8 DEF Proceed, Promote
    <2> QED BY <1>w, <1>p, <2>1, WorkerCopy
  <1>9. ASSUME NEW w \in MemoryWorkers, Pick(w) \/ Claim(w) PROVE ProfilePart'
    <2>1. /\ mplace'[w] # "write" /\ UNCHANGED <<copy, userCopy, userTarget, profile>>
          /\ \A v \in MemoryWorkers \ {w} : mplace'[v] = mplace[v] /\ chosen'[v] = chosen[v]
      <3>1. CASE Pick(w) BY <1>t, <3>1 DEF Pick, Proceed
      <3>2. CASE Claim(w) BY <1>t, <3>2 DEF Claim, Proceed
      <3> QED BY <1>9, <3>1, <3>2
    <2> QED BY <1>w, <1>p, <2>1, WorkerCopy
  <1>10. ASSUME NEW w \in MemoryWorkers, Revert(w) \/ Consolidated(w) PROVE ProfilePart'
    <2>1. /\ mplace'[w] # "write" /\ UNCHANGED <<chosen, copy, userCopy, userTarget, profile>>
          /\ \A v \in MemoryWorkers \ {w} : mplace'[v] = mplace[v]
      BY <1>t, <1>10 DEF Proceed, Revert, Consolidated
    <2> QED BY <2>1 DEF ProfilePart
  <1>11. ASSUME NEW w \in MemoryWorkers, ResetBatch(w) \/ MemoryCrash(w) PROVE ProfilePart'
    <2>1. /\ copy' = [copy EXCEPT ![w] = Nothing] /\ mplace'[w] # "write"
          /\ UNCHANGED <<userCopy, userTarget, profile>>
          /\ \A v \in MemoryWorkers \ {w} : mplace'[v] = mplace[v] /\ chosen'[v] = chosen[v]
      BY <1>t, <1>11 DEF Proceed, ResetBatch, MemoryCrash
    <2> QED BY <1>p, <2>1, EmptyCopy, WorkerCopy
  <1> HIDE DEF MemInv
  <1> QED
    BY MemoryNextIs, <1>1, <1>2, <1>3, <1>4, <1>5, <1>6, <1>7, <1>8, <1>9, <1>10, <1>11 DEF MemoryStep

-----------------------------------------------------------------------------
LEMMA MemInvStutters ==
  ASSUME MemInv, UNCHANGED memoryVars PROVE MemInv'
  <1> USE DEF MemInv, memoryVars, runDocVars, candVars, profileVars, mworkerVars, userVars
  <1>1. TurnPart' BY DEF TurnPart
  <1>2. FactPart' BY DEF FactPart
  <1>3. BatchPart' BY DEF BatchPart
  <1>4. ProfilePart' BY DEF ProfilePart
  <1> QED BY <1>1, <1>2, <1>3, <1>4

LEMMA MemInvInvariance == MemorySpec => []MemInv
  <1>1. MemInv /\ [MemoryNext]_memoryVars => MemInv'
    <2> SUFFICES ASSUME MemInv, [MemoryNext]_memoryVars PROVE MemInv' OBVIOUS
    <2>1. CASE MemoryNext
      BY <2>1, TurnsEvolve, FactsEvolve, BatchesEvolve, ProfileEvolves DEF MemInv
    <2>2. CASE UNCHANGED memoryVars BY <2>2, MemInvStutters
    <2> QED BY <2>1, <2>2
  <1> QED BY <1>1, MemInvInit, PTL DEF MemorySpec

\* The documents of the pipeline and the hands of its workers are type-correct
\* through failures, expired leases and crashes.
THEOREM MemoryTypeCorrect == MemorySpec => []MemoryTypeOK
  BY MemInvInvariance, MemInvImplies, PTL

\* processRun keeps one event of a turn, and a candidate, only of a turn that
\* ended naturally, however often the run is leased.
THEOREM OnlyCompletedTurnsRemembered == MemorySpec => []MemoryOfCompletedTurns
  BY MemInvInvariance, MemInvImplies, PTL

\* claimPreferenceBatch gives no candidate to two workers, and addPreference
\* adds it once, however its consolidation is repeated.
THEOREM CandidatesDecidedOnce == MemorySpec => []DecidedOnce
  BY MemInvInvariance, MemInvImplies, PTL

(***************************************************************************)
(* Proofs about the message queue: it is type-correct, a row is taken off  *)
(* the queue only when its message is in the transcript, an update of the  *)
(* Team is settled only when its row exists, and an acknowledged row never *)
(* changes again.  The invariant ties the state of the collections to what *)
(* executors and deliverers remember of them between two calls.            *)
(***************************************************************************)

Steps     == {"idle", "lookup", "target", "release", "active", "insert", "create", "bind",
              "bindNew", "resume", "settle"}
Chosen    == {"target", "release", "resume", "bind", "bindNew"}
Receipted == {"target", "release", "resume", "create", "bind", "bindNew", "settle"}

\* The rows: consumed with the transcript, bound while claimed or consumed.
RowPart ==
    /\ rowStatus \in [Messages -> {"absent", "pending", "claimed", "acknowledged", "removed"}]
    /\ rowTarget \in [Messages -> Runs \cup {NoRun}]
    /\ rowClaim \in [Messages -> Executors \cup {NoOne}]
    /\ \A m \in Messages : rowClaim[m] # NoOne <=> rowStatus[m] = "claimed"
    /\ \A m \in Messages :
          /\ rowStatus[m] \in {"acknowledged", "removed"} => m \in transcript
          /\ rowStatus[m] \in {"claimed", "acknowledged"} => rowTarget[m] \in Runs
          /\ rowStatus[m] = "absent" => rowTarget[m] = NoRun

RunPart ==
    /\ runStatus \in [Runs -> {"none", "over"} \cup Active]
    /\ holder \in [Runs -> Executors \cup {NoOne}]
    /\ \A r \in Runs : holder[r] # NoOne <=> runStatus[r] = "running"
    /\ owedRelease \subseteq Runs
    /\ losses \in 0..MaxLosses

\* An executor serves a run, and knows and acknowledges what is durable.
ExecutorPart ==
    /\ transcript \subseteq Messages
    /\ phase \in [Executors -> {"idle", "claiming", "working"}]
    /\ serves \in [Executors -> Runs \cup {NoRun}]
    /\ known \in [Executors -> SUBSET Messages]
    /\ fresh \in [Executors -> SUBSET Messages]
    /\ toAck \in [Executors -> SUBSET Messages]
    /\ \A e \in Executors : /\ phase[e] # "idle" => serves[e] \in Runs
                            /\ known[e] \subseteq transcript
                            /\ toAck[e] \subseteq transcript

DeliveryType ==
    /\ checked \in [UserMessages -> Runs \cup {NoRun}]
    /\ mail \in [Updates -> {"pending", "acknowledged"} \cup Deliverers]
    /\ step \in [Deliverers -> Steps]
    /\ heldMail \in [Deliverers -> Updates \cup {NoOne}]
    /\ choice \in [Deliverers -> Runs \cup {NoRun}]

\* A deliverer that has an update has its receipt once it has looked it up or
\* inserted it, and a run of its choice when it is about to bind one.
DeliveryPart ==
    /\ DeliveryType
    /\ \A d \in Deliverers :
          /\ step[d] # "idle" => heldMail[d] \in Updates
          /\ step[d] \in Chosen => choice[d] \in Runs
          /\ step[d] \in Receipted => rowStatus[heldMail[d]] # "absent"
    /\ \A u \in Updates : mail[u] = "acknowledged" => rowStatus[u] # "absent"

QInv == RowPart /\ RunPart /\ ExecutorPart /\ DeliveryPart

\* The invariant contains the type invariant and what is accounted for.
LEMMA QInvImplies == QInv => QueueTypeOK /\ InputAccounted
  <1>1. QInv => QueueTypeOK
    BY DEF QInv, RowPart, RunPart, ExecutorPart, DeliveryPart, DeliveryType, Steps, QueueTypeOK
  <1>2. QInv => InputAccounted
    BY DEF QInv, RowPart, DeliveryPart, InputAccounted, InputDurable, SettledHasReceipt
  <1> QED BY <1>1, <1>2

LEMMA QInvInit == QueueInit => QInv
  <1> SUFFICES ASSUME QueueInit PROVE QInv OBVIOUS
  <1> USE QueueAssumption DEF QueueInit
  <1>1. RowPart BY DEF RowPart
  <1>2. RunPart BY DEF RunPart, Active
  <1>3. ExecutorPart BY DEF ExecutorPart
  <1>4. DeliveryPart BY DEF DeliveryPart, DeliveryType, Steps, Chosen, Receipted
  <1> QED BY <1>1, <1>2, <1>3, <1>4 DEF QInv

-----------------------------------------------------------------------------
(* Which steps touch which part. *)

RowStep ==
    \/ \E r \in Runs : ReleaseRows(r) \/ RepairReceipts(r)
    \/ \E e \in Executors, m \in Messages : ClaimRow(e, m) \/ AckRow(e, m)
    \/ \E m \in Messages : ReleaseStaleClaim(m)
    \/ \E u \in UserMessages : InterruptEnqueue(u)
    \/ \E d \in Deliverers : KeepForLater(d) \/ ReleaseTarget(d) \/ Insert(d) \/ Bind(d)

LEMMA RowsMove ==
  ASSUME QueueNext PROVE RowStep \/ UNCHANGED rowVars
  <1>1. ASSUME NEW r \in Runs, RunStep(r) PROVE RowStep \/ UNCHANGED rowVars
    BY <1>1 DEF RunStep, RowStep, UserTurn, ResumeRun, StopInactive, ExpireLease, ReleaseLost
  <1>2. ASSUME NEW e \in Executors, ExecutorStep(e) PROVE RowStep \/ UNCHANGED rowVars
    BY <1>2 DEF ExecutorStep, RowStep, Start, Flush, NextRound, Pause, EndRun, Detach, Crash
  <1>3. ASSUME NEW d \in Deliverers, DeliveryStep(d) PROVE RowStep \/ UNCHANGED rowVars
    BY <1>3 DEF DeliveryStep, RowStep, ClaimMail, Lookup, ReadTarget, ResumeChosen, ReadActive,
                CreateDeliveryRun, SettleMail, DropDelivery
  <1>4. ASSUME NEW u \in Updates, LapseMail(u) PROVE UNCHANGED rowVars
    BY <1>4 DEF LapseMail
  <1>5. ASSUME NEW u \in UserMessages, NEW r \in Runs, InterruptCheck(u, r) PROVE UNCHANGED rowVars
    BY <1>5 DEF InterruptCheck
  <1> QED BY <1>1, <1>2, <1>3, <1>4, <1>5 DEF QueueNext, RowStep

LEMMA TranscriptGrows ==
  ASSUME QueueNext PROVE transcript \subseteq transcript'
  <1>1. ASSUME NEW r \in Runs, RunStep(r) PROVE transcript \subseteq transcript'
    BY <1>1 DEF RunStep, UserTurn, ResumeRun, StopInactive, ExpireLease, ReleaseRows, ReleaseLost,
                RepairReceipts
  <1>2. ASSUME NEW e \in Executors, ExecutorStep(e) PROVE transcript \subseteq transcript'
    BY <1>2 DEF ExecutorStep, Start, ClaimRow, AckRow, Flush, NextRound, Pause, EndRun, Detach, Crash
  <1>3. ASSUME NEW d \in Deliverers, DeliveryStep(d) PROVE transcript \subseteq transcript'
    BY <1>3 DEF DeliveryStep, ClaimMail, KeepForLater, Lookup, ReadTarget, ResumeChosen,
                ReleaseTarget, ReadActive, Insert, CreateDeliveryRun, Bind, SettleMail,
                DropDelivery, queueOnly
  <1> QED BY <1>1, <1>2, <1>3 DEF QueueNext, LapseMail, ReleaseStaleClaim, InterruptEnqueue, InterruptCheck

-----------------------------------------------------------------------------
(* The rows. *)

\* A row that exists stays, and a receipt stays as it is.
RowsKept ==
    \A m \in Messages :
       /\ rowStatus[m] # "absent" => rowStatus'[m] # "absent"
       /\ rowStatus[m] = "acknowledged" =>
             rowStatus'[m] = "acknowledged" /\ rowTarget'[m] = rowTarget[m]

LEMMA EnqueueKeeps ==
  ASSUME RowPart, transcript \subseteq transcript', NEW m \in Messages, NEW r \in Runs \cup {NoRun},
         Enqueue(m, r)
  PROVE  RowPart' /\ RowsKept /\ rowStatus'[m] # "absent"
  BY DEF RowPart, RowsKept, Enqueue

LEMMA UntargetKeeps ==
  ASSUME RowPart, transcript \subseteq transcript', NEW M \in SUBSET Messages,
         \A m \in M : rowStatus[m] \in Open, Untarget(M)
  PROVE  RowPart' /\ RowsKept
  BY DEF RowPart, RowsKept, Untarget, Open

LEMMA RowsEvolve ==
  ASSUME QInv, QueueNext PROVE RowPart' /\ RowsKept
  <1> USE DEF QInv
  <1>g. transcript \subseteq transcript' BY TranscriptGrows
  <1>0. ASSUME UNCHANGED rowVars PROVE RowPart' /\ RowsKept
    BY <1>g, <1>0 DEF RowPart, RowsKept, rowVars
  <1>1. ASSUME NEW r \in Runs, ReleaseRows(r) PROVE RowPart' /\ RowsKept
    BY <1>g, <1>1, UntargetKeeps DEF ReleaseRows, ReleasableOf
  <1>2. ASSUME NEW r \in Runs, RepairReceipts(r) PROVE RowPart' /\ RowsKept
    <2>1. Repairable(r) \in SUBSET Messages /\ \A m \in Repairable(r) : rowStatus[m] \in Open
      BY DEF Repairable, Messages
    <2> QED BY <1>g, <1>2, <2>1, UntargetKeeps DEF RepairReceipts
  <1>3. ASSUME NEW e \in Executors, NEW m \in Messages, ClaimRow(e, m) PROVE RowPart' /\ RowsKept
    <2>1. serves[e] \in Runs BY <1>3 DEF ClaimRow, ExecutorPart
    <2> QED BY <1>g, <1>3, <2>1, QueueAssumption DEF ClaimRow, Claimable, RowPart, RowsKept
  <1>4. ASSUME NEW e \in Executors, NEW m \in Messages, AckRow(e, m) PROVE RowPart' /\ RowsKept
    <2>1. m \in transcript BY <1>4 DEF AckRow, ExecutorPart
    <2>2. CASE Owned(e, m)
      BY <1>g, <1>4, <2>1, <2>2 DEF AckRow, Owned, RowPart, RowsKept
    <2>3. CASE ~Owned(e, m)
      BY <1>0, <1>4, <2>3 DEF AckRow, rowVars
    <2> QED BY <2>2, <2>3
  <1>5. ASSUME NEW m \in Messages, ReleaseStaleClaim(m) PROVE RowPart' /\ RowsKept
    BY <1>g, <1>5 DEF ReleaseStaleClaim, RowPart, RowsKept
  <1>6. ASSUME NEW u \in UserMessages, InterruptEnqueue(u) PROVE RowPart' /\ RowsKept
    <2>1. checked[u] \in Runs \cup {NoRun} BY DEF DeliveryPart, DeliveryType
    <2> QED BY <1>g, <1>6, <2>1, EnqueueKeeps DEF InterruptEnqueue, Messages
  <1>7. ASSUME NEW d \in Deliverers, KeepForLater(d) PROVE RowPart' /\ RowsKept
    <2>1. heldMail[d] \in Updates BY <1>7 DEF KeepForLater, DeliveryPart
    <2> QED BY <1>g, <1>7, <2>1, EnqueueKeeps DEF KeepForLater, Messages
  <1>8. ASSUME NEW d \in Deliverers, ReleaseTarget(d) PROVE RowPart' /\ RowsKept
    BY <1>g, <1>8, UntargetKeeps DEF ReleaseTarget, ReleasableOf
  <1>9. ASSUME NEW d \in Deliverers, Insert(d) PROVE RowPart' /\ RowsKept
    <2>1. heldMail[d] \in Updates /\ choice[d] \in Runs \cup {NoRun}
      BY <1>9 DEF Insert, DeliveryPart, DeliveryType
    <2> QED BY <1>g, <1>9, <2>1, EnqueueKeeps DEF Insert, Messages
  <1>10. ASSUME NEW d \in Deliverers, Bind(d) PROVE RowPart' /\ RowsKept
    <2>1. heldMail[d] \in Messages /\ choice[d] \in Runs
      BY <1>10 DEF Bind, DeliveryPart, Chosen, Messages
    <2> QED BY <1>g, <1>10, <2>1, QueueAssumption DEF Bind, Bindable, RowPart, RowsKept, Runs
  <1> QED BY <1>0, <1>1, <1>2, <1>3, <1>4, <1>5, <1>6, <1>7, <1>8, <1>9, <1>10, RowsMove DEF RowStep

-----------------------------------------------------------------------------
(* The runs. *)

LEMMA CreateKeeps ==
  ASSUME RunPart, NEW r \in Runs, Create(r) PROVE runStatus' \in [Runs -> {"none", "over"} \cup Active]
         /\ holder' = holder /\ \A q \in Runs : holder'[q] # NoOne <=> runStatus'[q] = "running"
  BY DEF RunPart, Create, NextRun, Active

LEMMA RequeueKeeps ==
  ASSUME RunPart, NEW r \in Runs, Requeued(r) PROVE runStatus' \in [Runs -> {"none", "over"} \cup Active]
         /\ holder' = holder /\ \A q \in Runs : holder'[q] # NoOne <=> runStatus'[q] = "running"
  BY DEF RunPart, Requeued, Active

LEMMA RunsEvolve ==
  ASSUME QInv, QueueNext PROVE RunPart'
  <1> USE QueueAssumption DEF QInv
  <1>1. ASSUME NEW r \in Runs, RunStep(r) PROVE RunPart'
    <2>1. CASE UserTurn(r) BY <2>1, CreateKeeps DEF UserTurn, RunPart
    <2>2. CASE ResumeRun(r) BY <2>2, RequeueKeeps DEF ResumeRun, RunPart
    <2>3. CASE StopInactive(r) BY <2>3 DEF StopInactive, RunPart
    <2>4. CASE ExpireLease(r) BY <2>4 DEF ExpireLease, Lose, RunPart, Active
    <2>5. CASE ReleaseRows(r) BY <2>5 DEF ReleaseRows, RunPart, runVars
    <2>6. CASE ReleaseLost(r) BY <2>6 DEF ReleaseLost, RunPart, runVars
    <2>7. CASE RepairReceipts(r) BY <2>7 DEF RepairReceipts, RunPart, runVars
    <2> QED BY <1>1, <2>1, <2>2, <2>3, <2>4, <2>5, <2>6, <2>7 DEF RunStep
  <1>2. ASSUME NEW e \in Executors, ExecutorStep(e) PROVE RunPart'
    <2>0. phase[e] # "idle" => serves[e] \in Runs BY DEF ExecutorPart
    <2>1. ASSUME NEW r \in Runs, Start(e, r) PROVE RunPart'
      BY <2>1 DEF Start, RunPart, Active
    <2>2. ASSUME NEW m \in Messages, ClaimRow(e, m) \/ AckRow(e, m) PROVE RunPart'
      BY <2>2 DEF ClaimRow, AckRow, RunPart, runVars
    <2>3. CASE Flush(e) \/ NextRound(e) BY <2>3 DEF Flush, NextRound, RunPart, runVars
    <2>4. ASSUME NEW s \in {"asking", "parked"}, Pause(e, s) PROVE RunPart'
      BY <2>0, <2>4 DEF Pause, RunPart, Active
    <2>5. CASE EndRun(e) BY <2>0, <2>5 DEF EndRun, RunPart, runVars
    <2>6. CASE Detach(e) \/ Crash(e) BY <2>6 DEF Detach, Crash, RunPart, runVars
    <2> QED BY <1>2, <2>1, <2>2, <2>3, <2>4, <2>5, <2>6 DEF ExecutorStep
  <1>3. ASSUME NEW d \in Deliverers, DeliveryStep(d) PROVE RunPart'
    <2>1. CASE ResumeChosen(d)
      <3>1. choice[d] \in Runs BY <2>1 DEF ResumeChosen, DeliveryPart, Chosen
      <3> QED BY <2>1, <3>1, RequeueKeeps DEF ResumeChosen, RunPart
    <2>2. CASE CreateDeliveryRun(d)
      BY <2>2, CreateKeeps DEF CreateDeliveryRun, RunPart, runVars
    <2>3. CASE DropDelivery(d) BY <2>3 DEF DropDelivery, RunPart, runVars
    <2>4. CASE Lookup(d) \/ ReadTarget(d)
      BY <2>4, Zenon DEF Lookup, ReadTarget, RunPart, queueOnly, runVars
    <2>5. CASE \/ \E u \in Updates : ClaimMail(d, u)
               \/ KeepForLater(d) \/ ReleaseTarget(d) \/ ReadActive(d) \/ Insert(d) \/ Bind(d)
               \/ SettleMail(d)
      BY <2>5 DEF ClaimMail, KeepForLater, ReleaseTarget, ReadActive, Insert, Bind,
                  SettleMail, RunPart, queueOnly, runVars
    <2> QED BY <1>3, <2>1, <2>2, <2>3, <2>4, <2>5 DEF DeliveryStep
  <1>4. ASSUME NEW u \in Updates, LapseMail(u) PROVE RunPart'
    BY <1>4 DEF LapseMail, RunPart, runVars
  <1>5. ASSUME NEW m \in Messages, ReleaseStaleClaim(m) PROVE RunPart'
    BY <1>5 DEF ReleaseStaleClaim, Lose, RunPart, runVars
  <1>6. ASSUME NEW u \in UserMessages, InterruptEnqueue(u) \/ \E r \in Runs : InterruptCheck(u, r)
        PROVE  RunPart'
    BY <1>6 DEF InterruptEnqueue, InterruptCheck, RunPart, runVars
  <1> QED BY <1>1, <1>2, <1>3, <1>4, <1>5, <1>6 DEF QueueNext

-----------------------------------------------------------------------------
(* The executors. *)

LEMMA LeaveKeeps ==
  ASSUME ExecutorPart, NEW e \in Executors, Leave(e), UNCHANGED transcript PROVE ExecutorPart'
  BY DEF ExecutorPart, Leave

LEMMA ExecutorsEvolve ==
  ASSUME QInv, QueueNext PROVE ExecutorPart'
  <1> USE DEF QInv
  <1>0. ASSUME UNCHANGED <<transcript, execVars>> PROVE ExecutorPart'
    BY <1>0 DEF ExecutorPart, execVars
  <1>1. ASSUME NEW r \in Runs, RunStep(r) PROVE ExecutorPart'
    <2>1. UNCHANGED <<transcript, execVars>>
      BY <1>1 DEF RunStep, UserTurn, ResumeRun, StopInactive, ExpireLease, ReleaseRows,
                  ReleaseLost, RepairReceipts
    <2> QED BY <1>0, <2>1
  <1>2. ASSUME NEW e \in Executors, ExecutorStep(e) PROVE ExecutorPart'
    <2>1. ASSUME NEW r \in Runs, Start(e, r) PROVE ExecutorPart'
      BY <2>1 DEF Start, ExecutorPart
    <2>2. ASSUME NEW m \in Messages, ClaimRow(e, m) PROVE ExecutorPart'
      BY <2>2 DEF ClaimRow, ExecutorPart
    <2>3. ASSUME NEW m \in Messages, AckRow(e, m) PROVE ExecutorPart'
      BY <2>3 DEF AckRow, ExecutorPart
    <2>4. CASE Flush(e) BY <2>4 DEF Flush, ExecutorPart
    <2>5. CASE NextRound(e) BY <2>5 DEF NextRound, ExecutorPart
    <2>6. CASE \/ \E s \in {"asking", "parked"} : Pause(e, s)
               \/ EndRun(e) \/ Detach(e) \/ Crash(e)
      BY <2>6, LeaveKeeps DEF Pause, EndRun, Detach, Crash
    <2> QED BY <1>2, <2>1, <2>2, <2>3, <2>4, <2>5, <2>6 DEF ExecutorStep
  <1>3. ASSUME NEW d \in Deliverers, DeliveryStep(d) PROVE ExecutorPart'
    <2>1. CASE Lookup(d) \/ ReadTarget(d) BY <1>0, <2>1, Zenon DEF Lookup, ReadTarget, queueOnly
    <2>2. CASE ~(Lookup(d) \/ ReadTarget(d))
      <3>1. UNCHANGED <<transcript, execVars>>
        BY <1>3, <2>2 DEF DeliveryStep, ClaimMail, KeepForLater, ResumeChosen, ReleaseTarget,
                    ReadActive, Insert, CreateDeliveryRun, Bind, SettleMail, DropDelivery, queueOnly
      <3> QED BY <1>0, <3>1
    <2> QED BY <2>1, <2>2
  <1>4. ASSUME \/ \E u \in Updates : LapseMail(u)
               \/ \E m \in Messages : ReleaseStaleClaim(m)
               \/ \E u \in UserMessages : InterruptEnqueue(u) \/ \E r \in Runs : InterruptCheck(u, r)
        PROVE  ExecutorPart'
    BY <1>0, <1>4 DEF LapseMail, ReleaseStaleClaim, InterruptEnqueue, InterruptCheck
  <1> QED BY <1>1, <1>2, <1>3, <1>4 DEF QueueNext

-----------------------------------------------------------------------------
(* The mailbox and its deliverers. *)

\* While the others move, what a deliverer remembers stays true.
LEMMA DeliveryStays ==
  ASSUME QInv, RowsKept, UNCHANGED deliveryVars,
         checked' \in [UserMessages -> Runs \cup {NoRun}]
  PROVE  DeliveryPart'
  <1> USE DEF QInv
  <1>1. DeliveryType' BY DEF DeliveryPart, DeliveryType, deliveryVars
  <1>2. ASSUME NEW d \in Deliverers
        PROVE  /\ step'[d] # "idle" => heldMail'[d] \in Updates
               /\ step'[d] \in Chosen => choice'[d] \in Runs
               /\ step'[d] \in Receipted => rowStatus'[heldMail'[d]] # "absent"
    BY DEF DeliveryPart, RowsKept, deliveryVars, Receipted, Messages
  <1>3. ASSUME NEW u \in Updates, mail'[u] = "acknowledged" PROVE rowStatus'[u] # "absent"
    BY <1>3 DEF DeliveryPart, RowsKept, deliveryVars, Messages
  <1> QED BY <1>1, <1>2, <1>3 DEF DeliveryPart

\* A deliverer that takes a step leaves those of the others as they were.
LEMMA DelivererActs ==
  ASSUME QInv, RowsKept, NEW d \in Deliverers, UNCHANGED checked,
         NEW s \in Steps, NEW h \in Updates \cup {NoOne}, NEW c \in Runs \cup {NoRun},
         step' = [step EXCEPT ![d] = s],
         heldMail' = [heldMail EXCEPT ![d] = h],
         choice' = [choice EXCEPT ![d] = c],
         mail' \in [Updates -> {"pending", "acknowledged"} \cup Deliverers],
         s # "idle" => h \in Updates,
         s \in Chosen => c \in Runs,
         s \in Receipted => rowStatus'[h] # "absent",
         \A u \in Updates : mail'[u] = "acknowledged" =>
            mail[u] = "acknowledged" \/ rowStatus'[u] # "absent"
  PROVE  DeliveryPart'
  <1> USE DEF QInv
  <1>1. DeliveryType' BY DEF DeliveryPart, DeliveryType
  <1>2. ASSUME NEW q \in Deliverers
        PROVE  /\ step'[q] # "idle" => heldMail'[q] \in Updates
               /\ step'[q] \in Chosen => choice'[q] \in Runs
               /\ step'[q] \in Receipted => rowStatus'[heldMail'[q]] # "absent"
    <2>1. CASE q = d BY <2>1 DEF DeliveryPart, DeliveryType
    <2>2. CASE q # d BY <2>2 DEF DeliveryPart, DeliveryType, RowsKept, Receipted, Messages
    <2> QED BY <2>1, <2>2
  <1>3. ASSUME NEW u \in Updates, mail'[u] = "acknowledged" PROVE rowStatus'[u] # "absent"
    BY <1>3 DEF DeliveryPart, RowsKept, Messages
  <1> QED BY <1>1, <1>2, <1>3 DEF DeliveryPart

LEMMA LookupOutcome ==
  ASSUME NEW d \in Deliverers, Lookup(d)
  PROVE  \E s \in {"settle", "target", "active"} :
            /\ GoTo(d, s)
            /\ s = "settle" => rowStatus[heldMail[d]] = "acknowledged"
            /\ s = "target" => rowTarget[heldMail[d]] # NoRun
  BY DEF Lookup

LEMMA ReadTargetOutcome ==
  ASSUME NEW d \in Deliverers, ReadTarget(d)
  PROVE  \E s \in {"resume", "settle", "release"} : GoTo(d, s)
  BY DEF ReadTarget

\* The mailbox after a claim is settled, released or left.
LEMMA MailMoves ==
  ASSUME QInv, NEW d \in Deliverers, heldMail[d] \in Updates,
         NEW outcome \in {"pending", "acknowledged"}, MailAfter(d, outcome)
  PROVE  /\ mail' \in [Updates -> {"pending", "acknowledged"} \cup Deliverers]
         /\ \A u \in Updates : mail'[u] = "acknowledged" =>
               mail[u] = "acknowledged" \/ (u = heldMail[d] /\ outcome = "acknowledged")
  BY DEF QInv, DeliveryPart, DeliveryType, MailAfter

\* A step that leaves the held update and the choice as they are.
LEMMA StepMoves ==
  ASSUME QInv, RowsKept, NEW d \in Deliverers, NEW s \in Steps, GoTo(d, s),
         UNCHANGED <<checked, mail, heldMail, choice>>,
         s # "idle" => heldMail[d] \in Updates,
         s \in Chosen => choice[d] \in Runs,
         s \in Receipted => rowStatus'[heldMail[d]] # "absent"
  PROVE  DeliveryPart'
  <1> USE DEF QInv
  <1>1. heldMail[d] \in Updates \cup {NoOne} /\ choice[d] \in Runs \cup {NoRun}
    BY DEF DeliveryPart, DeliveryType
  <1>2. heldMail' = [heldMail EXCEPT ![d] = heldMail[d]] /\ choice' = [choice EXCEPT ![d] = choice[d]]
    BY DEF DeliveryPart, DeliveryType
  <1>3. mail' \in [Updates -> {"pending", "acknowledged"} \cup Deliverers]
        /\ \A u \in Updates : mail'[u] = "acknowledged" => mail[u] = "acknowledged"
    BY DEF DeliveryPart, DeliveryType
  <1>4. step' = [step EXCEPT ![d] = s] BY DEF GoTo
  <1>5. PICK h \in Updates \cup {NoOne} : h = heldMail[d] BY <1>1
  <1>6. PICK c \in Runs \cup {NoRun} : c = choice[d] BY <1>1
  <1>7. heldMail' = [heldMail EXCEPT ![d] = h] /\ choice' = [choice EXCEPT ![d] = c]
    BY <1>2, <1>5, <1>6
  <1>8. /\ s # "idle" => h \in Updates
        /\ s \in Chosen => c \in Runs
        /\ s \in Receipted => rowStatus'[h] # "absent"
    BY <1>5, <1>6
  <1> HIDE DEF QInv
  <1> QED BY <1>3, <1>4, <1>7, <1>8, DelivererActs

LEMMA DeliverersEvolve ==
  ASSUME QInv, QueueNext, NEW d \in Deliverers, DeliveryStep(d) PROVE DeliveryPart'
  <1> USE DEF QInv, queueOnly
  <1>k. RowPart' /\ RowsKept BY RowsEvolve
  <1>h. /\ step[d] # "idle" => heldMail[d] \in Updates
        /\ step[d] \in Chosen => choice[d] \in Runs
        /\ step[d] \in Receipted => rowStatus[heldMail[d]] # "absent"
    BY DEF DeliveryPart
  <1>r. \A u \in Updates : rowStatus[u] # "absent" => rowStatus'[u] # "absent"
    BY <1>k DEF RowsKept, Messages
  <1>c. choice = [choice EXCEPT ![d] = choice[d]] /\ choice[d] \in Runs \cup {NoRun}
    BY DEF DeliveryPart, DeliveryType
  <1>1. ASSUME NEW u \in Updates, ClaimMail(d, u) PROVE DeliveryPart'
    <2>1. mail' \in [Updates -> {"pending", "acknowledged"} \cup Deliverers]
          /\ \A v \in Updates : mail'[v] = "acknowledged" => mail[v] = "acknowledged"
      BY <1>1, QueueAssumption DEF ClaimMail, DeliveryPart, DeliveryType
    <2> QED BY <1>1, <1>k, <1>c, <2>1, DelivererActs DEF ClaimMail, GoTo, Steps, Chosen, Receipted
  <1>2. CASE KeepForLater(d)
    <2>1. heldMail[d] \in Updates BY <1>2, <1>h DEF KeepForLater
    <2>2. mail' \in [Updates -> {"pending", "acknowledged"} \cup Deliverers]
          /\ \A u \in Updates : mail'[u] = "acknowledged" => mail[u] = "acknowledged"
      BY <1>2, <2>1, MailMoves DEF KeepForLater
    <2>3. /\ step' = [step EXCEPT ![d] = "idle"] /\ heldMail' = [heldMail EXCEPT ![d] = NoOne]
          /\ choice' = [choice EXCEPT ![d] = choice[d]] /\ UNCHANGED checked
      BY <1>2, <1>c DEF KeepForLater, GoTo
    <2> QED BY <1>k, <1>c, <2>2, <2>3, DelivererActs DEF Steps, Chosen, Receipted
  <1>3. CASE Lookup(d)
    <2>1. PICK s \in {"settle", "target", "active"} :
             /\ GoTo(d, s)
             /\ s = "settle" => rowStatus[heldMail[d]] = "acknowledged"
             /\ s = "target" => rowTarget[heldMail[d]] # NoRun
      BY <1>3, LookupOutcome
    <2>2. heldMail[d] \in Messages /\ heldMail[d] \in Updates
      BY <1>3, <1>h, Zenon DEF Lookup, Messages
    <2>3. /\ choice' = [choice EXCEPT ![d] = rowTarget[heldMail[d]]]
          /\ UNCHANGED <<rowVars, checked, mail, heldMail>>
      BY <1>3, Zenon DEF Lookup
    <2>4. rowTarget[heldMail[d]] \in Runs \cup {NoRun}
          /\ (rowStatus[heldMail[d]] = "absent" => rowTarget[heldMail[d]] = NoRun)
      BY <2>2 DEF RowPart
    <2>5. mail' \in [Updates -> {"pending", "acknowledged"} \cup Deliverers]
      BY <2>3 DEF DeliveryPart, DeliveryType
    <2>6. s \in Steps /\ (s \in Chosen => s = "target") /\ (s \in Receipted => s \in {"target", "settle"})
      BY <2>1 DEF Steps, Chosen, Receipted
    <2>7. heldMail' = [heldMail EXCEPT ![d] = heldMail[d]]
      BY <2>3 DEF DeliveryPart, DeliveryType
    <2>8. s \in Receipted => rowStatus'[heldMail[d]] # "absent"
      BY <2>1, <2>3, <2>4, <2>6 DEF rowVars
    <2> QED BY <2>1, <2>2, <2>3, <2>4, <2>5, <2>6, <2>7, <2>8, <1>k, DelivererActs DEF GoTo
  <1>4. CASE ReadTarget(d)
    <2>1. PICK s \in {"resume", "settle", "release"} : GoTo(d, s) BY <1>4, ReadTargetOutcome
    <2>2. step[d] = "target" /\ UNCHANGED <<rowVars, checked, mail, heldMail, choice>>
      BY <1>4, Zenon DEF ReadTarget
    <2>3. rowStatus[heldMail[d]] # "absent" /\ heldMail[d] \in Updates /\ choice[d] \in Runs
      BY <2>2, <1>h DEF Chosen, Receipted
    <2> QED BY <2>1, <2>2, <2>3, <1>k, <1>r, StepMoves DEF Steps
  <1>5. CASE ResumeChosen(d)
    BY <1>5, <1>k, <1>h, <1>r, StepMoves DEF ResumeChosen, Steps, Chosen, Receipted
  <1>6. CASE ReleaseTarget(d)
    BY <1>6, <1>k, <1>h, <1>r, StepMoves DEF ReleaseTarget, Steps, Chosen, Receipted
  <1>7. CASE ReadActive(d)
    <2> DEFINE c == IF ActiveRuns = {} THEN NoRun ELSE CHOOSE r \in ActiveRuns : TRUE
    <2>1. c \in Runs \cup {NoRun} BY DEF ActiveRuns
    <2>2. mail' \in [Updates -> {"pending", "acknowledged"} \cup Deliverers]
          /\ heldMail' = [heldMail EXCEPT ![d] = heldMail[d]]
      BY <1>7 DEF ReadActive, DeliveryPart, DeliveryType
    <2>3. choice' = [choice EXCEPT ![d] = c] BY <1>7 DEF ReadActive
    <2>4. step' = [step EXCEPT ![d] = "insert"] /\ UNCHANGED <<checked, mail>> /\ step[d] # "idle"
      BY <1>7 DEF ReadActive, GoTo
    <2> HIDE DEF c
    <2> QED BY <1>k, <1>h, <2>1, <2>2, <2>3, <2>4, DelivererActs DEF Steps, Chosen, Receipted
  <1>8. CASE Insert(d)
    <2>1. heldMail[d] \in Updates /\ heldMail[d] \in Messages BY <1>8, <1>h DEF Insert, Messages
    <2>2. transcript \subseteq transcript' BY TranscriptGrows
    <2>3. rowStatus'[heldMail[d]] # "absent"
      BY <1>8, <1>c, <2>1, <2>2, EnqueueKeeps DEF Insert
    <2> QED BY <1>8, <1>k, <1>c, <2>1, <2>3, StepMoves DEF Insert, Steps, Chosen, Receipted
  <1>9. CASE CreateDeliveryRun(d)
    <2>1. PICK c \in Runs : choice' = [choice EXCEPT ![d] = c]
      BY <1>9 DEF CreateDeliveryRun, ActiveRuns
    <2>2. heldMail[d] \in Updates /\ rowStatus[heldMail[d]] # "absent"
      BY <1>9, <1>h DEF CreateDeliveryRun, Receipted
    <2>3. step' = [step EXCEPT ![d] = "bindNew"] /\ UNCHANGED <<checked, mail, heldMail>>
      BY <1>9 DEF CreateDeliveryRun, GoTo
    <2>4. mail' \in [Updates -> {"pending", "acknowledged"} \cup Deliverers]
          /\ heldMail' = [heldMail EXCEPT ![d] = heldMail[d]]
      BY <2>3 DEF DeliveryPart, DeliveryType
    <2> QED BY <1>k, <1>r, <2>1, <2>2, <2>3, <2>4, DelivererActs DEF Steps
  <1>10. CASE Bind(d)
    <2>1. heldMail[d] \in Updates /\ choice[d] \in Runs /\ rowStatus[heldMail[d]] # "absent"
      BY <1>10, <1>h DEF Bind, Chosen, Receipted
    <2>2. PICK s \in {"resume", "settle"} : GoTo(d, s) BY <1>10 DEF Bind
    <2>3. UNCHANGED <<checked, mail, heldMail, choice>> BY <1>10 DEF Bind
    <2> QED BY <1>k, <1>r, <2>1, <2>2, <2>3, StepMoves DEF Steps
  <1>11. CASE SettleMail(d)
    <2>1. heldMail[d] \in Updates /\ rowStatus[heldMail[d]] # "absent"
      BY <1>11, <1>h DEF SettleMail, Receipted
    <2>2. mail' \in [Updates -> {"pending", "acknowledged"} \cup Deliverers]
          /\ \A u \in Updates : mail'[u] = "acknowledged" => mail[u] = "acknowledged" \/ u = heldMail[d]
      BY <1>11, <2>1, MailMoves DEF SettleMail
    <2> QED BY <1>11, <1>k, <1>r, <2>1, <2>2, DelivererActs DEF SettleMail, GoTo, Steps, Chosen, Receipted
  <1>12. CASE DropDelivery(d)
    <2>1. heldMail[d] \in Updates BY <1>12, <1>h DEF DropDelivery
    <2>2. mail' \in [Updates -> {"pending", "acknowledged"} \cup Deliverers]
          /\ \A u \in Updates : mail'[u] = "acknowledged" => mail[u] = "acknowledged"
      BY <1>12, <2>1, MailMoves DEF DropDelivery
    <2> QED BY <1>12, <1>k, <2>2, DelivererActs DEF DropDelivery, GoTo, Steps, Chosen, Receipted
  <1> QED BY <1>1, <1>2, <1>3, <1>4, <1>5, <1>6, <1>7, <1>8, <1>9, <1>10, <1>11, <1>12 DEF DeliveryStep

LEMMA MailboxEvolves ==
  ASSUME QInv, QueueNext PROVE DeliveryPart'
  <1> USE DEF QInv
  <1>k. RowsKept BY RowsEvolve
  <1>t. checked \in [UserMessages -> Runs \cup {NoRun}] BY DEF DeliveryPart, DeliveryType
  <1>1. ASSUME NEW r \in Runs, RunStep(r) PROVE DeliveryPart'
    <2>1. UNCHANGED <<checked, deliveryVars>>
      BY <1>1 DEF RunStep, UserTurn, ResumeRun, StopInactive, ExpireLease, ReleaseRows, ReleaseLost,
                  RepairReceipts
    <2> QED BY <1>k, <1>t, <2>1, DeliveryStays
  <1>2. ASSUME NEW e \in Executors, ExecutorStep(e) PROVE DeliveryPart'
    <2>1. UNCHANGED <<checked, deliveryVars>>
      BY <1>2 DEF ExecutorStep, Start, ClaimRow, AckRow, Flush, NextRound, Pause, EndRun, Detach, Crash
    <2> QED BY <1>k, <1>t, <2>1, DeliveryStays
  <1>3. ASSUME NEW d \in Deliverers, DeliveryStep(d) PROVE DeliveryPart'
    BY <1>3, DeliverersEvolve
  <1>4. ASSUME NEW u \in Updates, LapseMail(u) PROVE DeliveryPart'
    <2>1. DeliveryType' BY <1>4 DEF LapseMail, DeliveryPart, DeliveryType
    <2> QED BY <1>4, <2>1 DEF LapseMail, DeliveryPart, rowVars
  <1>5. ASSUME NEW m \in Messages, ReleaseStaleClaim(m) PROVE DeliveryPart'
    BY <1>5, <1>k, <1>t, DeliveryStays DEF ReleaseStaleClaim
  <1>6. ASSUME NEW u \in UserMessages, InterruptEnqueue(u) PROVE DeliveryPart'
    BY <1>6, <1>k, <1>t, DeliveryStays DEF InterruptEnqueue
  <1>7. ASSUME NEW u \in UserMessages, NEW r \in Runs, InterruptCheck(u, r) PROVE DeliveryPart'
    BY <1>7, <1>k, <1>t, DeliveryStays DEF InterruptCheck
  <1> QED BY <1>1, <1>2, <1>3, <1>4, <1>5, <1>6, <1>7 DEF QueueNext

-----------------------------------------------------------------------------
LEMMA QInvStutters ==
  ASSUME QInv, UNCHANGED queueVars PROVE QInv'
  <1> USE DEF queueVars, rowVars, runVars, execVars, deliveryVars
  <1>1. RowPart' BY DEF QInv, RowPart
  <1>2. RunPart' BY DEF QInv, RunPart
  <1>3. ExecutorPart' BY DEF QInv, ExecutorPart
  <1>4. DeliveryPart' BY DEF QInv, DeliveryPart, DeliveryType
  <1> QED BY <1>1, <1>2, <1>3, <1>4 DEF QInv

LEMMA QInvInvariance == QueueSpec => []QInv
  <1>1. QInv /\ [QueueNext]_queueVars => QInv'
    <2> SUFFICES ASSUME QInv, [QueueNext]_queueVars PROVE QInv' OBVIOUS
    <2>1. CASE QueueNext
      BY <2>1, RowsEvolve, RunsEvolve, ExecutorsEvolve, MailboxEvolves DEF QInv
    <2>2. CASE UNCHANGED queueVars BY <2>2, QInvStutters
    <2> QED BY <2>1, <2>2
  <1> QED BY <1>1, QInvInit, PTL DEF QueueSpec

\* The queue, its executors and its deliverers are type-correct, whatever is
\* claimed, released or lost in between.
THEOREM QueueTypeCorrect == QueueSpec => []QueueTypeOK
  BY QInvInvariance, QInvImplies, PTL

\* A row is consumed only with its message in the transcript, by whichever
\* executor acknowledges it (acknowledgeDequeuedMessages), and an update is
\* settled in the mailbox only when its row exists (deliverRootMailbox).
THEOREM InputIsAccounted == QueueSpec => []InputAccounted
  BY QInvInvariance, QInvImplies, PTL

\* No release, binding or repair changes a receipt that is acknowledged, or
\* the run it names.
THEOREM ReceiptsAreFinal == QueueSpec => ReceiptFinal
  <1> DEFINE Kept == \A m \in Messages : rowStatus[m] = "acknowledged" =>
                       /\ rowTarget[m] \in Runs
                       /\ rowStatus'[m] = "acknowledged" /\ rowTarget'[m] = rowTarget[m]
  <1>1. QInv /\ [QueueNext]_queueVars => [Kept]_queueVars
    <2> SUFFICES ASSUME QInv, QueueNext PROVE Kept OBVIOUS
    <2>1. RowsKept BY RowsEvolve
    <2> QED BY <2>1 DEF QInv, RowPart, RowsKept
  <1> QED BY <1>1, QInvInvariance, PTL DEF QueueSpec, ReceiptFinal
=============================================================================
