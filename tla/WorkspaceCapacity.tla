-------------------------- MODULE WorkspaceCapacity --------------------------
(***************************************************************************)
(* The file sets of a Team's workspace.  A capacity document, changed only *)
(* by a compare-and-swap of its revision, holds the published paths and    *)
(* the reservations of paths about to be created; the file heads are       *)
(* documents of their own.  A head becomes visible when its path is        *)
(* published.  Writers reserve a set of paths, stage its heads one by one  *)
(* and finalize the set; a set that several writers materialize has one    *)
(* reservation id for all of them.                                         *)
(*                                                                         *)
(* A writer is one execution: once its fence is lost it stays lost.  Every *)
(* creation of a head has contents of its own, so a head is known by its   *)
(* writer.  New paths only: updates of a published path by its revision,   *)
(* access rules, blobs and the registry of canonical artifacts are left    *)
(* out.                                                                    *)
(***************************************************************************)
EXTENDS Integers, FiniteSets

CONSTANTS Writers, NoWriter,
          Paths, SharedPaths,   \* the paths of the set that writers share
          OwnPaths,             \* the paths writers ask for on their own
          SharedSet,            \* its reservation id
          Members,              \* writers of a member's executor
          TeamRoots,            \* writers of Root's executor, under the leases of a Team
          MaxFiles

ASSUME WorkspaceAssumption ==
    /\ SharedPaths \subseteq Paths /\ OwnPaths \subseteq Paths /\ Members \cup TeamRoots \subseteq Writers
    /\ MaxFiles \in Nat /\ NoWriter \notin Writers /\ SharedSet \notin Writers
    /\ IsFiniteSet(Paths)

\* A writer's own reservation has an id that nobody else computes.
SetIds == Writers \cup {SharedSet}

VARIABLES
    published, resStatus, newPaths, \* the WorkspaceCapacity document
    headOf, headSet,                \* the WorkspaceFile documents: writer, reservation id
    fence,                          \* executions whose fence is valid
    wplace, kind, wanted, unwritten, pending, \* a writer's local state
    looked, found, unswapped, goal, \* its capacity transaction
    aged                            \* the shared reservation is older than fileSetStaleMs

capacityVars == <<published, resStatus, newPaths>>
headVars     == <<headOf, headSet>>
writerVars   == <<wplace, kind, wanted, unwritten, pending>>
lookVars     == <<looked, found, unswapped, goal>>
workspaceVars == <<capacityVars, headVars, fence, writerVars, lookVars, aged>>

WorkspaceTypeOK ==
    /\ published \subseteq Paths
    /\ resStatus \in [SetIds -> {"none", "reserved", "finalized", "released"}]
    /\ newPaths \in [SetIds -> SUBSET Paths]
    /\ headOf \in [Paths -> Writers \cup {NoWriter}]
    /\ headSet \in [Paths -> SetIds \cup {NoWriter}]
    /\ fence \subseteq Writers
    /\ wplace \in [Writers -> {"idle", "begin", "wait", "acquired", "stage", "commit", "staged",
                               "read", "swap", "projected", "abort", "discard", "over", "dead"}]
    /\ kind \in [Writers -> {"shared", "batch", "single"}]
    /\ wanted \in [Writers -> SUBSET Paths] /\ unwritten \in [Writers -> SUBSET Paths]
    /\ pending \in [Writers -> SUBSET Paths]
    /\ looked \in [Writers -> SUBSET Paths] /\ found \in [Writers -> SUBSET Paths]
    /\ \A w \in Writers : found[w] \subseteq looked[w] /\ pending[w] \subseteq unwritten[w]
    /\ unswapped \subseteq Writers
    /\ goal \in [Writers -> {"whole", "available", "again", "release"}]
    /\ aged \in BOOLEAN

WorkspaceInit ==
    /\ published = {}
    /\ resStatus = [r \in SetIds |-> "none"] /\ newPaths = [r \in SetIds |-> {}]
    /\ headOf = [p \in Paths |-> NoWriter] /\ headSet = [p \in Paths |-> NoWriter]
    /\ fence = Writers
    /\ wplace = [w \in Writers |-> "idle"] /\ kind = [w \in Writers |-> "shared"]
    /\ wanted = [w \in Writers |-> {}] /\ unwritten = [w \in Writers |-> {}]
    /\ pending = [w \in Writers |-> {}]
    /\ looked = [w \in Writers |-> {}] /\ found = [w \in Writers |-> {}]
    /\ unswapped = {} /\ goal = [w \in Writers |-> "whole"]
    /\ aged = FALSE

Set(w) == IF kind[w] = "shared" THEN SharedSet ELSE w
HasHead(p) == headOf[p] # NoWriter
StagedIn(r) == {p \in Paths : HasHead(p) /\ headSet[p] = r}
Go(w, place) == wplace' = [wplace EXCEPT ![w] = place]

\* A repository's validator, asked by one writer about another.  A member's
\* answers for the member itself, whoever it is asked about; Root's in a Team
\* wants Root's session as well as the lease of the run.
FenceValid(asker, w) ==
    CASE asker \in Members   -> asker \in fence
      [] asker \in TeamRoots -> asker = w /\ w \in fence
      [] OTHER               -> w \in fence

-----------------------------------------------------------------------------
(* Beginning a set. *)

StartSet(w, k, paths) ==
    /\ wplace[w] = "idle" /\ w \in fence
    /\ k # "shared" => \A p \in paths : ~HasHead(p)
    /\ wanted' = [wanted EXCEPT ![w] = paths]
    /\ kind' = [kind EXCEPT ![w] = k]
    /\ Go(w, "begin")
    /\ UNCHANGED <<capacityVars, headVars, fence, unwritten, pending, lookVars, aged>>

Visible(p) == p \in published /\ HasHead(p)

FoundWhole(w) ==
    /\ wplace[w] = "begin" /\ kind[w] = "shared" /\ \A p \in wanted[w] : Visible(p)
    /\ Go(w, "over")
    /\ UNCHANGED <<capacityVars, headVars, fence, kind, wanted, unwritten, pending, lookVars, aged>>

ReservedBut(r) == UNION {newPaths[q] : q \in {q \in SetIds \ {r} : resStatus[q] = "reserved"}}
Missing(w) == wanted[w] \ published

\* Mutant: what others have reserved does not count.
FitsPublished(w) == Cardinality(published) + Cardinality(Missing(w)) <= MaxFiles

Fits(w) == Cardinality(published) + Cardinality(ReservedBut(Set(w))) + Cardinality(Missing(w)) <= MaxFiles

Collides(w) == Missing(w) \cap ReservedBut(Set(w)) # {}

\* A settled reservation is revived for the paths that are still missing.
Reservable(w) == \/ resStatus[Set(w)] = "none"
                 \/ resStatus[Set(w)] \in {"finalized", "released"} /\ Missing(w) # {}

Beginning(w) == wplace[w] = "begin" /\ ~(kind[w] = "shared" /\ \A p \in wanted[w] : Visible(p))

ReserveSet(w) ==
    /\ Beginning(w) /\ Reservable(w) /\ ~Collides(w) /\ Fits(w)
    /\ resStatus' = [resStatus EXCEPT ![Set(w)] = "reserved"]
    /\ newPaths' = [newPaths EXCEPT ![Set(w)] = Missing(w)]
    /\ unwritten' = [unwritten EXCEPT ![w] = {p \in wanted[w] : ~Visible(p)}]
    /\ aged' = IF kind[w] = "shared" THEN FALSE ELSE aged
    /\ unswapped' = {}
    /\ Go(w, IF kind[w] = "shared" THEN "acquired" ELSE "stage")
    /\ UNCHANGED <<published, headVars, fence, kind, wanted, pending, looked, found, goal>>

Refused(w) ==
    /\ Beginning(w) /\ Reservable(w) /\ (Collides(w) \/ ~Fits(w))
    /\ Go(w, "over")
    /\ UNCHANGED <<capacityVars, headVars, fence, kind, wanted, unwritten, pending, lookVars, aged>>

\* The reservation is another's.  One that is settled and has nothing left to
\* reserve is looked at again at once, and for as long as that is so.
Wait(w) ==
    /\ Beginning(w) /\ resStatus[Set(w)] = "reserved"
    /\ Go(w, "wait")
    /\ UNCHANGED <<capacityVars, headVars, fence, kind, wanted, unwritten, pending, lookVars, aged>>

Acquired(w) ==
    /\ wplace[w] = "acquired"
    /\ Go(w, IF w \in fence THEN "stage" ELSE "discard")
    /\ goal' = [goal EXCEPT ![w] = IF w \in fence THEN @ ELSE "available"]
    /\ UNCHANGED <<capacityVars, headVars, fence, kind, wanted, unwritten, pending, looked, found,
                   unswapped, aged>>

-----------------------------------------------------------------------------
(* Staging the heads: commitFile. *)

Covered(w, p) == resStatus[Set(w)] = "reserved" /\ p \in wanted[w]

AdmitFile(w, p) ==
    /\ wplace[w] = "stage" /\ p \in unwritten[w]
    /\ ~HasHead(p) /\ w \in fence /\ Covered(w, p)
    /\ pending' = [pending EXCEPT ![w] = {p}]
    /\ Go(w, "commit")
    /\ UNCHANGED <<capacityVars, headVars, fence, kind, wanted, unwritten, lookVars, aged>>

\* compareAndSwapFile of a new path: an insert under a unique index.
Commit(w, p) ==
    /\ wplace[w] = "commit" /\ p \in pending[w] /\ ~HasHead(p)
    /\ headOf' = [headOf EXCEPT ![p] = w]
    /\ headSet' = [headSet EXCEPT ![p] = Set(w)]
    /\ unwritten' = [unwritten EXCEPT ![w] = @ \ {p}]
    /\ pending' = [pending EXCEPT ![w] = {}]
    /\ Go(w, "stage")
    /\ UNCHANGED <<capacityVars, fence, kind, wanted, lookVars, aged>>

\* The head exists, the fence is lost, the reservation is settled, or the
\* download has failed.
StageFails(w) ==
    /\ \/ /\ wplace[w] = "stage"
          /\ kind[w] = "single" => w \notin fence \/ \E p \in unwritten[w] : HasHead(p)
       \/ wplace[w] = "commit" /\ \E p \in pending[w] : HasHead(p)
    /\ pending' = [pending EXCEPT ![w] = {}]
    /\ Go(w, "abort")
    /\ UNCHANGED <<capacityVars, headVars, fence, kind, wanted, unwritten, lookVars, aged>>

SettleSet(w, what) == goal' = [goal EXCEPT ![w] = what] /\ Go(w, "read")

\* onFileSetFinalize asks for the fence first.
StagedAll(w) ==
    /\ wplace[w] = "stage" /\ unwritten[w] = {}
    /\ IF kind[w] = "shared" /\ w \notin fence THEN Go(w, "abort") /\ UNCHANGED goal
                                               ELSE SettleSet(w, "whole")
    /\ UNCHANGED <<capacityVars, headVars, fence, kind, wanted, unwritten, pending, looked, found,
                   unswapped, aged>>

-----------------------------------------------------------------------------
(* finalizeFileSet, finalizeAvailableFileSet and releaseFileSet: the        *)
(* capacity is read, then the heads one by one, then the swap is tried.     *)

Settled(w, ok) == Go(w, CASE goal[w] = "again" -> "begin"
                          [] goal[w] = "whole" /\ ok -> "projected"
                          [] goal[w] = "whole" /\ ~ok /\ kind[w] # "single" -> "abort"
                          [] OTHER -> "over")

\* Mutant: what was found in an attempt is kept for the next one.
ForgetLooked(w) == looked' = [looked EXCEPT ![w] = {}] /\ UNCHANGED found

Forget(w) == looked' = [looked EXCEPT ![w] = {}] /\ found' = [found EXCEPT ![w] = {}]

ReadCapacity(w) ==
    /\ wplace[w] = "read"
    /\ IF resStatus[Set(w)] = "reserved"
       THEN /\ Go(w, "swap")
            /\ unswapped' = unswapped \cup {w}
       ELSE Settled(w, resStatus[Set(w)] = "finalized") /\ UNCHANGED unswapped
    /\ UNCHANGED <<capacityVars, headVars, fence, kind, wanted, unwritten, pending, looked, found,
                   goal, aged>>

Reading(w) == wplace[w] = "swap"

\* The paths are those of the reservation that was read: it is the one of the
\* document unless the swap fails.
ReadHead(w, p) ==
    /\ Reading(w) /\ p \in newPaths[Set(w)] \ looked[w]
    /\ looked' = [looked EXCEPT ![w] = @ \cup {p}]
    /\ found' = [found EXCEPT ![w] = IF HasHead(p) /\ headSet[p] = Set(w) THEN @ \cup {p} ELSE @]
    /\ UNCHANGED <<capacityVars, headVars, fence, writerVars, unswapped, goal, aged>>

ReadAll(w) == Reading(w) /\ newPaths[Set(w)] \subseteq looked[w]

\* A path that is not staged, or one that is and would be released.
CannotSettle(w) ==
    /\ Reading(w)
    /\ \/ goal[w] = "whole" /\ looked[w] # found[w]
       \/ goal[w] = "release" /\ found[w] # {}
    /\ Settled(w, FALSE)
    /\ Forget(w) /\ unswapped' = unswapped \ {w}
    /\ UNCHANGED <<capacityVars, headVars, fence, kind, wanted, unwritten, pending, goal, aged>>

Swaps(w) == w \in unswapped

SwapCapacity(w) ==
    /\ ReadAll(w)
    /\ goal[w] = "whole" => looked[w] = found[w]
    /\ goal[w] = "release" => found[w] = {}
    /\ IF Swaps(w)
       THEN /\ resStatus' = [resStatus EXCEPT ![Set(w)] = IF goal[w] = "release" THEN "released"
                                                                                 ELSE "finalized"]
            /\ published' = published \cup found[w]
            /\ unswapped' = {}
            /\ Settled(w, TRUE)
       ELSE /\ Go(w, "read")
            /\ UNCHANGED <<resStatus, published, unswapped>>
    /\ Forget(w)
    /\ UNCHANGED <<newPaths, headVars, fence, kind, wanted, unwritten, pending, goal, aged>>

\* The projection that follows the swap may fail: the file set is aborted
\* although it has been finalized.  A plain mutation has none.
Projected(w) ==
    /\ wplace[w] = "projected"
    /\ \/ Go(w, "over")
       \/ kind[w] = "shared" /\ Go(w, "abort")
    /\ UNCHANGED <<capacityVars, headVars, fence, kind, wanted, unwritten, pending, lookVars, aged>>

-----------------------------------------------------------------------------
(* Failure and recovery. *)

\* onFileSetAbort, and the recovery of a mutation that failed.
Abort(w) ==
    /\ wplace[w] = "abort"
    /\ IF kind[w] = "shared" /\ w \notin fence
       THEN Go(w, "discard") /\ goal' = [goal EXCEPT ![w] = "available"]
       ELSE SettleSet(w, IF kind[w] = "single" THEN "release" ELSE "available")
    /\ UNCHANGED <<capacityVars, headVars, fence, kind, wanted, unwritten, pending, looked, found,
                   unswapped, aged>>

\* deleteStagedFiles: by reservation id.
Discard(w) ==
    /\ wplace[w] = "discard"
    /\ headOf' = [p \in Paths |-> IF p \in StagedIn(Set(w)) THEN NoWriter ELSE headOf[p]]
    /\ headSet' = [p \in Paths |-> IF p \in StagedIn(Set(w)) THEN NoWriter ELSE headSet[p]]
    /\ Go(w, "read")
    /\ UNCHANGED <<capacityVars, fence, kind, wanted, unwritten, pending, lookVars, aged>>

AllGone(w) == \A p \in StagedIn(Set(w)) : ~FenceValid(w, headOf[p])

\* Mutant: a set of which nothing is staged is left alone.
AfterRecoveryStagedOnly(w) == IF StagedIn(Set(w)) = {} THEN "begin" ELSE "discard"

AfterRecovery(w) == IF StagedIn(Set(w)) = {} THEN "read" ELSE "discard"

\* recoverStaleFileSet.
RecoverStale(w) ==
    /\ wplace[w] = "wait" /\ aged /\ AllGone(w)
    /\ goal' = [goal EXCEPT ![w] = "again"]
    /\ Go(w, AfterRecovery(w))
    /\ UNCHANGED <<capacityVars, headVars, fence, kind, wanted, unwritten, pending, looked, found,
                   unswapped, aged>>

\* The next poll, or the end of the wait.
WaitOver(w) ==
    /\ wplace[w] = "wait" /\ ~(aged /\ AllGone(w))
    /\ Go(w, "begin") \/ Go(w, "over")
    /\ UNCHANGED <<capacityVars, headVars, fence, kind, wanted, unwritten, pending, lookVars, aged>>

Age ==
    /\ ~aged /\ resStatus[SharedSet] = "reserved"
    /\ aged' = TRUE
    /\ UNCHANGED <<capacityVars, headVars, fence, writerVars, lookVars>>

FenceLost(w) ==
    /\ w \in fence /\ wplace[w] # "idle"
    /\ fence' = fence \ {w}
    /\ UNCHANGED <<capacityVars, headVars, writerVars, lookVars, aged>>

WriterDies(w) ==
    /\ wplace[w] \notin {"idle", "over", "dead"}
    /\ Go(w, "dead")
    /\ wanted' = [wanted EXCEPT ![w] = {}] /\ unwritten' = [unwritten EXCEPT ![w] = {}]
    /\ pending' = [pending EXCEPT ![w] = {}]
    /\ kind' = [kind EXCEPT ![w] = "shared"] /\ goal' = [goal EXCEPT ![w] = "whole"]
    /\ Forget(w) /\ unswapped' = unswapped \ {w}
    /\ UNCHANGED <<capacityVars, headVars, fence, aged>>

WorkspaceNext ==
    \/ \E w \in Writers :
          \/ StartSet(w, "shared", SharedPaths)
          \/ \E p \in OwnPaths : StartSet(w, "batch", {p}) \/ StartSet(w, "single", {p})
          \/ \E p \in Paths : \/ AdmitFile(w, p) \/ Commit(w, p) \/ ReadHead(w, p)
          \/ FoundWhole(w) \/ ReserveSet(w) \/ Refused(w) \/ Wait(w) \/ Acquired(w)
          \/ StageFails(w) \/ StagedAll(w) \/ ReadCapacity(w) \/ CannotSettle(w) \/ SwapCapacity(w)
          \/ Projected(w) \/ Abort(w) \/ Discard(w) \/ RecoverStale(w) \/ WaitOver(w)
          \/ FenceLost(w) \/ WriterDies(w)
    \/ Age

WorkspaceSpec == WorkspaceInit /\ [][WorkspaceNext]_workspaceVars

\* A writer that has begun a recovery goes on with it.
WorkspaceFairness ==
    \A w \in Writers :
       /\ WF_workspaceVars(RecoverStale(w)) /\ WF_workspaceVars(Discard(w))
       /\ WF_workspaceVars(ReadCapacity(w)) /\ WF_workspaceVars(SwapCapacity(w))
       /\ WF_workspaceVars(\E p \in Paths : ReadHead(w, p))

FairWorkspaceSpec == WorkspaceSpec /\ WorkspaceFairness

-----------------------------------------------------------------------------
(* Properties. *)

\* The files that are visible and the paths that are promised to sets being
\* written never exceed the limit of the workspace together, and no path is
\* promised twice or promised although it is visible.  SetIds are taken,
\* revived and settled by writers that read the document at different times.
PathsWithinCapacity ==
    LET reserved == {r \in SetIds : resStatus[r] = "reserved"} IN
    /\ Cardinality(published) + Cardinality(UNION {newPaths[r] : r \in reserved}) <= MaxFiles
    /\ \A r \in reserved : /\ newPaths[r] \cap published = {}
                          /\ \A q \in reserved \ {r} : newPaths[r] \cap newPaths[q] = {}

\* A published path has a file.  The heads of a set are deleted by reservation
\* id by an aborted or a recovering writer, which looks at no publication, and
\* a finalization publishes the heads it has read before.
PublishedHasFile == \A p \in published : HasHead(p)

\* A set that has been reserved for long, of which every staged head belongs to
\* an execution without a fence, is settled once a writer waits for it, unless
\* that writer dies or a live writer stages a head after all.  Members are
\* excepted: what their validator answers does not depend on the heads.
StaleSetSettled ==
    \A w \in Writers \ Members :
       (wplace[w] = "wait" /\ aged /\ \A p \in StagedIn(SharedSet) : headOf[p] \notin fence)
           ~> (\/ resStatus[SharedSet] # "reserved" \/ wplace[w] = "dead"
               \/ \E p \in StagedIn(SharedSet) : headOf[p] \in fence)

\* A writer that is told its file set is complete has all of it published.
SuccessIsWhole ==
    [][\A w \in Writers : (goal[w] = "whole" /\ wplace'[w] = "projected" /\ wplace[w] # "projected")
            => wanted[w] \subseteq published']_workspaceVars
=============================================================================
