----------------------------- MODULE Worktrees ------------------------------
(***************************************************************************)
(* The detached Git worktree and retained ref of each item, over the       *)
(* catalogue: ProjectWorktreeManager (project_worktrees.py), the legacy    *)
(* counterpart in scheduler_service_v5.py, the worktree columns of         *)
(* scheduler_v5.py, and the scheduler steps that prepare, use and remove   *)
(* them.  One scheduler process runs; every Git command and every database *)
(* transaction is a step of its own, so that a crash, an operator or the   *)
(* job itself can come in between.                                         *)
(***************************************************************************)
EXTENDS ProjectCatalog

CONSTANTS
    Faults,         \* subset of FaultKinds that may happen
    MaxCrashes      \* bound on scheduler crashes

FaultKinds == {"git", "payload", "launch", "dirty", "ref", "crash", "root"}

ASSUME WorktreeAssumption == Faults \subseteq FaultKinds /\ MaxCrashes \in Nat

VARIABLES
    tree,           \* per item: the ref, the directory, the registration
    svc,            \* the scheduler: where it is, which item, what it swept
    live,           \* items whose executor is running
    known,          \* items launched by this scheduler process
    crashes

worktreeVars == <<tree, svc, live, known, crashes>>
vars == <<catalogVars, worktreeVars>>

Slots == 1 .. MaxItems
Nothing == [ref |-> "none", dir |-> "none", registered |-> FALSE]
NoItem == 0
At(pc, i) == [svc EXCEPT !.pc = pc, !.item = i]
Reconciling == [pc |-> "reconcile", item |-> NoItem, swept |-> {}, back |-> "reconcile"]

WorktreeInit ==
    /\ tree = [i \in Slots |-> Nothing]
    /\ svc = Reconciling
    /\ live = {} /\ known = {} /\ crashes = 0

Init == CatalogInit /\ WorktreeInit

-----------------------------------------------------------------------------
(* Inspecting what Git and the file system hold.                           *)

Present(i) == tree[i].dir # "none"
RootOf(i) == revisions[items[i].revision].root

(* _repository_identity and _legacy_common_directory: the checkout is the  *)
(* canonical top level of a complete repository.                           *)
RepositoryUsable(i) == disk[RootOf(i)] = "intact"

(* _registered_worktrees: git worktree list names the exact path.          *)
Registered(i) == tree[i].registered

(* _read_ref: the queue-owned ref holds the pinned commit.                 *)
RefExact(i) == tree[i].ref = "exact"

(* _verify_materialized_tree: content, modes and index are the commit's.   *)
Pristine(i) == tree[i].dir = "clean"

(* _verify_legacy_worktree demands the exact ref; while the item is active *)
(* a dirty tree is acceptable to it.                                       *)
LegacyVerified(i, acceptable) ==
    tree[i].dir \in acceptable /\ Registered(i) /\ RefExact(i)

(* Mutant of VerifiedTree: does not ask for a clean tree.                  *)
VerifiedRegistration(i) == tree[i].dir \in {"clean", "dirty"} /\ tree[i].registered

(* _verify_worktree with require_clean, or its legacy counterpart.         *)
VerifiedTree(i) ==
    IF IsLegacy(i) THEN LegacyVerified(i, {"clean"}) ELSE Pristine(i) /\ Registered(i)

(* A present target must verify; a missing one must not be registered.     *)
TargetAcceptable(i) == IF Present(i) THEN VerifiedTree(i) ELSE ~Registered(i)

(* expected_evidence, and _legacy_context for imported items: the          *)
(* immutable inputs of the item authenticate before Git is touched.        *)
LegacyInputs(i) == RepositoryUsable(i)
Inputs(i) == IF IsLegacy(i) THEN LegacyInputs(i) ELSE SnapshotLoads(i) /\ RepositoryUsable(i)

(* quarantine_project opens the Project's circuit.                         *)
Quarantine(i) == projects' = [projects EXCEPT ![items[i].project].open = TRUE]

Same == UNCHANGED <<revisions, disk, plans, crashes>>

(* dispatch preparation failed: quarantine and give the GPU up.            *)
RefusePreparation(i) ==
    /\ Quarantine(i)
    /\ svc' = At("dispatch", NoItem)
    /\ UNCHANGED <<items, live, known>>

GitFails == "git" \in Faults

(* _pinned_tree_entries and _reject_checkout_filters: the commit's tree    *)
(* cannot be listed, or attributes ask for a filter.                       *)
TreeRefused == GitFails

-----------------------------------------------------------------------------
(* Preparing: prepare() and _prepare_legacy_runtime_worktree.              *)

Dispatchable(i) ==
    /\ items[i].state = "queued"
    /\ projects[items[i].project].lifecycle = "active"
    /\ ~projects[items[i].project].open

Prepare(i) ==
    /\ svc.pc = "dispatch" /\ Dispatchable(i)
    /\ \/ /\ Inputs(i) /\ TargetAcceptable(i)
          /\ svc' = At("pin", i)
          /\ UNCHANGED <<projects, items, live, known>>
       \/ /\ Inputs(i) /\ TargetAcceptable(i) => TreeRefused
          /\ RefusePreparation(i)
    /\ UNCHANGED tree /\ Same

(* _ensure_ref: compare-and-create; the same ref is kept, another refused. *)
EnsureRef(i) ==
    /\ svc.pc = "pin" /\ svc.item = i
    /\ \/ /\ tree[i].ref \in {"none", "exact"}
          /\ tree' = [tree EXCEPT ![i].ref = "exact"]
          /\ svc' = At(IF Present(i) THEN "record" ELSE "add", i)
          /\ UNCHANGED <<projects, items, live, known>>
       \/ /\ tree[i].ref = "moved" \/ GitFails
          /\ RefusePreparation(i) /\ UNCHANGED tree
    /\ Same

(* git worktree add: the directory is registered before it has content;    *)
(* typed items add it without a checkout.                                  *)
Added(i) ==
    /\ svc.pc = "add" /\ svc.item = i
    /\ \/ /\ tree' = [tree EXCEPT ![i].dir = "partial", ![i].registered = TRUE]
          /\ svc' = At("fill", i)
          /\ UNCHANGED <<projects, items, live, known>>
       \/ GitFails /\ RefusePreparation(i) /\ UNCHANGED tree
    /\ Same

AddWorktree(i) == ~IsLegacy(i) /\ Added(i)
AddLegacyWorktree(i) == IsLegacy(i) /\ Added(i)

Filled(i) ==
    /\ svc.pc = "fill" /\ svc.item = i
    /\ \/ /\ tree' = [tree EXCEPT ![i].dir = "clean"]
          /\ svc' = At("record", i)
          /\ UNCHANGED <<projects, items, live, known>>
       \/ TreeRefused /\ RefusePreparation(i) /\ UNCHANGED tree
    /\ Same

(* read-tree, the filter check once more, the blobs of the pinned tree and *)
(* the final check; for legacy items the checkout and the shared links.    *)
Materialize(i) == ~IsLegacy(i) /\ Filled(i)
LinkSharedPaths(i) == IsLegacy(i) /\ Filled(i)

IsRecorded(i) == items[i].recorded /\ ~items[i].removed

Recorded(i) ==
    /\ svc.pc = "record" /\ svc.item = i
    /\ items' = IF IsRecorded(i) THEN items
                ELSE [items EXCEPT ![i].recorded = TRUE, ![i].removed = FALSE,
                                   ![i].failed = FALSE]
    /\ svc' = At("payload", i)
    /\ UNCHANGED <<projects, tree, live, known>> /\ Same

(* record_worktree_prepared and record_legacy_worktree_adopted; a removed  *)
(* runtime never carries a cleanup error, so re-adoption is not refused.   *)
RecordPrepared(i) == ~IsLegacy(i) /\ Recorded(i)
RecordAdopted(i) == IsLegacy(i) /\ Recorded(i)

(* The execution plan and the attempt's files.  Their failure removes a    *)
(* typed worktree before the dispatch is refused, and leaves a legacy one  *)
(* to the next sweep.                                                      *)
PreparePayload(i) ==
    /\ svc.pc = "payload" /\ svc.item = i
    /\ \/ svc' = At("claim", i)
       \/ /\ "payload" \in Faults
          /\ svc' = IF IsLegacy(i) THEN At("refuse", i)
                    ELSE [At("check", i) EXCEPT !.back = "refuse"]
    /\ UNCHANGED <<projects, items, tree, live, known>> /\ Same

RefuseDispatch(i) ==
    /\ svc.pc = "refuse" /\ svc.item = i
    /\ RefusePreparation(i)
    /\ UNCHANGED tree /\ Same

(* Mutant of Claim: claims without creating the lease.                     *)
ClaimUnleased(i) ==
    /\ svc.pc = "claim" /\ svc.item = i
    /\ items' = [items EXCEPT ![i].state = "active"]
    /\ svc' = At("launch", i)
    /\ UNCHANGED <<projects, tree, live, known>> /\ Same

(* claim rechecks the dispatch predicates; a lost claim cleans up.         *)
Claim(i) ==
    /\ svc.pc = "claim" /\ svc.item = i
    /\ IF Dispatchable(i)
       THEN /\ items' = [items EXCEPT ![i].state = "active", ![i].lease = TRUE]
            /\ svc' = At("launch", i)
       ELSE /\ svc' = [At("check", i) EXCEPT !.back = "dispatch"]
            /\ UNCHANGED items
    /\ UNCHANGED <<projects, tree, live, known>> /\ Same

(* launch_prepared_attempt: a launch that provably failed fails the item   *)
(* and cleans up before the lease is released.                             *)
Launch(i) ==
    /\ svc.pc = "launch" /\ svc.item = i
    /\ \/ /\ live' = live \cup {i} /\ known' = known \cup {i}
          /\ svc' = At("dispatch", NoItem)
          /\ UNCHANGED items
       \/ /\ "launch" \in Faults
          /\ items' = [items EXCEPT ![i].state = "ended"]
          /\ svc' = [At("check", i) EXCEPT !.back = "dispatch"]
          /\ UNCHANGED <<live, known>>
    /\ UNCHANGED <<projects, tree>> /\ Same

-----------------------------------------------------------------------------
(* The attempt, and the end of it.                                         *)

(* The job may write into its worktree.                                    *)
JobWrites(i) ==
    /\ "dirty" \in Faults
    /\ i \in live /\ tree[i].dir = "clean"
    /\ tree' = [tree EXCEPT ![i].dir = "dirty"]
    /\ UNCHANGED <<revisions, projects, items, disk, plans, svc, live, known, crashes>>

ExecutorEnds(i) ==
    /\ i \in live
    /\ live' = live \ {i}
    /\ UNCHANGED <<revisions, projects, items, disk, plans, tree, svc, known, crashes>>

(* _finish_local_process: the item is loaded outside of any handler, so    *)
(* evidence that no longer loads ends the service; otherwise the receipt   *)
(* is applied, or the yield requeues the item with its lease released.     *)
FinishLocal(i) ==
    /\ svc.pc = "reconcile" /\ items[i].state = "active"
    /\ i \in known \ live
    /\ IF ~ItemLoads(i)
       THEN svc' = [Reconciling EXCEPT !.pc = "exited"] /\ UNCHANGED <<items, known>>
       ELSE /\ known' = known \ {i}
            /\ \/ items' = [items EXCEPT ![i].state = "ended"] /\ UNCHANGED svc
               \/ /\ items' = [items EXCEPT ![i].state = "queued", ![i].lease = FALSE]
                  /\ svc' = [At("check", i) EXCEPT !.back = "reconcile"]
    /\ UNCHANGED <<projects, tree, live>> /\ Same

(* _structured_context_from_active and recover(): after a restart the      *)
(* receipt counts only with a clean worktree at its exact ref.             *)
TypedRecoverable(i) == Inputs(i) /\ IsRecorded(i) /\ RefExact(i) /\ VerifiedTree(i)

(* _legacy_context_from_active allows for what the job has written.        *)
LegacyRecoverable(i) ==
    Inputs(i) /\ IsRecorded(i) /\ LegacyVerified(i, {"clean", "dirty"})

Recoverable(i) == IF IsLegacy(i) THEN LegacyRecoverable(i) ELSE TypedRecoverable(i)

(* _reconcile_restarted_processes on an attempt of an earlier process: its *)
(* receipt ends it or, for a yield, requeues it; evidence that cannot be   *)
(* recovered fails the item and isolates its Project.  An attempt that was *)
(* claimed and never launched ends the same way, once the operator has     *)
(* resolved it as abandoned.                                               *)
FinishRestarted(i) ==
    /\ svc.pc = "reconcile" /\ items[i].state = "active"
    /\ i \notin live \cup known
    /\ \/ /\ items' = [items EXCEPT ![i].state = "ended"]
          /\ IF Recoverable(i) THEN UNCHANGED projects ELSE Quarantine(i)
          /\ UNCHANGED svc
       \/ /\ Recoverable(i)
          /\ items' = [items EXCEPT ![i].state = "queued", ![i].lease = FALSE]
          /\ svc' = [At("check", i) EXCEPT !.back = "reconcile"]
          /\ UNCHANGED projects
    /\ UNCHANGED <<tree, live, known>> /\ Same

(* _release_finalized_gpu_lease after idle telemetry, then the cleanup,    *)
(* with the evidence of the finished attempt or, after a restart, with the *)
(* evidence _cleanup_persisted_runtime loads again.                        *)
ReleaseLease(i) ==
    /\ svc.pc = "reconcile" /\ items[i].state = "ended" /\ items[i].lease
    /\ items' = [items EXCEPT ![i].lease = FALSE]
    /\ \/ /\ svc' = [At("check", i) EXCEPT !.back = "reconcile"]
          /\ UNCHANGED projects
       \/ ~ItemLoads(i) /\ Quarantine(i) /\ UNCHANGED svc
    /\ UNCHANGED <<tree, live, known>> /\ Same

-----------------------------------------------------------------------------
(* Cleaning up: cleanup(), _cleanup_legacy_worktree and the sweep.         *)

CleanupDone == At(svc.back, IF svc.back = "refuse" THEN svc.item ELSE NoItem)

CleanupFailed(i) ==
    /\ items' = [items EXCEPT ![i].failed = TRUE, ![i].removed = FALSE]
    /\ IF svc.back = "refuse" THEN UNCHANGED projects ELSE Quarantine(i)
    /\ svc' = CleanupDone
    /\ UNCHANGED <<live, known>>

(* _cleanup_legacy_worktree: a present tree verifies, at its ref; a        *)
(* missing one is neither registered nor left with another ref.            *)
LegacyCleanupAcceptable(i) ==
    /\ RepositoryUsable(i)
    /\ IF Present(i) THEN LegacyVerified(i, {"clean"})
       ELSE ~Registered(i) /\ tree[i].ref # "moved"

(* cleanup(): the checks before anything is touched.                       *)
CleanupAcceptable(i) ==
    IF IsLegacy(i) THEN LegacyCleanupAcceptable(i)
    ELSE /\ RepositoryUsable(i)
         /\ tree[i].ref # "moved"
         /\ IF Present(i) THEN VerifiedTree(i) /\ RefExact(i) ELSE ~Registered(i)

CheckCleanup(i) ==
    /\ svc.pc = "check" /\ svc.item = i
    /\ IF CleanupAcceptable(i)
       THEN /\ svc' = At(IF Present(i) THEN "remove" ELSE "unpin", i)
            /\ UNCHANGED <<projects, items, live, known>>
       ELSE CleanupFailed(i)
    /\ UNCHANGED tree /\ Same

(* git worktree remove deletes the directory and its registration.  One    *)
(* that fails may have done any part of it, and preserves the ref.         *)
RemoveWorktree(i) ==
    /\ svc.pc = "remove" /\ svc.item = i
    /\ \/ /\ tree' = [tree EXCEPT ![i].dir = "none", ![i].registered = FALSE]
          /\ svc' = At("unpin", i)
          /\ UNCHANGED <<projects, items, live, known>>
       \/ /\ GitFails
          /\ \E d \in {"none", "partial", "clean"}, b \in BOOLEAN :
                tree' = [tree EXCEPT ![i].dir = d, ![i].registered = b]
          /\ CleanupFailed(i)
    /\ Same

(* _delete_ref: compare-and-delete.                                        *)
DeleteRef(i) ==
    /\ svc.pc = "unpin" /\ svc.item = i
    /\ \/ /\ tree[i].ref # "moved"
          /\ tree' = [tree EXCEPT ![i].ref = "none"]
          /\ svc' = At("erase", i)
          /\ UNCHANGED <<projects, items, live, known>>
       \/ /\ tree[i].ref = "moved" \/ GitFails
          /\ CleanupFailed(i) /\ UNCHANGED tree
    /\ Same

Erased(i) ==
    /\ svc.pc = "erase" /\ svc.item = i
    /\ items' = IF items[i].removed THEN items
                ELSE [items EXCEPT ![i].removed = TRUE, ![i].failed = FALSE]
    /\ svc' = CleanupDone
    /\ UNCHANGED <<projects, tree, live, known>> /\ Same

(* record_worktree_cleanup and record_legacy_worktree_cleanup.             *)
RecordRemoved(i) == ~IsLegacy(i) /\ Erased(i)
RecordLegacyRemoved(i) == IsLegacy(i) /\ Erased(i)

(* Mutants of IsOrphan: any recorded tree; or only that of a pending item. *)
RecordedIsOrphan(i) == IsRecorded(i)
PendingIsOrphan(i) == items[i].state \in Pending /\ IsRecorded(i)

(* _reconcile_orphaned_worktree_cleanup: recorded, not removed, not active *)
(* and without a lease; each once per iteration.                           *)
IsOrphan(i) ==
    /\ items[i].state # "active" /\ ~items[i].lease
    /\ IsRecorded(i)

SweepOrphan(i) ==
    /\ svc.pc = "reconcile" /\ IsOrphan(i) /\ i \notin svc.swept
    /\ IF ItemLoads(i)
       THEN svc' = [pc |-> "check", item |-> i, swept |-> svc.swept \cup {i},
                    back |-> "reconcile"] /\ UNCHANGED projects
       ELSE svc' = [svc EXCEPT !.swept = @ \cup {i}] /\ Quarantine(i)
    /\ UNCHANGED <<items, tree, live, known>> /\ Same

(* run_iteration: ended attempts and orphans come before the dispatch      *)
(* pass.                                                                   *)
BeginDispatch ==
    /\ svc.pc = "reconcile"
    /\ \A i \in ItemIds : items[i].state = "active" => i \in live
    /\ \A i \in ItemIds : IsOrphan(i) => i \in svc.swept
    /\ svc' = [svc EXCEPT !.pc = "dispatch"]
    /\ UNCHANGED <<projects, items, tree, live, known>> /\ Same

EndIteration ==
    /\ svc.pc = "dispatch"
    /\ svc' = Reconciling
    /\ UNCHANGED <<projects, items, tree, live, known>> /\ Same

-----------------------------------------------------------------------------
(* Crashes, restarts and interference.                                     *)

Crash ==
    /\ "crash" \in Faults /\ crashes < MaxCrashes
    /\ svc.pc # "exited"
    /\ svc' = [Reconciling EXCEPT !.pc = "exited"]
    /\ crashes' = crashes + 1
    /\ UNCHANGED <<catalogVars, tree, live, known>>

(* A new process takes the scheduler lock and knows no attempt.            *)
StartService ==
    /\ svc.pc = "exited"
    /\ svc' = Reconciling
    /\ known' = {}
    /\ UNCHANGED <<catalogVars, tree, live, crashes>>

(* Somebody else moves a queue-owned ref.                                  *)
RefMoves(i) ==
    /\ "ref" \in Faults
    /\ tree[i].ref = "exact"
    /\ tree' = [tree EXCEPT ![i].ref = "moved"]
    /\ UNCHANGED <<catalogVars, svc, live, known, crashes>>

PrepareSteps(i) ==
    \/ Prepare(i) \/ EnsureRef(i)
    \/ AddWorktree(i) \/ AddLegacyWorktree(i)
    \/ Materialize(i) \/ LinkSharedPaths(i)
    \/ RecordPrepared(i) \/ RecordAdopted(i)
    \/ PreparePayload(i) \/ RefuseDispatch(i) \/ Claim(i) \/ Launch(i)

FinishSteps(i) == FinishLocal(i) \/ FinishRestarted(i) \/ ReleaseLease(i)

CleanupSteps(i) ==
    \/ CheckCleanup(i) \/ RemoveWorktree(i) \/ DeleteRef(i)
    \/ RecordRemoved(i) \/ RecordLegacyRemoved(i)
    \/ SweepOrphan(i)

Service ==
    \/ \E i \in ItemIds : PrepareSteps(i) \/ FinishSteps(i) \/ CleanupSteps(i)
    \/ BeginDispatch \/ EndIteration \/ StartService

Environment ==
    \/ \E i \in ItemIds : JobWrites(i) \/ ExecutorEnds(i) \/ RefMoves(i)
    \/ Crash
    \/ /\ "root" \in Faults
       /\ \E id \in RevisionIds, condition \in {"intact", "pruned", "gone"} :
              RootChanges(revisions[id].root, condition)
       /\ UNCHANGED worktreeVars

Next == Service \/ Environment \/ (CatalogNext /\ UNCHANGED worktreeVars)

Spec == Init /\ [][Next]_vars

-----------------------------------------------------------------------------
(* Properties of the catalogue.                                            *)

(* The rows, plans, trees and the scheduler's position are well formed, a  *)
(* registered Project's current revision is one of its own, and only a     *)
(* pending or ended item ever lacks a lease: the shapes the tables and     *)
(* their foreign keys promise across all operators and restarts.           *)
WorktreeTypeOK ==
    /\ \A id \in RevisionIds : revisions[id] \in
           [project : Projects, sequence : 1 .. MaxRevisions, kind : {"project-v1", "legacy-v4"},
            root : Roots]
    /\ \A p \in Projects :
           /\ projects[p].lifecycle \in Lifecycles /\ projects[p].open \in BOOLEAN
           /\ IsRegistered(p) => projects[p].current \in RevisionsOf(p)
    /\ \A i \in ItemIds :
           /\ items[i].state \in ItemStates
           /\ items[i].revision \in RevisionsOf(items[i].project)
           /\ items[i].state = "active" => items[i].lease
    /\ \A i \in Slots : tree[i] \in
           [ref : {"none", "exact", "moved"}, dir : {"none", "partial", "clean", "dirty"},
            registered : BOOLEAN]
    /\ svc.item \in ItemIds \cup {NoItem}
    /\ live \subseteq ItemIds

(* Roots of different Projects never overlap, in any revision, however     *)
(* registrations and appended revisions interleave: occupied_roots is read *)
(* before the transaction and _assert_root_isolation rechecks inside it.   *)
RootsStayDisjoint == \A a, b \in RevisionIds :
    revisions[a].project # revisions[b].project => ~Overlap(revisions[a].root, revisions[b].root)

(* Admission keeps the order of history, although every submission was     *)
(* compiled before its transaction and others commit in between: a later   *)
(* item never belongs to an earlier revision, and the attempts of one      *)
(* experiment are numbered 1, 2, 3 ... in the order of their ids.          *)
AdmissionIsOrdered ==
    /\ \A i, j \in ItemIds :
          i < j /\ items[i].project = items[j].project
              => SequenceOf(items[i].revision) <= SequenceOf(items[j].revision)
    /\ \A i \in ItemIds :
          items[i].attempt = Cardinality({j \in 1 .. i : items[j].project = items[i].project})

(* What one step may do to a Project that is registered.                   *)
HistoryStep == \A p \in Projects : IsRegistered(p) =>
    /\ revisions[projects[p].current].sequence <= revisions'[projects'[p].current].sequence
    /\ projects[p].lifecycle = "archived" =>
           /\ projects'[p].lifecycle = "archived"
           /\ projects'[p].current = projects[p].current
           /\ \A i \in DOMAIN items' : items'[i].project = p => i \in ItemIds
           /\ \A id \in DOMAIN revisions' : revisions'[id].project = p => id \in RevisionIds

(* The current revision of a Project only moves forward, and an archived   *)
(* Project is frozen: no revision, no activation, no item, no lifecycle    *)
(* change, even from a plan made before it was archived.                   *)
HistoryMovesForward == [][HistoryStep]_vars

-----------------------------------------------------------------------------
(* Properties of the worktrees.                                            *)

(* While an executor runs, its worktree is complete, registered and on     *)
(* record, whatever sweeps, restarts and operators do meanwhile; and no    *)
(* worktree ever exists without a ref that keeps its commit: the ref is    *)
(* created before git worktree add and deleted after git worktree remove,  *)
(* across crashes between any two of these commands.                       *)
TreesAreWhole ==
    /\ \A i \in live : tree[i].dir \in {"clean", "dirty"} /\ tree[i].registered /\ IsRecorded(i)
    /\ \A i \in Slots : Present(i) => tree[i].ref # "none"

(* A claimed attempt leaves nothing behind: its ref or tree is on record   *)
(* as long as it exists (record_worktree_prepared precedes the claim), and *)
(* once its Project is archived there is neither (transition_project       *)
(* refuses until cleanup is on record as done).                            *)
AttemptsAreSwept == \A i \in ItemIds :
    /\ items[i].state \in {"active", "ended"} /\ tree[i] # Nothing => IsRecorded(i)
    /\ projects[items[i].project].lifecycle = "archived" /\ items[i].state = "ended"
          => tree[i] = Nothing /\ i \notin live

(* What one step may do to a worktree with the job's files.                *)
KeepsWritten == \A i \in Slots : tree[i].dir = "dirty" => tree'[i].dir = "dirty"

(* Nothing the queue does removes a worktree the job has written into:     *)
(* cleanup verifies the tree clean, and Git is never forced.               *)
WrittenTreeIsKept == [][KeepsWritten]_vars

(* Every ended attempt is cleaned up and recorded as removed, or its       *)
(* Project is isolated for the operator: none is silently forgotten after  *)
(* a crash between the end of the attempt and its cleanup.                 *)
CleanupSettles == \A i \in Slots :
    (i \in ItemIds /\ items[i].state = "ended")
        ~> (i \in ItemIds /\ (items[i].removed \/ projects[items[i].project].open))

=============================================================================
