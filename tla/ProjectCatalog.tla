--------------------------- MODULE ProjectCatalog ---------------------------
(***************************************************************************)
(* Projects, their immutable revisions and the items admitted from them,   *)
(* as operators change them through the command line and the web           *)
(* (v5_repository.py, v5_operator_repository.py, project_lifecycle.py,     *)
(* git_resolver.py, admission.py, cli_v5.py).                              *)
(*                                                                         *)
(* Registering, appending and submitting take two steps: an operator first *)
(* reads candidate identities, the occupied roots and the current revision *)
(* and verifies the repository ("plan"), and then commits one BEGIN        *)
(* IMMEDIATE transaction that must recheck whatever may have moved.        *)
(*                                                                         *)
(* A root stands for the checkout, mounts and environment directories of   *)
(* an Enrollment.  It is "intact", "pruned" (the directories are there but *)
(* Git cannot produce the pinned commit from a complete clone) or "gone"   *)
(* (a directory is missing or resolves elsewhere).                         *)
(***************************************************************************)
EXTENDS Naturals, Sequences, FiniteSets, FiniteSetsExt

CONSTANTS
    Projects,       \* Project keys
    Imported,       \* Projects migrated from schema v4, each with one item
    Roots,          \* enrolled host directories
    Nested,         \* pairs {a, b} of roots, one inside the other
    LegacyRoot,     \* the checkout of the imported Projects
    Operators,      \* processes of the command line or the web
    MaxRevisions,   \* bound on project_revisions rows
    MaxItems        \* bound on queue_items rows

ASSUME CatalogAssumption ==
    /\ Imported \subseteq Projects
    /\ LegacyRoot \in Roots
    /\ \A pair \in Nested : pair \subseteq Roots
    /\ MaxRevisions \in Nat \ {0} /\ MaxItems \in Nat \ {0}

VARIABLES
    revisions,      \* project_revisions in order of id
    projects,       \* projects and project_runtime_state
    items,          \* queue_items in order of id
    disk,           \* what the host directories look like now
    plans           \* what each operator has read and verified

catalogVars == <<revisions, projects, items, disk, plans>>

Lifecycles == {"active", "paused", "archived"}
Pending == {"queued", "held"}
Terminal == {"ended", "removed"}
ItemStates == Pending \cup {"active"} \cup Terminal
Idle == [cmd |-> "none"]
RevisionIds == 1 .. Len(revisions)
ItemIds == 1 .. Len(items)
IsRegistered(p) == projects[p].current # 0

NewItem(p, revision, attempt, state, inherited) ==
    [project |-> p, revision |-> revision, attempt |-> attempt, state |-> state,
     lease |-> FALSE, inherited |-> inherited,
     recorded |-> FALSE, removed |-> FALSE, failed |-> FALSE]

(* What the schema-v4 importer leaves: one legacy revision per imported    *)
(* Project, which stays paused, and one pending item; the v4 worktree of   *)
(* the item may never have been removed.                                   *)
ImportedProject(p) ==
    /\ revisions = <<[project |-> p, sequence |-> 1, kind |-> "legacy-v4", root |-> LegacyRoot]>>
    /\ projects = [q \in Projects |->
           [lifecycle |-> IF q = p THEN "paused" ELSE "active", current |-> IF q = p THEN 1 ELSE 0,
            open |-> FALSE]]
    /\ \E inherited \in BOOLEAN : items = <<NewItem(p, 1, 1, "queued", inherited)>>

EmptyCatalog ==
    /\ revisions = <<>> /\ items = <<>>
    /\ projects = [p \in Projects |-> [lifecycle |-> "active", current |-> 0, open |-> FALSE]]

CatalogInit ==
    /\ EmptyCatalog \/ \E p \in Imported : ImportedProject(p)
    /\ disk = [r \in Roots |-> "intact"]
    /\ plans = [o \in Operators |-> Idle]

-----------------------------------------------------------------------------
(* Loading and verifying evidence.                                         *)

Overlap(a, b) == a = b \/ {a, b} \in Nested

(* validate_current_paths: every directory still resolves to its path.     *)
PathsResolve(r) == disk[r] # "gone"

(* _load_enrollment rebuilds the stored Enrollment, which resolves every   *)
(* stored path again.                                                      *)
EnrollmentLoads(r) == PathsResolve(r)

(* _load_revision: only typed rows, with their Enrollment.                 *)
Loadable(id) == revisions[id].kind = "project-v1" /\ EnrollmentLoads(revisions[id].root)

RevisionsOf(p) == {id \in RevisionIds : revisions[id].project = p}
TypedOf(p) == {id \in RevisionsOf(p) : revisions[id].kind = "project-v1"}
SequenceOf(id) == revisions[id].sequence
CurrentSequence(p) == SequenceOf(projects[p].current)

(* _project_from_row: the first typed revision and the current one both    *)
(* load; a Project that only has imported history has no typed view.       *)
ProjectLoads(p) ==
    /\ IsRegistered(p)
    /\ projects[p].current \in TypedOf(p)
    /\ Loadable(Min(TypedOf(p)))
    /\ Loadable(projects[p].current)

(* get_project_summary: works before adoption too.                         *)
SummaryReads(p) ==
    /\ IsRegistered(p)
    /\ revisions[projects[p].current].kind = "project-v1" => ProjectLoads(p)

(* The pinned commit, its tree entries and blobs come from this clone.     *)
ObjectsReadable(r) == disk[r] = "intact"

(* verify_project_revision: the paths are those of the revision and Git    *)
(* can produce its commit.                                                 *)
Verified(r) == PathsResolve(r) /\ ObjectsReadable(r)

(* occupied_roots: every other Project's typed revisions are authenticated *)
(* one by one while the claims are collected, and the imported checkouts   *)
(* must resolve.                                                           *)
ClaimsReadable(p) == \A id \in RevisionIds \ RevisionsOf(p) :
    IF revisions[id].kind = "project-v1" THEN Loadable(id)
    ELSE PathsResolve(revisions[id].root)

(* _validate_root_relationships against the claims.                        *)
Disjoint(p, r) == \A id \in RevisionIds \ RevisionsOf(p) : ~Overlap(r, revisions[id].root)

(* Enrollment.create against the claims of the other Projects.             *)
Enrolled(p, r) == PathsResolve(r) /\ Disjoint(p, r)

(* _build_revision: the claims are collected, the Enrollment created and   *)
(* the revision verified in Git.                                           *)
Built(p, r) == ClaimsReadable(p) /\ Enrolled(p, r) /\ Verified(r)

(* _assert_root_isolation: again, inside the transaction.                  *)
RootsIsolated(p, r) == PathsResolve(r) /\ Disjoint(p, r)

-----------------------------------------------------------------------------
(* Registration, revisions and lifecycle.                                  *)

Plan(o, plan) ==
    /\ plans[o] = Idle
    /\ plans' = [plans EXCEPT ![o] = plan]
    /\ UNCHANGED <<revisions, projects, items, disk>>

Finished(o) == plans' = [plans EXCEPT ![o] = Idle]

(* project register: next_project_identity reads the next revision id (a   *)
(* concurrent registration consumes the Project id and this one alike).    *)
PlanRegister(o, p, r, lifecycle) ==
    /\ Len(revisions) < MaxRevisions
    /\ Built(p, r)
    /\ Plan(o, [cmd |-> "register", project |-> p, root |-> r, id |-> Len(revisions) + 1,
                sequence |-> 1, lifecycle |-> lifecycle])

(* ProjectRevision: an immutable row of the Project's history.             *)
NewRevision(plan) == [project |-> plan.project, sequence |-> plan.sequence,
                      kind |-> "project-v1", root |-> plan.root]

AddRevision(plan) == revisions' = Append(revisions, NewRevision(plan))

(* Mutant of RegisterAllowed: relies on what was read before.              *)
RegisterPlanned(plan) == ~IsRegistered(plan.project) /\ PathsResolve(plan.root)

(* register_project: one transaction for the Project, its first revision   *)
(* and its closed circuit; a taken key or identity fails it as a whole.    *)
RegisterAllowed(plan) ==
    /\ ~IsRegistered(plan.project)
    /\ plan.id \notin RevisionIds
    /\ RootsIsolated(plan.project, plan.root)

CommitRegister(o) ==
    LET plan == plans[o] IN
    /\ plan.cmd = "register"
    /\ IF RegisterAllowed(plan)
       THEN /\ AddRevision(plan)
            /\ projects' = [projects EXCEPT ![plan.project] =
                   [lifecycle |-> plan.lifecycle, current |-> plan.id, open |-> FALSE]]
       ELSE UNCHANGED <<revisions, projects>>
    /\ Finished(o)
    /\ UNCHANGED <<items, disk>>

(* project append-revision: next_revision_identity refuses an archived     *)
(* Project and reads the next id and the next sequence of the Project.     *)
PlanAppend(o, p, r, activate) ==
    /\ Len(revisions) < MaxRevisions
    /\ SummaryReads(p)
    /\ projects[p].lifecycle # "archived"
    /\ Built(p, r)
    /\ Plan(o, [cmd |-> "append", project |-> p, root |-> r, id |-> Len(revisions) + 1,
                sequence |-> Max({SequenceOf(id) : id \in RevisionsOf(p)}) + 1,
                activate |-> activate])

(* Mutant of MayFollow: forgets that the Project may be archived by now.   *)
MayFollowArchived(p, sequence) == sequence > CurrentSequence(p)

(* with_current_revision: only forward, only its own, never archived.      *)
MayFollow(p, sequence) ==
    /\ projects[p].lifecycle # "archived"
    /\ sequence > CurrentSequence(p)

(* append_revision: the first typed revision of an imported Project must   *)
(* be activated in the same transaction; any other Project is loaded with  *)
(* its typed evidence first.                                               *)
AppendAllowed(plan) ==
    /\ IF revisions[projects[plan.project].current].kind = "legacy-v4"
       THEN plan.activate
       ELSE ProjectLoads(plan.project)
    /\ MayFollow(plan.project, plan.sequence)
    /\ plan.id \notin RevisionIds
    /\ RootsIsolated(plan.project, plan.root)

CommitAppend(o) ==
    LET plan == plans[o] IN
    /\ plan.cmd = "append"
    /\ IF AppendAllowed(plan)
       THEN /\ AddRevision(plan)
            /\ projects' = IF plan.activate
                           THEN [projects EXCEPT ![plan.project].current = plan.id]
                           ELSE projects
       ELSE UNCHANGED <<revisions, projects>>
    /\ Finished(o)
    /\ UNCHANGED <<items, disk>>

(* activate_revision: one transaction, no plan.                            *)
ActivateRevision(p, id) ==
    /\ ProjectLoads(p)
    /\ Loadable(id)
    /\ revisions[id].project = p
    /\ MayFollow(p, SequenceOf(id))
    /\ projects' = [projects EXCEPT ![p].current = id]
    /\ UNCHANGED <<revisions, items, disk, plans>>

(* Mutant of IncompleteCleanup: asks for recorded errors only.             *)
CleanupErrors(p) == \E i \in ItemIds : items[i].project = p /\ items[i].failed

(* transition_project's incomplete_cleanup query over the Project's rows.  *)
IncompleteCleanup(p) == \E i \in ItemIds :
    /\ items[i].project = p
    /\ \/ items[i].inherited /\ ~items[i].removed
       \/ items[i].failed
       \/ items[i].recorded /\ ~items[i].removed

(* validate_lifecycle_transition.                                          *)
MayTransition(p, target) ==
    \/ projects[p].lifecycle = "active" /\ target = "paused"
    \/ projects[p].lifecycle = "paused" /\ target = "active"
    \/ /\ projects[p].lifecycle = "paused" /\ target = "archived"
       /\ \A i \in ItemIds : items[i].project = p => items[i].state \in Terminal
       /\ ~IncompleteCleanup(p)

TransitionProject(p, target) ==
    /\ ProjectLoads(p)
    /\ MayTransition(p, target)
    /\ projects' = [projects EXCEPT ![p].lifecycle = target]
    /\ UNCHANGED <<revisions, items, disk, plans>>

(* close_project_circuit loads the typed Project before it closes.         *)
CloseCircuit(p) ==
    /\ ProjectLoads(p)
    /\ projects[p].open
    /\ projects' = [projects EXCEPT ![p].open = FALSE]
    /\ UNCHANGED <<revisions, items, disk, plans>>

-----------------------------------------------------------------------------
(* Admission and removal.                                                  *)

(* compile_admission: the snapshot names the revision it was compiled for. *)
Compiled(p, state) == [cmd |-> "submit", project |-> p, revision |-> projects[p].current,
                       state |-> state]

(* submit: the current revision is read, its commit verified and the card  *)
(* compiled into an immutable snapshot, before the transaction starts.     *)
PlanSubmit(o, p, state) ==
    /\ Len(items) < MaxItems
    /\ ProjectLoads(p)
    /\ Verified(revisions[projects[p].current].root)
    /\ Plan(o, Compiled(p, state))

(* Mutant of AdmitAllowed: keeps the revision it compiled against.         *)
AdmitPlanned(plan) ==
    ProjectLoads(plan.project) /\ projects[plan.project].lifecycle # "archived"

AdmitAllowed(plan) ==
    /\ ProjectLoads(plan.project)
    /\ projects[plan.project].lifecycle # "archived"
    /\ plan.revision = projects[plan.project].current

(* The attempt number is allocated inside the transaction.                 *)
NextAttempt(plan) ==
    Max({0} \cup {items[i].attempt : i \in {j \in ItemIds : items[j].project = plan.project}}) + 1

CommitSubmit(o) ==
    LET plan == plans[o] IN
    /\ plan.cmd = "submit"
    /\ Len(items) < MaxItems
    /\ items' = IF AdmitAllowed(plan)
                THEN Append(items, NewItem(plan.project, plan.revision, NextAttempt(plan),
                                           plan.state, FALSE))
                ELSE items
    /\ Finished(o)
    /\ UNCHANGED <<revisions, projects, disk>>

(* _snapshot_from_row: an admission loads with its revision.               *)
SnapshotLoads(i) == Loadable(items[i].revision)

(* _queue_item_from_row: imported items have no snapshot.                  *)
IsLegacy(i) == revisions[items[i].revision].kind = "legacy-v4"
ItemLoads(i) == IsLegacy(i) \/ SnapshotLoads(i)

(* _mutate_item: hold, release and remove, on a view authenticated first.  *)
MutateItem(i, allowed, state) ==
    /\ ItemLoads(i)
    /\ items[i].state \in allowed
    /\ items' = [items EXCEPT ![i].state = state]
    /\ UNCHANGED <<revisions, projects, disk, plans>>

HoldItem(i) == MutateItem(i, {"queued"}, "held")
ReleaseItem(i) == MutateItem(i, {"held"}, "queued")
RemoveItem(i) == MutateItem(i, Pending, "removed")

(* The host's administrator prunes a repository, moves or restores a root. *)
RootChanges(r, condition) ==
    /\ disk[r] # condition
    /\ disk' = [disk EXCEPT ![r] = condition]
    /\ UNCHANGED <<revisions, projects, items, plans>>

Operate(o) ==
    \/ \E p \in Projects, r \in Roots, l \in {"active", "paused"} : PlanRegister(o, p, r, l)
    \/ \E p \in Projects, r \in Roots, activate \in BOOLEAN : PlanAppend(o, p, r, activate)
    \/ \E p \in Projects, state \in Pending : PlanSubmit(o, p, state)
    \/ CommitRegister(o)
    \/ CommitAppend(o)
    \/ CommitSubmit(o)

Administer ==
    \/ \E p \in Projects, id \in RevisionIds : ActivateRevision(p, id)
    \/ \E p \in Projects, target \in Lifecycles : TransitionProject(p, target)
    \/ \E p \in Projects : CloseCircuit(p)
    \/ \E i \in ItemIds : HoldItem(i) \/ ReleaseItem(i) \/ RemoveItem(i)

CatalogNext == Administer \/ \E o \in Operators : Operate(o)

=============================================================================
