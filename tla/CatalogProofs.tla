---------------------------- MODULE CatalogProofs ---------------------------
(***************************************************************************)
(* What the catalogue promises, for any Projects, roots, operators and     *)
(* bounds.  The inductive invariant ties the numbers an operator read when *)
(* it planned (the next revision id and sequence) to the rows that may     *)
(* have been committed since.                                              *)
(***************************************************************************)
EXTENDS Worktrees, FiniteSetTheorems, SequenceTheorems, TLAPS

\* A leaf that names no prover is a first-order step, left to Zenon.
USE Zenon

RevisionRecords == [project : Projects, sequence : Nat, kind : {"project-v1", "legacy-v4"},
                    root : Roots]
ProjectRecords == [lifecycle : Lifecycles, current : Nat, open : BOOLEAN]
ItemRecords == [project : Projects, revision : Nat, attempt : Nat, state : ItemStates,
                lease : BOOLEAN, inherited : BOOLEAN, recorded : BOOLEAN, removed : BOOLEAN,
                failed : BOOLEAN]
PlanRecords ==
    [cmd : {"none"}]
    \cup [cmd : {"register"}, project : Projects, root : Roots, id : Nat, sequence : Nat,
          lifecycle : {"active", "paused"}]
    \cup [cmd : {"append"}, project : Projects, root : Roots, id : Nat, sequence : Nat,
          activate : BOOLEAN]
    \cup [cmd : {"submit"}, project : Projects, revision : Nat, state : Pending]

CatalogType ==
    /\ revisions \in Seq(RevisionRecords)
    /\ projects \in [Projects -> ProjectRecords]
    /\ items \in Seq(ItemRecords)
    /\ plans \in [Operators -> PlanRecords]

(* No sequence is larger than its id, and neither was read from the        *)
(* future; ids and current revisions are those of rows.                    *)
NumbersInv ==
    /\ \A id \in RevisionIds : revisions[id].sequence \in 1 .. id
    /\ \A p \in Projects : IsRegistered(p) => projects[p].current \in RevisionsOf(p)
    /\ \A o \in Operators : plans[o].cmd \in {"register", "append"} =>
           /\ plans[o].id \in 1 .. Len(revisions) + 1
           /\ plans[o].sequence \in 1 .. plans[o].id
    /\ \A o \in Operators : plans[o].cmd = "append" => IsRegistered(plans[o].project)

(* An item's revision is a row of its Project, not later than the current. *)
ItemsInv == \A i \in ItemIds :
    /\ items[i].revision \in RevisionsOf(items[i].project)
    /\ IsRegistered(items[i].project)
    /\ SequenceOf(items[i].revision) <= CurrentSequence(items[i].project)

(* The two halves of AdmissionIsOrdered.                                   *)
InOrder == \A i, j \in ItemIds :
    i < j /\ items[i].project = items[j].project
        => SequenceOf(items[i].revision) <= SequenceOf(items[j].revision)

Earlier(i, p) == {j \in 1 .. i : items[j].project = p}
Numbered == \A i \in ItemIds : items[i].attempt = Cardinality(Earlier(i, items[i].project))

CatalogInv == CatalogType /\ NumbersInv /\ ItemsInv /\ RootsStayDisjoint /\ InOrder /\ Numbered

-----------------------------------------------------------------------------
(* Numbers.                                                                *)

(* A non-empty set of naturals has a smallest element.                     *)
LEMMA SmallestOf ==
    ASSUME NEW S \in SUBSET Nat, S # {}
    PROVE  \E x \in S : \A y \in S : x <= y
<1> DEFINE Less == {ss \in Nat \X Nat : ss[1] < ss[2]}
<1>1. IsWellFoundedOn(Less, Nat)
  BY NatLessThanWellFounded DEF OpToRel
<1> HIDE DEF Less
<1>2. PICK x \in S : \A y \in S : ~(<<y, x>> \in Less)
  BY <1>1, WFMin
<1>3. ASSUME NEW y \in Nat, NEW z \in Nat, y < z PROVE <<y, z>> \in Less
  BY <1>3 DEF Less
<1>4. \A y \in S : ~(y < x)
  BY <1>2, <1>3
<1> QED
  BY <1>4, SMT

(* Max of a non-empty, bounded set of naturals is its largest element.     *)
LEMMA MaxOf ==
    ASSUME NEW S \in SUBSET Nat, S # {}, NEW bound \in Nat, \A y \in S : y <= bound
    PROVE  Max(S) \in S /\ \A y \in S : y <= Max(S)
<1> DEFINE Bounds == {b \in Nat : \A y \in S : y <= b}
<1>1. bound \in Bounds /\ Bounds \in SUBSET Nat
  OBVIOUS
<1>2. PICK m \in Bounds : \A b \in Bounds : m <= b
  BY <1>1, SmallestOf
<1>3. m \in S
  <2>1. SUFFICES ASSUME m \notin S PROVE FALSE
    OBVIOUS
  <2>2. PICK y \in S : TRUE
    OBVIOUS
  <2>3. \A z \in S : z <= m - 1
    BY <2>1, SMT
  <2>4. m - 1 \in Bounds
    BY <2>2, <2>3, SMT
  <2> QED
    BY <2>4, <1>2, SMT
<1>4. \E x \in S : \A y \in S : x >= y
  BY <1>3
<1> QED
  BY <1>4 DEF Max

-----------------------------------------------------------------------------
(* The scheduler's steps and the environment leave the catalogue alone,    *)
(* but for circuits, and the state and the worktree columns of items.      *)

SameAdmission(v, w) ==
    v.project = w.project /\ v.revision = w.revision /\ v.attempt = w.attempt

ItemsFrame ==
    /\ items' \in Seq(ItemRecords)
    /\ Len(items') = Len(items)
    /\ \A j \in ItemIds : SameAdmission(items'[j], items[j])

ProjectsFrame ==
    /\ projects' \in [Projects -> ProjectRecords]
    /\ \A p \in Projects : /\ projects'[p].lifecycle = projects[p].lifecycle
                           /\ projects'[p].current = projects[p].current

CatalogFrame ==
    /\ revisions' = revisions
    /\ plans' = plans
    /\ ProjectsFrame
    /\ ItemsFrame

LEMMA NoStep ==
    ASSUME CatalogType
    PROVE  /\ UNCHANGED items => ItemsFrame
           /\ UNCHANGED projects => ProjectsFrame
BY DEF ItemsFrame, ProjectsFrame, SameAdmission, CatalogType

LEMMA ItemTyped ==
    ASSUME CatalogType, NEW i \in ItemIds
    PROVE  items[i] \in ItemRecords
BY ElementOfSeq DEF CatalogType, ItemIds

(* Replacing one item by one of the same admission.                        *)
LEMMA ItemStep ==
    ASSUME CatalogType, NEW i \in ItemIds, NEW v \in ItemRecords,
           SameAdmission(v, items[i]),
           items' = [items EXCEPT ![i] = v]
    PROVE  ItemsFrame
<1>1. items \in Seq(ItemRecords) /\ i \in 1 .. Len(items)
  BY DEF CatalogType, ItemIds
<1>2. /\ items' \in Seq(ItemRecords) /\ Len(items') = Len(items)
      /\ \A j \in 1 .. Len(items) : items'[j] = IF j = i THEN v ELSE items[j]
  BY <1>1, ExceptSeq, SMT
<1> QED
  BY <1>2 DEF ItemIds, ItemsFrame, SameAdmission

(* quarantine_project and close_project_circuit.                           *)
LEMMA CircuitStep ==
    ASSUME CatalogType, NEW q \in Projects, NEW b \in BOOLEAN,
           projects' = [projects EXCEPT ![q].open = b]
    PROVE  ProjectsFrame
BY DEF CatalogType, ProjectRecords, ProjectsFrame

LEMMA QuarantineStep ==
    ASSUME CatalogType, NEW i \in ItemIds, Quarantine(i)
    PROVE  ProjectsFrame
<1>1. items[i].project \in Projects
  BY ItemTyped DEF ItemRecords
<1> QED
  BY <1>1, CircuitStep DEF Quarantine

(* The ways in which the scheduler changes an item.                        *)
LEMMA StateStep ==
    ASSUME CatalogType, NEW i \in ItemIds, NEW s \in ItemStates, NEW b \in BOOLEAN,
           \/ items' = [items EXCEPT ![i].state = s]
           \/ items' = [items EXCEPT ![i].lease = b]
           \/ items' = [items EXCEPT ![i].state = s, ![i].lease = b]
    PROVE  ItemsFrame
<1>1. items[i] \in ItemRecords
  BY ItemTyped
<1>2. CASE items' = [items EXCEPT ![i].state = s]
  <2> DEFINE v == [items[i] EXCEPT !.state = s]
  <2>1. v \in ItemRecords /\ SameAdmission(v, items[i])
    BY <1>1 DEF ItemRecords, SameAdmission
  <2>2. items' = [items EXCEPT ![i] = v]
    BY <1>2 DEF CatalogType
  <2> HIDE DEF v
  <2> QED
    BY <2>1, <2>2, ItemStep
<1>3. CASE items' = [items EXCEPT ![i].lease = b]
  <2> DEFINE v == [items[i] EXCEPT !.lease = b]
  <2>1. v \in ItemRecords /\ SameAdmission(v, items[i])
    BY <1>1 DEF ItemRecords, SameAdmission
  <2>2. items' = [items EXCEPT ![i] = v]
    BY <1>3 DEF CatalogType
  <2> HIDE DEF v
  <2> QED
    BY <2>1, <2>2, ItemStep
<1>4. CASE items' = [items EXCEPT ![i].state = s, ![i].lease = b]
  <2> DEFINE v == [items[i] EXCEPT !.state = s, !.lease = b]
  <2>1. v \in ItemRecords /\ SameAdmission(v, items[i])
    BY <1>1 DEF ItemRecords, SameAdmission
  <2>2. items' = [items EXCEPT ![i] = v]
    BY <1>4 DEF CatalogType
  <2> HIDE DEF v
  <2> QED
    BY <2>1, <2>2, ItemStep
<1> QED
  BY <1>2, <1>3, <1>4

LEMMA ColumnStep ==
    ASSUME CatalogType, NEW i \in ItemIds,
           \/ items' = [items EXCEPT ![i].recorded = TRUE, ![i].removed = FALSE, ![i].failed = FALSE]
           \/ items' = [items EXCEPT ![i].failed = TRUE, ![i].removed = FALSE]
           \/ items' = [items EXCEPT ![i].removed = TRUE, ![i].failed = FALSE]
    PROVE  ItemsFrame
<1>1. items[i] \in ItemRecords
  BY ItemTyped
<1>2. CASE items' = [items EXCEPT ![i].recorded = TRUE, ![i].removed = FALSE, ![i].failed = FALSE]
  <2> DEFINE v == [items[i] EXCEPT !.recorded = TRUE, !.removed = FALSE, !.failed = FALSE]
  <2>1. v \in ItemRecords /\ SameAdmission(v, items[i])
    BY <1>1 DEF ItemRecords, SameAdmission
  <2>2. items' = [items EXCEPT ![i] = v]
    BY <1>2 DEF CatalogType
  <2> HIDE DEF v
  <2> QED
    BY <2>1, <2>2, ItemStep
<1>3. CASE items' = [items EXCEPT ![i].failed = TRUE, ![i].removed = FALSE]
  <2> DEFINE v == [items[i] EXCEPT !.failed = TRUE, !.removed = FALSE]
  <2>1. v \in ItemRecords /\ SameAdmission(v, items[i])
    BY <1>1 DEF ItemRecords, SameAdmission
  <2>2. items' = [items EXCEPT ![i] = v]
    BY <1>3 DEF CatalogType
  <2> HIDE DEF v
  <2> QED
    BY <2>1, <2>2, ItemStep
<1>4. CASE items' = [items EXCEPT ![i].removed = TRUE, ![i].failed = FALSE]
  <2> DEFINE v == [items[i] EXCEPT !.removed = TRUE, !.failed = FALSE]
  <2>1. v \in ItemRecords /\ SameAdmission(v, items[i])
    BY <1>1 DEF ItemRecords, SameAdmission
  <2>2. items' = [items EXCEPT ![i] = v]
    BY <1>4 DEF CatalogType
  <2> HIDE DEF v
  <2> QED
    BY <2>1, <2>2, ItemStep
<1> QED
  BY <1>2, <1>3, <1>4

LEMMA PrepareFrame ==
    ASSUME CatalogType, NEW i \in ItemIds, PrepareSteps(i)
    PROVE  CatalogFrame
<1> USE NoStep DEF CatalogFrame, Same
<1>0. "active" \in ItemStates /\ "ended" \in ItemStates
  BY DEF ItemStates, Terminal
<1>1. RefusePreparation(i) => ProjectsFrame /\ ItemsFrame
  BY QuarantineStep DEF RefusePreparation
<1>2. CASE Prepare(i)
  BY <1>1, <1>2 DEF Prepare
<1>3. CASE EnsureRef(i)
  BY <1>1, <1>3 DEF EnsureRef
<1>4. CASE Added(i)
  BY <1>1, <1>4 DEF Added
<1>5. CASE Filled(i)
  BY <1>1, <1>5 DEF Filled
<1>6. CASE Recorded(i)
  BY <1>6, ColumnStep DEF Recorded
<1>7. CASE PreparePayload(i)
  BY <1>7 DEF PreparePayload
<1>8. CASE RefuseDispatch(i)
  BY <1>1, <1>8 DEF RefuseDispatch
<1>9. CASE Claim(i)
  BY <1>0, <1>9, StateStep DEF Claim
<1>10. CASE Launch(i)
  BY <1>0, <1>10, StateStep DEF Launch
<1> QED
  BY <1>2, <1>3, <1>4, <1>5, <1>6, <1>7, <1>8, <1>9, <1>10
  DEF PrepareSteps, AddWorktree, AddLegacyWorktree, Materialize, LinkSharedPaths, RecordPrepared,
      RecordAdopted

LEMMA FinishFrame ==
    ASSUME CatalogType, NEW i \in ItemIds, FinishSteps(i)
    PROVE  CatalogFrame
<1> USE NoStep DEF CatalogFrame, Same
<1>0. "queued" \in ItemStates /\ "ended" \in ItemStates
  BY DEF ItemStates, Terminal, Pending
<1>1. CASE FinishLocal(i)
  BY <1>0, <1>1, StateStep DEF FinishLocal
<1>2. CASE FinishRestarted(i)
  BY <1>0, <1>2, StateStep, QuarantineStep DEF FinishRestarted
<1>3. CASE ReleaseLease(i)
  BY <1>0, <1>3, StateStep, QuarantineStep DEF ReleaseLease
<1> QED
  BY <1>1, <1>2, <1>3 DEF FinishSteps

LEMMA CleanupFrame ==
    ASSUME CatalogType, NEW i \in ItemIds, CleanupSteps(i)
    PROVE  CatalogFrame
<1> USE NoStep DEF CatalogFrame, Same
<1>1. CleanupFailed(i) => ProjectsFrame /\ ItemsFrame
  BY QuarantineStep, ColumnStep DEF CleanupFailed
<1>2. CASE CheckCleanup(i)
  BY <1>1, <1>2 DEF CheckCleanup
<1>3. CASE RemoveWorktree(i)
  BY <1>1, <1>3 DEF RemoveWorktree
<1>4. CASE DeleteRef(i)
  BY <1>1, <1>4 DEF DeleteRef
<1>5. CASE Erased(i)
  BY <1>5, ColumnStep DEF Erased
<1>6. CASE SweepOrphan(i)
  BY <1>6, QuarantineStep DEF SweepOrphan
<1> QED
  BY <1>2, <1>3, <1>4, <1>5, <1>6 DEF CleanupSteps, RecordRemoved, RecordLegacyRemoved

LEMMA FrameStep ==
    ASSUME CatalogType, Service \/ Environment
    PROVE  CatalogFrame
<1> USE NoStep DEF CatalogFrame
<1>1. ASSUME NEW i \in ItemIds, PrepareSteps(i) \/ FinishSteps(i) \/ CleanupSteps(i)
      PROVE  CatalogFrame
  BY <1>1, PrepareFrame, FinishFrame, CleanupFrame
<1>2. CASE BeginDispatch \/ EndIteration \/ StartService
  BY <1>2 DEF BeginDispatch, EndIteration, StartService, Same, catalogVars
<1>3. CASE Environment
  BY <1>3 DEF Environment, JobWrites, ExecutorEnds, RefMoves, Crash, RootChanges, catalogVars
<1> QED
  BY <1>1, <1>2, <1>3 DEF Service

-----------------------------------------------------------------------------
(* The invariant holds under the frame, and when an operator plans.        *)

LEMMA FramePreserves ==
    ASSUME CatalogInv, CatalogFrame
    PROVE  CatalogInv'
<1> USE DEF CatalogInv, CatalogFrame
<1>0. RevisionIds' = RevisionIds /\ ItemIds' = ItemIds
  BY DEF RevisionIds, ItemIds, ItemsFrame
<1>1. CatalogType'
  BY DEF CatalogType, ItemsFrame, ProjectsFrame
<1>2. \A p \in Projects : /\ IsRegistered(p)' <=> IsRegistered(p)
                          /\ RevisionsOf(p)' = RevisionsOf(p)
                          /\ CurrentSequence(p)' = CurrentSequence(p)
  BY <1>0 DEF ProjectsFrame, IsRegistered, RevisionsOf, CurrentSequence, SequenceOf
<1>3. \A o \in Operators : plans[o].cmd = "append" => plans[o].project \in Projects
  BY DEF CatalogType, PlanRecords
<1>4. NumbersInv'
  BY <1>0, <1>2, <1>3 DEF NumbersInv, ProjectsFrame
<1>5. \A j \in ItemIds : items[j].project \in Projects /\ SameAdmission(items'[j], items[j])
  BY ItemTyped DEF ItemsFrame, ItemRecords
<1>6. ItemsInv'
  BY <1>0, <1>2, <1>5 DEF ItemsInv, SequenceOf, SameAdmission
<1>7. RootsStayDisjoint'
  BY <1>0 DEF RootsStayDisjoint, Overlap
<1>8. InOrder'
  BY <1>0, <1>5, SMT DEF InOrder, SequenceOf, SameAdmission
<1>9. Numbered'
  <2>1. ASSUME NEW j \in ItemIds
        PROVE  Earlier(j, items[j].project)' = Earlier(j, items[j].project)
    <3>1. 1 .. j \subseteq ItemIds
      BY SMT DEF ItemIds, CatalogType
    <3> QED
      BY <3>1, <1>5 DEF Earlier, SameAdmission
  <2> QED
    BY <1>0, <1>5, <2>1 DEF Numbered, SameAdmission
<1> QED
  BY <1>1, <1>4, <1>6, <1>7, <1>8, <1>9

(* A plan whose numbers fit the rows.                                      *)
LEMMA PlanPreserves ==
    ASSUME CatalogInv, NEW o \in Operators, NEW plan \in PlanRecords,
           plan.cmd \in {"register", "append"} =>
               plan.id = Len(revisions) + 1 /\ plan.sequence \in 1 .. plan.id,
           plan.cmd = "append" => IsRegistered(plan.project),
           plans' = [plans EXCEPT ![o] = plan],
           UNCHANGED <<revisions, projects, items>>
    PROVE  CatalogInv'
<1>1. CatalogType'
  BY DEF CatalogInv, CatalogType
<1>2. Len(revisions) \in Nat
  BY SMT DEF CatalogInv, CatalogType
<1>3. \A q \in Operators : plans'[q] = IF q = o THEN plan ELSE plans[q]
  BY DEF CatalogInv, CatalogType
<1>4. NumbersInv'
  BY <1>2, <1>3, SMT DEF CatalogInv, NumbersInv, RevisionIds, RevisionsOf, IsRegistered
<1>5. ItemsInv'
  BY DEF CatalogInv, ItemsInv, ItemIds, RevisionsOf, RevisionIds, IsRegistered, SequenceOf,
         CurrentSequence
<1>6. RootsStayDisjoint'
  BY ZenonT(40) DEF CatalogInv, RootsStayDisjoint, RevisionIds, Overlap
<1>7. InOrder' /\ Numbered'
  BY DEF CatalogInv, InOrder, Numbered, ItemIds, SequenceOf, Earlier
<1> QED
  BY <1>1, <1>4, <1>5, <1>6, <1>7 DEF CatalogInv

(* next_revision_identity: one more than the largest sequence.             *)
LEMMA NextSequence ==
    ASSUME CatalogInv, NEW p \in Projects, IsRegistered(p)
    PROVE  Max({SequenceOf(id) : id \in RevisionsOf(p)}) + 1 \in 1 .. Len(revisions) + 1
<1> DEFINE S == {SequenceOf(id) : id \in RevisionsOf(p)}
<1>1. Len(revisions) \in Nat
  BY SMT DEF CatalogInv, CatalogType
<1>2. \A id \in RevisionsOf(p) : SequenceOf(id) \in 1 .. Len(revisions)
  BY <1>1, SMT DEF CatalogInv, NumbersInv, RevisionsOf, RevisionIds, SequenceOf
<1>3. S # {}
  BY DEF CatalogInv, NumbersInv
<1>4. S \in SUBSET Nat /\ \A y \in S : y <= Len(revisions)
  BY <1>1, <1>2, SMT
<1> HIDE DEF S
<1>5. Max(S) \in S
  BY <1>1, <1>3, <1>4, MaxOf
<1> USE DEF S
<1> QED
  BY <1>1, <1>2, <1>5, SMT

LEMMA PlanStep ==
    ASSUME CatalogInv, NEW o \in Operators, NEW p \in Projects, NEW r \in Roots,
           \/ \E l \in {"active", "paused"} : PlanRegister(o, p, r, l)
           \/ \E activate \in BOOLEAN : PlanAppend(o, p, r, activate)
           \/ \E state \in Pending : PlanSubmit(o, p, state)
    PROVE  CatalogInv'
<1>1. Len(revisions) \in Nat
  BY SMT DEF CatalogInv, CatalogType
<1>2. CASE \E l \in {"active", "paused"} : PlanRegister(o, p, r, l)
  <2>1. PICK l \in {"active", "paused"} : PlanRegister(o, p, r, l)
    BY <1>2
  <2> DEFINE plan == [cmd |-> "register", project |-> p, root |-> r, id |-> Len(revisions) + 1,
                      sequence |-> 1, lifecycle |-> l]
  <2>2. plan \in PlanRecords
    BY <1>1, SMT DEF PlanRecords
  <2>3. plans' = [plans EXCEPT ![o] = plan] /\ UNCHANGED <<revisions, projects, items>>
    BY <2>1 DEF PlanRegister, Plan
  <2>4. plan.cmd = "register" /\ plan.id = Len(revisions) + 1 /\ plan.sequence \in 1 .. plan.id
    BY <1>1, SMT
  <2> HIDE DEF plan
  <2> QED
    BY <2>2, <2>3, <2>4, PlanPreserves
<1>3. CASE \E activate \in BOOLEAN : PlanAppend(o, p, r, activate)
  <2>1. PICK activate \in BOOLEAN : PlanAppend(o, p, r, activate)
    BY <1>3
  <2> DEFINE next == Max({SequenceOf(id) : id \in RevisionsOf(p)}) + 1
             plan == [cmd |-> "append", project |-> p, root |-> r, id |-> Len(revisions) + 1,
                      sequence |-> next, activate |-> activate]
  <2>2. IsRegistered(p)
    BY <2>1 DEF PlanAppend, SummaryReads
  <2>3. next \in 1 .. Len(revisions) + 1
    BY <2>2, NextSequence
  <2>4. plans' = [plans EXCEPT ![o] = plan] /\ UNCHANGED <<revisions, projects, items>>
    BY <2>1 DEF PlanAppend, Plan
  <2> HIDE DEF next
  <2>5. plan \in PlanRecords
    BY <1>1, <2>3, SMT DEF PlanRecords
  <2> QED
    BY <1>1, <2>2, <2>3, <2>4, <2>5, PlanPreserves
<1>4. CASE \E state \in Pending : PlanSubmit(o, p, state)
  <2>1. PICK state \in Pending : PlanSubmit(o, p, state)
    BY <1>4
  <2>2. Compiled(p, state) \in PlanRecords /\ Compiled(p, state).cmd = "submit"
    BY DEF Compiled, PlanRecords, CatalogInv, CatalogType, ProjectRecords
  <2>3. plans' = [plans EXCEPT ![o] = Compiled(p, state)]
        /\ UNCHANGED <<revisions, projects, items>>
    BY <2>1 DEF PlanSubmit, Plan
  <2> QED
    BY <2>2, <2>3, PlanPreserves
<1> QED
  BY <1>2, <1>3, <1>4

-----------------------------------------------------------------------------
(* The commits.                                                            *)

(* A row appended to project_revisions takes the planned id.               *)
LEMMA RowAdded ==
    ASSUME CatalogInv, NEW o \in Operators, NEW plan, plan = plans[o],
           plan.cmd \in {"register", "append"},
           plan.id \notin RevisionIds,
           AddRevision(plan), NEW n, n = Len(revisions)
    PROVE  /\ n \in Nat /\ RevisionIds = 1 .. n
           /\ plan.project \in Projects
           /\ plan.id = n + 1 /\ plan.sequence \in 1 .. n + 1
           /\ revisions' \in Seq(RevisionRecords) /\ Len(revisions') = n + 1
           /\ \A id \in 1 .. n : revisions'[id] = revisions[id]
           /\ revisions'[n + 1] = NewRevision(plan)
<1>1. n \in Nat /\ RevisionIds = 1 .. n /\ revisions \in Seq(RevisionRecords)
  BY SMT DEF CatalogInv, CatalogType, RevisionIds
<1>2. plan \in PlanRecords
  BY DEF CatalogInv, CatalogType
<1>3. /\ plan.project \in Projects /\ plan.root \in Roots
      /\ plan.id \in Nat /\ plan.sequence \in Nat
  BY <1>2 DEF PlanRecords
<1>4. plan.id = n + 1 /\ plan.sequence \in 1 .. n + 1
  BY <1>1, SMT DEF CatalogInv, NumbersInv
<1>5. NewRevision(plan) \in RevisionRecords
  BY <1>3 DEF NewRevision, RevisionRecords
<1>6. /\ revisions' \in Seq(RevisionRecords) /\ Len(revisions') = n + 1
      /\ \A id \in 1 .. n : revisions'[id] = revisions[id]
      /\ revisions'[n + 1] = NewRevision(plan)
  BY <1>1, <1>5, AppendProperties, SMT DEF AddRevision
<1> QED
  BY <1>1, <1>3, <1>4, <1>6

(* After _assert_root_isolation; the Project's current revision stays, or  *)
(* becomes the new row when its sequence is larger.                        *)
LEMMA RevisionAdded ==
    ASSUME CatalogInv, NEW o \in Operators, NEW plan, plan = plans[o],
           plan.cmd \in {"register", "append"},
           plan.id \notin RevisionIds,
           RootsIsolated(plan.project, plan.root),
           AddRevision(plan),
           projects' \in [Projects -> ProjectRecords],
           \A p \in Projects :
               \/ projects'[p].current = projects[p].current
               \/ /\ p = plan.project /\ projects'[p].current = plan.id
                  /\ IsRegistered(p) => CurrentSequence(p) < plan.sequence,
           Finished(o), UNCHANGED items
    PROVE  CatalogInv'
<1>0. PICK n : n = Len(revisions)
  OBVIOUS
<1>1. n \in Nat /\ RevisionIds = 1 .. n
  BY <1>0, RowAdded
<1>3. plan.project \in Projects /\ plan.sequence \in Nat
  BY <1>0, RowAdded, SMT
<1>4. plan.id = n + 1 /\ plan.sequence \in 1 .. n + 1
  BY <1>0, RowAdded
<1>6. /\ revisions' \in Seq(RevisionRecords) /\ Len(revisions') = n + 1
      /\ \A id \in 1 .. n : revisions'[id] = revisions[id]
      /\ revisions'[n + 1] = NewRevision(plan)
  BY <1>0, RowAdded, SMT
<1>7. RevisionIds' = 1 .. n + 1
  BY <1>6 DEF RevisionIds
<1>8. /\ plans' \in [Operators -> PlanRecords]
      /\ \A q \in Operators : plans'[q] = plans[q] \/ plans'[q].cmd = "none"
  BY DEF Finished, Idle, CatalogInv, CatalogType, PlanRecords
<1>9. CatalogType'
  BY <1>6, <1>8 DEF CatalogInv, CatalogType
<1>10. \A p \in Projects : RevisionsOf(p) \subseteq RevisionsOf(p)'
  BY <1>1, <1>6, <1>7, SMT DEF RevisionsOf
<1>11. n + 1 \in RevisionsOf(plan.project)' /\ revisions'[n + 1].sequence = plan.sequence
  BY <1>1, <1>6, <1>7, SMT DEF RevisionsOf, NewRevision
<1>12. ASSUME NEW p \in Projects, IsRegistered(p)
       PROVE  /\ IsRegistered(p)'
              /\ CurrentSequence(p) \in Nat /\ CurrentSequence(p)' \in Nat
              /\ CurrentSequence(p) <= CurrentSequence(p)'
  <2>1. projects[p].current \in 1 .. n /\ revisions[projects[p].current].sequence \in Nat
    BY <1>1, <1>12, SMT DEF CatalogInv, NumbersInv, RevisionsOf
  <2>2. CASE projects'[p].current = projects[p].current
    BY <1>6, <1>12, <2>1, <2>2, SMT DEF IsRegistered, CurrentSequence, SequenceOf
  <2>3. CASE /\ projects'[p].current = n + 1
             /\ CurrentSequence(p) < plan.sequence
    BY <1>1, <1>3, <1>11, <2>1, <2>3, SMT DEF IsRegistered, CurrentSequence, SequenceOf
  <2> QED
    BY <1>4, <1>12, <2>2, <2>3
<1>13. NumbersInv'
  <2>1. \A id \in 1 .. n + 1 : revisions'[id].sequence \in 1 .. id
    BY <1>1, <1>4, <1>6, <1>11, SMT DEF CatalogInv, NumbersInv
  <2>2. \A p \in Projects : IsRegistered(p)' => projects'[p].current \in RevisionsOf(p)'
    BY <1>4, <1>10, <1>11 DEF CatalogInv, NumbersInv, IsRegistered
  <2>3. \A q \in Operators : plans'[q].cmd \in {"register", "append"} =>
            /\ plans'[q].id \in 1 .. Len(revisions') + 1
            /\ plans'[q].sequence \in 1 .. plans'[q].id
    BY <1>0, <1>1, <1>6, <1>8, SMT DEF CatalogInv, NumbersInv
  <2>4. \A q \in Operators : plans'[q].cmd = "append" => plans[q] = plans'[q]
                                                        /\ plans[q].project \in Projects
    BY <1>8 DEF PlanRecords
  <2>5. \A q \in Operators : plans'[q].cmd = "append" => projects'[plans'[q].project].current # 0
    BY <1>12, <2>4 DEF CatalogInv, NumbersInv, IsRegistered
  <2> QED
    BY <1>7, <2>1, <2>2, <2>3, <2>5 DEF NumbersInv, IsRegistered
<1>14. \A i \in ItemIds : items[i].project \in Projects
  BY ItemTyped DEF CatalogInv, ItemRecords
<1>15. \A i \in ItemIds : /\ items[i].revision \in 1 .. n
                          /\ revisions'[items[i].revision] = revisions[items[i].revision]
                          /\ revisions[items[i].revision].sequence \in Nat
  BY <1>1, <1>6, SMT DEF CatalogInv, ItemsInv, RevisionsOf, NumbersInv
<1>16. ItemsInv'
  BY <1>10, <1>12, <1>14, <1>15, SMT DEF CatalogInv, ItemsInv, ItemIds, SequenceOf
<1>17. InOrder' /\ Numbered'
  BY <1>15 DEF CatalogInv, InOrder, Numbered, ItemIds, SequenceOf, Earlier
<1>18. RootsStayDisjoint'
  <2>1. \A id \in 1 .. n : revisions[id].project # plan.project => ~Overlap(plan.root, revisions[id].root)
    BY <1>1 DEF RootsIsolated, Disjoint, RevisionsOf
  <2>2. \A x, y : Overlap(x, y) <=> Overlap(y, x)
    <3>1. \A x, y : {x, y} = {y, x}
      OBVIOUS
    <3> QED
      BY <3>1 DEF Overlap
  <2>3. revisions'[n + 1].project = plan.project /\ revisions'[n + 1].root = plan.root
    BY <1>6, SMT DEF NewRevision
  <2>4. \A a, b \in 1 .. n :
            revisions[a].project # revisions[b].project => ~Overlap(revisions[a].root, revisions[b].root)
    BY <1>1 DEF CatalogInv, RootsStayDisjoint
  <2>5. \A a, b \in 1 .. n + 1 : revisions'[a].project # revisions'[b].project
            => ~Overlap(revisions'[a].root, revisions'[b].root)
    BY <1>1, <1>6, <2>1, <2>2, <2>3, <2>4, SMT
  <2> QED
    BY <1>7, <2>5 DEF RootsStayDisjoint, Overlap
<1> QED
  BY <1>9, <1>13, <1>16, <1>17, <1>18 DEF CatalogInv

(* A commit that was refused only ends its plan.                           *)
LEMMA Refused ==
    ASSUME CatalogInv, NEW o \in Operators, Finished(o), UNCHANGED <<revisions, projects, items>>
    PROVE  CatalogInv'
<1>1. Idle \in PlanRecords /\ Idle.cmd = "none"
  BY DEF Idle, PlanRecords
<1> QED
  BY <1>1, PlanPreserves DEF Finished

LEMMA RegisterStep ==
    ASSUME CatalogInv, NEW o \in Operators, CommitRegister(o)
    PROVE  CatalogInv'
<1> DEFINE plan == plans[o]
<1>1. plan \in PlanRecords /\ plan.cmd = "register"
  BY DEF CatalogInv, CatalogType, CommitRegister
<1>2. plan.project \in Projects /\ plan.lifecycle \in Lifecycles /\ plan.id \in Nat
  BY <1>1 DEF PlanRecords, Lifecycles
<1>3. CASE RegisterAllowed(plan)
  <2>1. projects' = [projects EXCEPT ![plan.project] =
            [lifecycle |-> plan.lifecycle, current |-> plan.id, open |-> FALSE]]
    BY <1>3 DEF CommitRegister
  <2>2. projects' \in [Projects -> ProjectRecords]
    BY <1>2, <2>1 DEF CatalogInv, CatalogType, ProjectRecords
  <2>3. \A p \in Projects : \/ projects'[p].current = projects[p].current
                            \/ /\ p = plan.project /\ projects'[p].current = plan.id
                               /\ ~IsRegistered(p)
    BY <1>2, <1>3, <2>1 DEF CatalogInv, CatalogType, RegisterAllowed
  <2>4. AddRevision(plan) /\ Finished(o) /\ UNCHANGED items
    BY <1>3 DEF CommitRegister
  <2>5. plan.id \notin RevisionIds /\ RootsIsolated(plan.project, plan.root)
    BY <1>3 DEF RegisterAllowed
  <2> QED
    BY <1>1, <2>2, <2>3, <2>4, <2>5, RevisionAdded
<1>4. CASE ~RegisterAllowed(plan)
  BY <1>4, Refused DEF CommitRegister
<1> QED
  BY <1>3, <1>4

LEMMA AppendStep ==
    ASSUME CatalogInv, NEW o \in Operators, CommitAppend(o)
    PROVE  CatalogInv'
<1> DEFINE plan == plans[o]
<1>1. plan \in PlanRecords /\ plan.cmd = "append"
  BY DEF CatalogInv, CatalogType, CommitAppend
<1>2. plan.project \in Projects /\ plan.id \in Nat /\ plan.sequence \in Nat
  BY <1>1 DEF PlanRecords
<1>3. CASE AppendAllowed(plan)
  <2>1. projects' = IF plan.activate THEN [projects EXCEPT ![plan.project].current = plan.id]
                    ELSE projects
    BY <1>3 DEF CommitAppend
  <2>2. projects' \in [Projects -> ProjectRecords]
    BY <1>2, <2>1 DEF CatalogInv, CatalogType, ProjectRecords
  <2>3. \A p \in Projects : \/ projects'[p].current = projects[p].current
                            \/ p = plan.project /\ projects'[p].current = plan.id
    BY <1>2, <2>1 DEF CatalogInv, CatalogType, ProjectRecords
  <2>4. CurrentSequence(plan.project) \in Nat
    BY <1>1, <1>2, SMT DEF CatalogInv, NumbersInv, RevisionsOf, CurrentSequence, SequenceOf,
                      CatalogType, RevisionIds
  <2>5. CurrentSequence(plan.project) < plan.sequence
    BY <1>2, <1>3, <2>4 DEF AppendAllowed, MayFollow
  <2>6. AddRevision(plan) /\ Finished(o) /\ UNCHANGED items
    BY <1>3 DEF CommitAppend
  <2>7. plan.id \notin RevisionIds /\ RootsIsolated(plan.project, plan.root)
    BY <1>3 DEF AppendAllowed
  <2> QED
    BY <1>1, <2>2, <2>3, <2>5, <2>6, <2>7, RevisionAdded
<1>4. CASE ~AppendAllowed(plan)
  BY <1>4, Refused DEF CommitAppend
<1> QED
  BY <1>3, <1>4

LEMMA EarlierFinite ==
    ASSUME NEW i \in Nat, NEW p
    PROVE  IsFiniteSet(Earlier(i, p)) /\ Cardinality(Earlier(i, p)) \in Nat
<1>1. Earlier(i, p) \in SUBSET (1 .. i)
  BY DEF Earlier
<1>2. IsFiniteSet(1 .. i)
  BY FS_Interval, SMT
<1>3. IsFiniteSet(Earlier(i, p))
  BY <1>1, <1>2, FS_Subset
<1> QED
  BY <1>3, FS_CardinalityType

(* The number of a new item: one more than the largest of its Project.     *)
LEMMA NextAttemptCounts ==
    ASSUME CatalogInv, NEW plan, plan.project \in Projects
    PROVE  NextAttempt(plan) = Cardinality(Earlier(Len(items), plan.project)) + 1
<1> DEFINE p == plan.project
           n == Len(items)
           Mine == Earlier(n, p)
           Attempts == {items[i].attempt : i \in {j \in ItemIds : items[j].project = p}}
           S == {0} \cup Attempts
           c == Cardinality(Mine)
<1>1. n \in Nat /\ ItemIds = 1 .. n
  BY SMT DEF CatalogInv, CatalogType, ItemIds
<1>2. \A i \in ItemIds : Cardinality(Earlier(i, p)) \in Nat
  BY <1>1, EarlierFinite, SMT
<1>3. IsFiniteSet(Mine) /\ c \in Nat
  BY <1>1, EarlierFinite
<1>4. \A i \in ItemIds : items[i].project = p =>
          items[i].attempt = Cardinality(Earlier(i, p)) /\ items[i].attempt <= c
  <2>1. ASSUME NEW i \in ItemIds, items[i].project = p
        PROVE  items[i].attempt = Cardinality(Earlier(i, p)) /\ Cardinality(Earlier(i, p)) <= c
    <3>1. Earlier(i, p) \in SUBSET Mine
      BY <1>1, SMT DEF Earlier
    <3> QED
      BY <1>3, <2>1, <3>1, FS_Subset DEF CatalogInv, Numbered
  <2> QED
    BY <2>1
<1>5. S \in SUBSET Nat /\ S # {} /\ \A y \in S : y <= c
  BY <1>2, <1>3, <1>4, SMT
<1>6. c \in S
  <2>1. CASE Mine = {}
    BY <2>1, FS_EmptySet
  <2>2. CASE Mine # {}
    <3>1. Mine \in SUBSET Nat /\ \A y \in Mine : y <= n
      BY <1>1, SMT DEF Earlier
    <3> DEFINE last == Max(Mine)
    <3>2. last \in Mine /\ \A y \in Mine : y <= last
      BY <1>1, <2>2, <3>1, MaxOf
    <3> HIDE DEF last
    <3>3. last \in ItemIds /\ items[last].project = p
      BY <1>1, <3>2 DEF Earlier
    <3>4. Earlier(last, p) = Mine
      BY <1>1, <3>2, <3>3, SMT DEF Earlier
    <3>5. items[last].attempt = c
      BY <1>4, <3>3, <3>4
    <3> QED
      BY <3>3, <3>5
  <2> QED
    BY <2>1, <2>2
<1>7. NextAttempt(plan) = Max(S) + 1
  BY DEF NextAttempt
<1> HIDE DEF S, c, Mine
<1>8. Max(S) \in S /\ c <= Max(S)
  BY <1>3, <1>5, <1>6, MaxOf
<1>9. Max(S) \in Nat /\ Max(S) <= c
  BY <1>5, <1>8
<1>10. Max(S) = c
  BY <1>3, <1>8, <1>9, SMT
<1> QED
  BY <1>7, <1>10 DEF c, Mine

LEMMA SubmitStep ==
    ASSUME CatalogInv, NEW o \in Operators, CommitSubmit(o)
    PROVE  CatalogInv'
<1>1. PICK plan \in PlanRecords : plan = plans[o] /\ plan.cmd = "submit"
  BY DEF CatalogInv, CatalogType, CommitSubmit
<1> DEFINE p == plan.project
<1>2. p \in Projects /\ plan.revision \in Nat /\ plan.state \in Pending
  BY <1>1 DEF PlanRecords
<1>3. CASE ~AdmitAllowed(plan)
  BY <1>1, <1>3, Refused DEF CommitSubmit
<1>4. CASE AdmitAllowed(plan)
  <2>1. PICK n \in Nat : n = Len(items) /\ items \in Seq(ItemRecords)
    BY SMT DEF CatalogInv, CatalogType
  <2>2. IsFiniteSet(Earlier(n, p)) /\ Cardinality(Earlier(n, p)) \in Nat
    BY <2>1, EarlierFinite
  <2>3. NextAttempt(plan) = Cardinality(Earlier(n, p)) + 1
    BY <1>2, <2>1, NextAttemptCounts
  <2>4. NextAttempt(plan) \in Nat
    BY <2>2, <2>3, SMT
  <2>19. PICK v : v = NewItem(p, plan.revision, NextAttempt(plan), plan.state, FALSE)
    OBVIOUS
  <2>5. v \in ItemRecords /\ v.project = p /\ v.revision = plan.revision
        /\ v.attempt = NextAttempt(plan)
    BY <1>2, <2>4, <2>19 DEF NewItem, ItemRecords, ItemStates
  <2>6. items' = Append(items, v) /\ Finished(o) /\ UNCHANGED <<revisions, projects>>
    BY <1>1, <1>4, <2>19 DEF CommitSubmit
  <2>7. /\ items' \in Seq(ItemRecords) /\ Len(items') = n + 1
        /\ \A i \in 1 .. n : items'[i] = items[i]
        /\ items'[n + 1] = v
    BY <2>1, <2>5, <2>6, AppendProperties, SMT
  <2>8. ItemIds = 1 .. n /\ ItemIds' = 1 .. n + 1
    BY <2>1, <2>7 DEF ItemIds
  <2>9. /\ plans' \in [Operators -> PlanRecords]
        /\ \A q \in Operators : plans'[q] = plans[q] \/ plans'[q].cmd = "none"
    BY <2>6 DEF Finished, Idle, CatalogInv, CatalogType, PlanRecords
  <2>10. CatalogType'
    BY <2>6, <2>7, <2>9 DEF CatalogInv, CatalogType
  <2>11. NumbersInv'
    BY <2>6, <2>9 DEF CatalogInv, NumbersInv, RevisionIds, RevisionsOf, IsRegistered
  <2>18. RootsStayDisjoint'
    BY <2>6, ZenonT(40) DEF CatalogInv, RootsStayDisjoint, RevisionIds, Overlap
  <2>12. /\ IsRegistered(p) /\ plan.revision = projects[p].current
         /\ plan.revision \in RevisionsOf(p)
    BY <1>2, <1>4 DEF AdmitAllowed, ProjectLoads, CatalogInv, NumbersInv
  <2>13. \A id \in RevisionIds : SequenceOf(id) \in Nat
    BY SMT DEF CatalogInv, NumbersInv, SequenceOf, RevisionIds, CatalogType
  <2>14. SequenceOf(plan.revision) \in Nat /\ CurrentSequence(p) = SequenceOf(plan.revision)
    BY <2>12, <2>13 DEF RevisionsOf, CurrentSequence
  <2>15. ItemsInv'
    <3>1. ASSUME NEW i \in 1 .. n + 1
          PROVE  /\ items'[i].revision \in RevisionsOf(items'[i].project)
                 /\ IsRegistered(items'[i].project)
                 /\ SequenceOf(items'[i].revision) <= CurrentSequence(items'[i].project)
      <4>1. CASE i \in 1 .. n
        BY <2>7, <2>8, <4>1 DEF CatalogInv, ItemsInv
      <4>2. CASE i = n + 1
        BY <2>5, <2>7, <2>12, <2>14, <4>2, SMT
      <4> QED
        BY <2>1, <4>1, <4>2, SMT
    <3> QED
      BY <2>6, <2>8, <3>1
      DEF ItemsInv, RevisionsOf, RevisionIds, IsRegistered, SequenceOf,
                              CurrentSequence
  <2>16. InOrder'
    <3>1. ASSUME NEW i \in 1 .. n + 1, NEW j \in 1 .. n + 1, i < j,
                 items'[i].project = items'[j].project
          PROVE  SequenceOf(items'[i].revision) <= SequenceOf(items'[j].revision)
      <4>1. i \in 1 .. n /\ items'[i] = items[i]
        BY <2>1, <2>7, <3>1, SMT
      <4>2. CASE j \in 1 .. n
        BY <2>7, <2>8, <3>1, <4>1, <4>2 DEF CatalogInv, InOrder
      <4>3. CASE j = n + 1
        BY <2>5, <2>7, <2>8, <2>14, <3>1, <4>1, <4>3 DEF CatalogInv, ItemsInv
      <4> QED
        BY <2>1, <4>2, <4>3, SMT
    <3> QED
      BY <2>6, <2>8, <3>1 DEF InOrder, SequenceOf
  <2>17. Numbered'
    <3>1. ASSUME NEW i \in 1 .. n, NEW q
          PROVE  Earlier(i, q)' = Earlier(i, q)
      <4>1. \A k \in 1 .. i : items'[k] = items[k]
        BY <2>1, <2>7, SMT
      <4> QED
        BY <4>1 DEF Earlier
    <3>2. ASSUME NEW i \in 1 .. n
          PROVE  items'[i].attempt = Cardinality(Earlier(i, items[i].project)')
      BY <2>7, <2>8, <3>1, SMT DEF CatalogInv, Numbered, Earlier
    <3>3. Earlier(n + 1, p)' = Earlier(n, p) \cup {n + 1}
      BY <2>1, <2>5, <2>6, <2>7, SMT DEF Earlier
    <3>4. n + 1 \notin Earlier(n, p)
      BY <2>1, SMT DEF Earlier
    <3>5. Cardinality(Earlier(n + 1, p)') = NextAttempt(plan)
      BY <2>2, <2>3, <3>3, <3>4, FS_AddElement
    <3>6. items'[n + 1].attempt = Cardinality(Earlier(n + 1, items[n + 1].project)')
      BY <2>5, <2>7, <3>5 DEF Earlier
    <3> QED
      BY <2>1, <2>8, <3>2, <3>6, SMT DEF Numbered
  <2> QED
    BY <2>10, <2>11, <2>15, <2>16, <2>17, <2>18 DEF CatalogInv
<1> QED
  BY <1>3, <1>4

(* A change of projects alone, which moves a current revision only         *)
(* forward.                                                                *)
LEMMA ProjectChanged ==
    ASSUME CatalogInv,
           projects' \in [Projects -> ProjectRecords],
           \A p \in Projects :
               \/ projects'[p].current = projects[p].current
               \/ /\ IsRegistered(p) /\ projects'[p].current \in RevisionsOf(p)
                  /\ CurrentSequence(p) < SequenceOf(projects'[p].current),
           UNCHANGED <<revisions, items, plans>>
    PROVE  CatalogInv'
<1>1. CatalogType'
  BY DEF CatalogInv, CatalogType
<1>2. \A p \in Projects : RevisionsOf(p)' = RevisionsOf(p) /\ 0 \notin RevisionsOf(p)
  BY SMT DEF RevisionsOf, RevisionIds
<1>3. \A id \in RevisionIds : SequenceOf(id) \in Nat
  BY SMT DEF CatalogInv, NumbersInv, SequenceOf, RevisionIds, CatalogType
<1>4. ASSUME NEW p \in Projects, IsRegistered(p)
      PROVE  /\ IsRegistered(p)' /\ projects'[p].current \in RevisionsOf(p)
             /\ CurrentSequence(p) \in Nat /\ CurrentSequence(p)' \in Nat
             /\ CurrentSequence(p) <= CurrentSequence(p)'
  <2>1. projects[p].current \in RevisionsOf(p)
    BY <1>4 DEF CatalogInv, NumbersInv
  <2>2. projects'[p].current \in RevisionsOf(p) /\ projects'[p].current # 0
    BY <1>2, <1>4, <2>1
  <2> QED
    BY <1>3, <2>1, <2>2, SMT DEF IsRegistered, CurrentSequence, SequenceOf, RevisionsOf
<1>5. \A o \in Operators : plans[o].cmd = "append" => plans[o].project \in Projects
  BY DEF CatalogInv, CatalogType, PlanRecords
<1>6. \A p \in Projects : IsRegistered(p)' <=> IsRegistered(p)
  BY <1>4 DEF IsRegistered
<1>7. NumbersInv'
  <2>1. \A p \in Projects : IsRegistered(p)' => projects'[p].current \in RevisionsOf(p)'
    BY <1>2, <1>4, <1>6
  <2>2. \A o \in Operators : plans[o].cmd = "append" => projects'[plans[o].project].current # 0
    BY <1>5, <1>6 DEF CatalogInv, NumbersInv, IsRegistered
  <2> QED
    BY <2>1, <2>2 DEF CatalogInv, NumbersInv, RevisionIds, IsRegistered
<1>8. \A i \in ItemIds : items[i].project \in Projects
  BY ItemTyped DEF CatalogInv, ItemRecords
<1>9. \A i \in ItemIds : SequenceOf(items[i].revision) \in Nat
  BY <1>3, <1>8 DEF CatalogInv, ItemsInv, RevisionsOf
<1>10. ItemsInv'
  BY <1>2, <1>4, <1>8, <1>9, SMT DEF CatalogInv, ItemsInv, ItemIds, SequenceOf
<1>11. RootsStayDisjoint' /\ InOrder' /\ Numbered'
  <2>1. RootsStayDisjoint'
    BY ZenonT(40) DEF CatalogInv, RootsStayDisjoint, RevisionIds, Overlap
  <2>2. InOrder' /\ Numbered'
    BY DEF CatalogInv, InOrder, Numbered, ItemIds, SequenceOf, Earlier
  <2> QED
    BY <2>1, <2>2
<1> QED
  BY <1>1, <1>7, <1>10, <1>11 DEF CatalogInv

LEMMA AdministerStep ==
    ASSUME CatalogInv, Administer
    PROVE  CatalogInv'
<1>1. ASSUME NEW p \in Projects, NEW id \in RevisionIds, ActivateRevision(p, id)
      PROVE  CatalogInv'
  <2>1. /\ projects' = [projects EXCEPT ![p].current = id]
        /\ id \in RevisionsOf(p) /\ IsRegistered(p) /\ id \in Nat
    BY <1>1, SMT DEF ActivateRevision, RevisionsOf, ProjectLoads, RevisionIds
  <2>2. projects' \in [Projects -> ProjectRecords]
    BY <2>1 DEF CatalogInv, CatalogType, ProjectRecords
  <2>3. SequenceOf(id) \in Nat /\ CurrentSequence(p) \in Nat
    BY <2>1, SMT DEF CatalogInv, NumbersInv, RevisionsOf, CurrentSequence, SequenceOf, RevisionIds,
                CatalogType
  <2>4. CurrentSequence(p) < SequenceOf(id)
    BY <1>1, <2>3 DEF ActivateRevision, MayFollow
  <2>5. \A q \in Projects : projects'[q].current = IF q = p THEN id ELSE projects[q].current
    BY <2>1 DEF CatalogInv, CatalogType, ProjectRecords
  <2> QED
    BY <1>1, <2>1, <2>2, <2>4, <2>5, ProjectChanged DEF ActivateRevision
<1>2. ASSUME NEW p \in Projects, NEW target \in Lifecycles, TransitionProject(p, target)
      PROVE  CatalogInv'
  <2>1. projects' = [projects EXCEPT ![p].lifecycle = target]
    BY <1>2 DEF TransitionProject
  <2>2. /\ projects' \in [Projects -> ProjectRecords]
        /\ \A q \in Projects : projects'[q].current = projects[q].current
    BY <2>1 DEF CatalogInv, CatalogType, ProjectRecords
  <2> QED
    BY <1>2, <2>2, ProjectChanged DEF TransitionProject
<1>3. ASSUME NEW p \in Projects, CloseCircuit(p)
      PROVE  CatalogInv'
  <2>1. ProjectsFrame
    BY <1>3, CircuitStep DEF CatalogInv, CloseCircuit
  <2> QED
    BY <1>3, <2>1, NoStep, FramePreserves DEF CatalogInv, CloseCircuit, CatalogFrame
<1>4. ASSUME NEW i \in ItemIds, HoldItem(i) \/ ReleaseItem(i) \/ RemoveItem(i)
      PROVE  CatalogInv'
  <2>1. PICK s \in ItemStates : items' = [items EXCEPT ![i].state = s]
    BY <1>4 DEF HoldItem, ReleaseItem, RemoveItem, MutateItem, ItemStates, Pending, Terminal
  <2>2. ItemsFrame
    BY <2>1, StateStep DEF CatalogInv
  <2>3. UNCHANGED <<revisions, projects, plans>>
    BY <1>4 DEF HoldItem, ReleaseItem, RemoveItem, MutateItem
  <2> QED
    BY <2>2, <2>3, NoStep, FramePreserves DEF CatalogInv, CatalogFrame
<1> QED
  BY <1>1, <1>2, <1>3, <1>4 DEF Administer

-----------------------------------------------------------------------------
(* The invariant.                                                          *)

LEMMA CatalogInitially ==
    ASSUME Init
    PROVE  CatalogInv
<1> DEFINE Fresh == [q \in Projects |-> [lifecycle |-> "active", current |-> 0, open |-> FALSE]]
<1>1. plans \in [Operators -> PlanRecords] /\ \A o \in Operators : plans[o].cmd = "none"
  BY DEF Init, CatalogInit, Idle, PlanRecords
<1>2. CASE EmptyCatalog
  <2>1. revisions = <<>> /\ items = <<>> /\ RevisionIds = {} /\ ItemIds = {}
    BY <1>2, SMT DEF EmptyCatalog, RevisionIds, ItemIds
  <2>2. projects \in [Projects -> ProjectRecords] /\ \A p \in Projects : ~IsRegistered(p)
    BY <1>2 DEF EmptyCatalog, ProjectRecords, Lifecycles, IsRegistered
  <2>3. CatalogType
    BY <1>1, <2>1, <2>2, SMT DEF CatalogType
  <2>4. NumbersInv
    BY <1>1, <2>1, <2>2 DEF NumbersInv
  <2> QED
    BY <2>1, <2>3, <2>4
    DEF CatalogInv, ItemsInv, RootsStayDisjoint, InOrder, Numbered
<1>3. ASSUME NEW p \in Imported, ImportedProject(p)
      PROVE  CatalogInv
  <2>1. p \in Projects /\ LegacyRoot \in Roots
    BY CatalogAssumption
  <2>2. PICK b \in BOOLEAN : items = <<NewItem(p, 1, 1, "queued", b)>>
    BY <1>3 DEF ImportedProject
  <2>3. /\ revisions = <<[project |-> p, sequence |-> 1, kind |-> "legacy-v4", root |-> LegacyRoot]>>
        /\ RevisionIds = {1} /\ ItemIds = {1}
    BY <1>3, <2>2, SMT DEF ImportedProject, RevisionIds, ItemIds
  <2>4. revisions \in Seq(RevisionRecords) /\ revisions[1].project = p /\ revisions[1].sequence = 1
    BY <2>1, <2>3, SMT DEF RevisionRecords
  <2>5. NewItem(p, 1, 1, "queued", b) \in ItemRecords
    BY <2>1 DEF NewItem, ItemRecords, ItemStates, Pending
  <2>6. /\ items \in Seq(ItemRecords)
        /\ items[1].project = p /\ items[1].revision = 1 /\ items[1].attempt = 1
    BY <2>2, <2>5, SMT DEF NewItem
  <2>7. /\ projects \in [Projects -> ProjectRecords]
        /\ \A q \in Projects : projects[q].current = IF q = p THEN 1 ELSE 0
    BY <1>3 DEF ImportedProject, ProjectRecords, Lifecycles
  <2>8. CatalogType
    BY <1>1, <2>4, <2>6, <2>7 DEF CatalogType
  <2>9. RevisionsOf(p) = {1}
    BY <2>3, <2>4 DEF RevisionsOf
  <2>10. NumbersInv
    BY <1>1, <2>3, <2>4, <2>7, <2>9, SMT DEF NumbersInv, IsRegistered
  <2>11. ItemsInv
    BY <2>1, <2>3, <2>4, <2>6, <2>7, <2>9, SMT
    DEF ItemsInv, IsRegistered, SequenceOf, CurrentSequence
  <2>12. RootsStayDisjoint /\ InOrder
    BY <2>3, SMT DEF RootsStayDisjoint, InOrder
  <2>13. Earlier(1, p) = {1}
    BY <2>6, SMT DEF Earlier
  <2>14. Numbered
    BY <2>3, <2>6, <2>13, FS_Singleton DEF Numbered
  <2> QED
    BY <2>8, <2>10, <2>11, <2>12, <2>14 DEF CatalogInv
<1> QED
  BY <1>2, <1>3 DEF Init, CatalogInit

LEMMA CatalogStep ==
    ASSUME CatalogInv, [Next]_vars
    PROVE  CatalogInv'
<1>1. CASE Service \/ Environment
  BY <1>1, FrameStep, FramePreserves DEF CatalogInv
<1>2. CASE Administer
  BY <1>2, AdministerStep
<1>3. ASSUME NEW o \in Operators, Operate(o)
      PROVE  CatalogInv'
  <2>1. LegacyRoot \in Roots
    BY CatalogAssumption
  <2> QED
    BY <1>3, <2>1, PlanStep, RegisterStep, AppendStep, SubmitStep DEF Operate
<1>4. CASE UNCHANGED vars
  BY <1>4, NoStep, FramePreserves DEF CatalogInv, CatalogFrame, vars, catalogVars
<1> QED
  BY <1>1, <1>2, <1>3, <1>4 DEF Next, CatalogNext

LEMMA Catalog == Spec => []CatalogInv
<1>1. Init => CatalogInv
  BY CatalogInitially
<1>2. CatalogInv /\ [Next]_vars => CatalogInv'
  BY CatalogStep
<1> QED
  BY <1>1, <1>2, PTL DEF Spec

(* For any Projects, nested roots and operators: roots of different        *)
(* Projects never overlap.  register_project and append_revision recheck   *)
(* _assert_root_isolation inside the transaction, which is what keeps the  *)
(* stale occupied_roots of a plan harmless.                                *)
THEOREM RootsAreDisjoint == Spec => []RootsStayDisjoint
<1>1. CatalogInv => RootsStayDisjoint
  BY DEF CatalogInv
<1> QED
  BY <1>1, Catalog, PTL

(* Items are admitted in the order of their Project's revisions and are    *)
(* numbered without gaps, although admit commits snapshots that were       *)
(* compiled before other operators committed.                              *)
THEOREM AdmissionOrder == Spec => []AdmissionIsOrdered
<1>1. CatalogInv => AdmissionIsOrdered
  BY DEF CatalogInv, AdmissionIsOrdered, InOrder, Numbered, Earlier
<1> QED
  BY <1>1, Catalog, PTL

-----------------------------------------------------------------------------
(* History moves forward.                                                  *)

LEMMA CurrentIsNumbered ==
    ASSUME CatalogInv, NEW p \in Projects, IsRegistered(p)
    PROVE  projects[p].current \in RevisionIds /\ CurrentSequence(p) \in Nat
BY SMT DEF CatalogInv, NumbersInv, RevisionsOf, RevisionIds, CurrentSequence, SequenceOf, CatalogType

(* A step that adds no rows, and under which lifecycles only leave         *)
(* "active" and "paused".                                                  *)
LEMMA NoRowsAdded ==
    ASSUME CatalogInv, CatalogInv',
           UNCHANGED revisions, Len(items') = Len(items),
           \A p \in Projects : IsRegistered(p) =>
               /\ \/ projects'[p].current = projects[p].current
                  \/ /\ projects[p].lifecycle # "archived"
                     /\ CurrentSequence(p) <= SequenceOf(projects'[p].current)
               /\ projects[p].lifecycle = "archived" => projects'[p].lifecycle = "archived"
    PROVE  HistoryStep
<1>1. DOMAIN items' = ItemIds /\ DOMAIN revisions' = RevisionIds
  BY SMT DEF CatalogInv, CatalogType, ItemIds, RevisionIds
<1>2. ASSUME NEW p \in Projects, IsRegistered(p)
      PROVE  revisions[projects[p].current].sequence <= revisions'[projects'[p].current].sequence
  BY <1>2, CurrentIsNumbered, SMT DEF CurrentSequence, SequenceOf
<1> QED
  BY <1>1, <1>2 DEF HistoryStep

LEMMA FrameHistory ==
    ASSUME CatalogInv, CatalogInv', CatalogFrame
    PROVE  HistoryStep
BY NoRowsAdded DEF CatalogFrame, ProjectsFrame, ItemsFrame

(* A new revision of a Project that is not archived.                       *)
LEMMA RevisionHistory ==
    ASSUME CatalogInv, CatalogInv', NEW o \in Operators, NEW plan, plan = plans[o],
           plan.cmd \in {"register", "append"},
           plan.id \notin RevisionIds,
           AddRevision(plan), UNCHANGED items,
           IsRegistered(plan.project) =>
               /\ projects[plan.project].lifecycle # "archived"
               /\ CurrentSequence(plan.project) < plan.sequence,
           \A p \in Projects : IsRegistered(p) =>
               /\ projects'[p].lifecycle = projects[p].lifecycle
               /\ \/ projects'[p].current = projects[p].current
                  \/ p = plan.project /\ projects'[p].current = plan.id
    PROVE  HistoryStep
<1>0. PICK n : n = Len(revisions)
  OBVIOUS
<1>1. /\ n \in Nat /\ RevisionIds = 1 .. n
      /\ plan.id = n + 1 /\ plan.sequence \in Nat
      /\ revisions' \in Seq(RevisionRecords) /\ Len(revisions') = n + 1
      /\ \A id \in 1 .. n : revisions'[id] = revisions[id]
      /\ revisions'[n + 1] = NewRevision(plan)
  BY <1>0, RowAdded, SMT
<1>2. DOMAIN revisions' = 1 .. n + 1 /\ DOMAIN items' = ItemIds
  BY <1>1, SMT DEF CatalogInv, CatalogType, ItemIds
<1>3. revisions'[n + 1].project = plan.project /\ revisions'[n + 1].sequence = plan.sequence
  BY <1>1, SMT DEF NewRevision
<1>4. ASSUME NEW p \in Projects, IsRegistered(p)
      PROVE  revisions[projects[p].current].sequence <= revisions'[projects'[p].current].sequence
  <2>1. projects[p].current \in 1 .. n /\ CurrentSequence(p) \in Nat
    BY <1>1, <1>4, CurrentIsNumbered
  <2> QED
    BY <1>1, <1>3, <1>4, <2>1, SMT DEF CurrentSequence, SequenceOf
<1>5. ASSUME NEW p \in Projects, IsRegistered(p), projects[p].lifecycle = "archived"
      PROVE  \A id \in 1 .. n + 1 : revisions'[id].project = p => id \in 1 .. n
  BY <1>1, <1>3, <1>5, SMT
<1> QED
  BY <1>1, <1>2, <1>4, <1>5 DEF HistoryStep

LEMMA CommitHistory ==
    ASSUME CatalogInv, CatalogInv', NEW o \in Operators,
           CommitRegister(o) \/ CommitAppend(o) \/ CommitSubmit(o)
    PROVE  HistoryStep
<1>0. PICK plan \in PlanRecords : plan = plans[o]
  BY DEF CatalogInv, CatalogType
<1>1. CASE UNCHANGED <<revisions, projects, items>>
  BY <1>1, NoRowsAdded
<1>2. CASE CommitRegister(o) /\ RegisterAllowed(plan)
  <2>1. plan.project \in Projects /\ plan.cmd = "register"
    BY <1>0, <1>2 DEF CommitRegister, PlanRecords
  <2>2. \A p \in Projects : IsRegistered(p) => projects'[p] = projects[p]
    BY <1>0, <1>2, <2>1 DEF CommitRegister, RegisterAllowed, CatalogInv, CatalogType
  <2>3. /\ AddRevision(plan) /\ plan.id \notin RevisionIds /\ UNCHANGED items
        /\ ~IsRegistered(plan.project)
    BY <1>0, <1>2 DEF CommitRegister, RegisterAllowed
  <2> QED
    BY <1>0, <2>1, <2>2, <2>3, RevisionHistory
<1>3. CASE CommitAppend(o) /\ AppendAllowed(plan)
  <2>1. plan.project \in Projects /\ plan.cmd = "append" /\ plan.sequence \in Nat
    BY <1>0, <1>3 DEF CommitAppend, PlanRecords
  <2>2. \A p \in Projects :
            /\ projects'[p].lifecycle = projects[p].lifecycle
            /\ \/ projects'[p].current = projects[p].current
               \/ p = plan.project /\ projects'[p].current = plan.id
    <3>1. \/ projects' = [projects EXCEPT ![plan.project].current = plan.id]
          \/ projects' = projects
      BY <1>0, <1>3 DEF CommitAppend
    <3>2. projects \in [Projects -> ProjectRecords]
      BY DEF CatalogInv, CatalogType
    <3> QED
      BY ONLY <2>1, <3>1, <3>2, SMT DEF ProjectRecords
  <2>3. /\ AddRevision(plan) /\ plan.id \notin RevisionIds /\ UNCHANGED items
        /\ projects[plan.project].lifecycle # "archived"
        /\ plan.sequence > CurrentSequence(plan.project)
    BY <1>0, <1>3 DEF CommitAppend, AppendAllowed, MayFollow
  <2>4. IsRegistered(plan.project) => CurrentSequence(plan.project) < plan.sequence
    BY <2>1, <2>3, CurrentIsNumbered
  <2> QED
    BY <1>0, <2>1, <2>2, <2>3, <2>4, RevisionHistory
<1>4. CASE CommitSubmit(o) /\ AdmitAllowed(plan)
  <2>1. PICK v : items' = Append(items, v) /\ v.project = plan.project
    BY <1>0, <1>4, SMT DEF CommitSubmit, NewItem
  <2>2. UNCHANGED <<revisions, projects>> /\ projects[plan.project].lifecycle # "archived"
    BY <1>4 DEF CommitSubmit, AdmitAllowed
  <2>3. PICK n \in Nat : n = Len(items) /\ items \in Seq(ItemRecords)
    BY SMT DEF CatalogInv, CatalogType
  <2>4. DOMAIN items' = 1 .. n + 1 /\ items'[n + 1] = v /\ ItemIds = 1 .. n
    BY <2>1, <2>3, SMT DEF ItemIds
  <2>5. ASSUME NEW p \in Projects, projects[p].lifecycle = "archived"
        PROVE  \A i \in DOMAIN items' : items'[i].project = p => i \in ItemIds
    BY <2>1, <2>2, <2>3, <2>4, <2>5, SMT
  <2>6. DOMAIN revisions' = RevisionIds
    BY <2>2, SMT DEF RevisionIds, CatalogInv, CatalogType
  <2>7. \A p \in Projects : IsRegistered(p) =>
            revisions[projects[p].current].sequence <= revisions'[projects'[p].current].sequence
    BY <2>2, CurrentIsNumbered, SMT DEF CurrentSequence, SequenceOf
  <2> QED
    BY <2>2, <2>5, <2>6, <2>7 DEF HistoryStep
<1> QED
  BY <1>0, <1>1, <1>2, <1>3, <1>4 DEF CommitRegister, CommitAppend, CommitSubmit

LEMMA AdministerHistory ==
    ASSUME CatalogInv, CatalogInv', Administer
    PROVE  HistoryStep
<1>1. ASSUME NEW p \in Projects, NEW id \in RevisionIds, ActivateRevision(p, id)
      PROVE  HistoryStep
  <2>1. \A q \in Projects :
            /\ projects'[q].lifecycle = projects[q].lifecycle
            /\ projects'[q].current = IF q = p THEN id ELSE projects[q].current
    BY <1>1 DEF ActivateRevision, CatalogInv, CatalogType, ProjectRecords
  <2>2. SequenceOf(id) \in Nat
    BY SMT DEF CatalogInv, NumbersInv, SequenceOf, RevisionIds, CatalogType
  <2>3. IsRegistered(p) => CurrentSequence(p) <= SequenceOf(id)
    BY <1>1, <2>2, CurrentIsNumbered, SMT DEF ActivateRevision, MayFollow
  <2>4. projects[p].lifecycle # "archived" /\ UNCHANGED <<revisions, items>>
    BY <1>1 DEF ActivateRevision, MayFollow
  <2> QED
    BY <2>1, <2>3, <2>4, NoRowsAdded
<1>2. ASSUME NEW p \in Projects, NEW target \in Lifecycles, TransitionProject(p, target)
      PROVE  HistoryStep
  <2>1. projects[p].lifecycle # "archived" /\ UNCHANGED <<revisions, items>>
    BY <1>2 DEF TransitionProject, MayTransition
  <2>2. \A q \in Projects : /\ projects'[q].current = projects[q].current
                            /\ q # p => projects'[q].lifecycle = projects[q].lifecycle
    BY <1>2 DEF TransitionProject, CatalogInv, CatalogType, ProjectRecords
  <2> QED
    BY <2>1, <2>2, NoRowsAdded
<1>3. ASSUME NEW p \in Projects, CloseCircuit(p)
      PROVE  HistoryStep
  <2>1. ProjectsFrame
    BY <1>3, CircuitStep DEF CatalogInv, CloseCircuit
  <2> QED
    BY <1>3, <2>1, NoStep, FrameHistory DEF CatalogInv, CloseCircuit, CatalogFrame
<1>4. ASSUME NEW i \in ItemIds, HoldItem(i) \/ ReleaseItem(i) \/ RemoveItem(i)
      PROVE  HistoryStep
  <2>1. PICK s \in ItemStates : items' = [items EXCEPT ![i].state = s]
    BY <1>4 DEF HoldItem, ReleaseItem, RemoveItem, MutateItem, ItemStates, Pending, Terminal
  <2>2. ItemsFrame
    BY <2>1, StateStep DEF CatalogInv
  <2>3. UNCHANGED <<revisions, projects, plans>>
    BY <1>4 DEF HoldItem, ReleaseItem, RemoveItem, MutateItem
  <2> QED
    BY <2>2, <2>3, NoStep, FrameHistory DEF CatalogInv, CatalogFrame
<1> QED
  BY <1>1, <1>2, <1>3, <1>4 DEF Administer

(* The current revision of a Project never moves back, and an archived     *)
(* Project never gains a revision or an item, whatever plans were pending  *)
(* when with_current_revision, admit and transition_project committed.     *)
THEOREM HistoryIsMonotone == Spec => HistoryMovesForward
<1>1. ASSUME CatalogInv, CatalogInv', [Next]_vars
      PROVE  [HistoryStep]_vars
  <2>1. CASE Service \/ Environment
    BY <1>1, <2>1, FrameStep, FrameHistory DEF CatalogInv
  <2>2. CASE Administer
    BY <1>1, <2>2, AdministerHistory
  <2>3. ASSUME NEW o \in Operators, Operate(o)
        PROVE  HistoryStep
    <3>1. CASE CommitRegister(o) \/ CommitAppend(o) \/ CommitSubmit(o)
      BY <1>1, <3>1, CommitHistory
    <3>2. CASE UNCHANGED <<revisions, projects, items>>
      BY <1>1, <3>2, NoRowsAdded
    <3> QED
      BY <2>3, <3>1, <3>2 DEF Operate, PlanRegister, PlanAppend, PlanSubmit, Plan
  <2> QED
    BY <1>1, <2>1, <2>2, <2>3 DEF Next, CatalogNext
<1>2. CatalogInv /\ CatalogInv' /\ [Next]_vars => [HistoryStep]_vars
  BY <1>1
<1> QED
  BY <1>2, Catalog, PTL DEF Spec, HistoryMovesForward

=============================================================================
