--------------------------- MODULE WorktreeProofs ---------------------------
(***************************************************************************)
(* What the worktrees promise, for any number of Projects, items,          *)
(* operators, faults and crashes.  The inductive invariant says what the   *)
(* scheduler may rely on between two Git commands (Position) and what is   *)
(* true of every item whatever the scheduler is doing (ItemOK).            *)
(***************************************************************************)
EXTENDS CatalogProofs

\* A leaf that names no prover is a first-order step, left to Zenon.
USE Zenon

Trees == [ref : {"none", "exact", "moved"}, dir : {"none", "partial", "clean", "dirty"},
          registered : BOOLEAN]
Preparing == {"pin", "add", "fill", "record", "payload", "claim"}
Cleaning == {"check", "remove", "unpin", "erase"}
Points == {"reconcile", "dispatch", "launch", "refuse", "exited"} \cup Preparing \cup Cleaning
Positions == [pc : Points, item : Nat, swept : SUBSET Nat,
              back : {"reconcile", "dispatch", "refuse"}]

TreeType ==
    /\ tree \in [Slots -> Trees]
    /\ svc \in Positions
    /\ live \subseteq ItemIds
    /\ ItemIds \subseteq Slots

IsArchived(p) == projects[p].lifecycle = "archived"

(* Every item, whatever the scheduler is doing.                            *)
ItemOK(i) ==
    /\ i \in live => /\ items[i].state = "active"
                     /\ tree[i].dir \in {"clean", "dirty"} /\ tree[i].registered
                     /\ IsRecorded(i)
    /\ Present(i) => tree[i].ref # "none"
    /\ items[i].state \in {"active", "ended"} /\ tree[i] # Nothing => IsRecorded(i)
    /\ IsArchived(items[i].project) => items[i].state \in Terminal
    /\ IsArchived(items[i].project) /\ items[i].state = "ended" => tree[i] = Nothing

(* The item the scheduler is working on, between two of its commands.      *)
Position ==
    LET i == svc.item IN
    /\ svc.pc \in Preparing => i \in ItemIds /\ items[i].state \in Pending \cup {"removed"}
    /\ svc.pc = "pin" /\ Present(i) => Pristine(i) /\ Registered(i)
    /\ svc.pc = "add" => ~Present(i) /\ tree[i].ref # "none"
    /\ svc.pc = "fill" => tree[i].dir = "partial" /\ Registered(i)
    /\ svc.pc \in {"record", "payload", "claim", "launch"} => Pristine(i) /\ Registered(i)
    /\ svc.pc \in {"payload", "claim", "launch"} => IsRecorded(i)
    /\ svc.pc = "launch" => i \in ItemIds \ live /\ items[i].state = "active"
    /\ svc.pc \in Cleaning => i \in ItemIds /\ items[i].state # "active"
    /\ svc.pc = "remove" => Pristine(i)
    /\ svc.pc \in {"unpin", "erase"} => ~Present(i) /\ ~Registered(i)
    /\ svc.pc = "erase" => tree[i].ref = "none"

WorktreeInv ==
    /\ CatalogInv
    /\ TreeType
    /\ \A i \in ItemIds : ItemOK(i)
    /\ \A i \in Slots \ ItemIds : tree[i] = Nothing
    /\ Position

-----------------------------------------------------------------------------
(* A step that changes one item, its tree and its executor.                *)

(* The rest of the items, trees and lifecycles.                            *)
Only(i) ==
    /\ Len(items') = Len(items)
    /\ \A j \in ItemIds \ {i} : items'[j] = items[j]
    /\ \A j \in Slots \ {i} : tree'[j] = tree[j]
    /\ \A j \in ItemIds \ {i} : j \in live' => j \in live
    /\ items'[i].project = items[i].project
    /\ \A p \in Projects : projects'[p].lifecycle = projects[p].lifecycle

LEMMA LocalStep ==
    ASSUME WorktreeInv, NEW i \in ItemIds, CatalogInv', Only(i),
           tree' \in [Slots -> Trees], svc' \in Positions, live' \subseteq ItemIds,
           ItemOK(i)', Position'
    PROVE  WorktreeInv'
<1>1. ItemIds' = ItemIds
  BY DEF Only, ItemIds
<1>2. TreeType'
  BY <1>1 DEF WorktreeInv, TreeType, Slots
<1>3. ASSUME NEW j \in ItemIds, j # i
      PROVE  ItemOK(j)'
  <2>1. j \in Slots /\ items[j].project \in Projects
    BY ItemTyped DEF WorktreeInv, CatalogInv, TreeType, ItemRecords
  <2>2. /\ items'[j] = items[j] /\ tree'[j] = tree[j] /\ (j \in live' => j \in live)
        /\ IsArchived(items[j].project)' <=> IsArchived(items[j].project)
    BY <1>3, <2>1 DEF Only, IsArchived
  <2>3. ItemOK(j)
    BY DEF WorktreeInv
  <2> QED
    BY <2>2, <2>3 DEF ItemOK, Present, IsRecorded, IsArchived
<1>4. \A j \in Slots \ ItemIds : tree'[j] = Nothing
  BY DEF WorktreeInv, Only
<1> QED
  BY <1>1, <1>2, <1>3, <1>4 DEF WorktreeInv, Slots

(* What is known of the item a step is about.                              *)
LEMMA Before ==
    ASSUME WorktreeInv, NEW i \in ItemIds
    PROVE  /\ items[i] \in ItemRecords /\ items[i].project \in Projects
           /\ i \in Slots /\ tree[i] \in Trees /\ i \in Nat
           /\ svc \in Positions /\ ItemOK(i) /\ Position
<1>1. items[i] \in ItemRecords /\ items[i].project \in Projects
  BY ItemTyped DEF WorktreeInv, CatalogInv, ItemRecords
<1> QED
  BY <1>1, SMT DEF WorktreeInv, TreeType, ItemIds

LEMMA OneItem ==
    ASSUME WorktreeInv, CatalogFrame, NEW i \in ItemIds,
           \A j \in ItemIds \ {i} : items'[j] = items[j],
           \A j \in Slots \ {i} : tree'[j] = tree[j],
           live' \subseteq live \cup {i}
    PROVE  Only(i) /\ live' \subseteq ItemIds
           /\ (IsArchived(items[i].project)' <=> IsArchived(items[i].project))
<1>1. items'[i].project = items[i].project /\ items[i].project \in Projects
  BY Before DEF CatalogFrame, ItemsFrame, SameAdmission
<1>2. \A p \in Projects : projects'[p].lifecycle = projects[p].lifecycle
  BY DEF CatalogFrame, ProjectsFrame
<1>3. Only(i)
  BY <1>1, <1>2 DEF Only, CatalogFrame, ItemsFrame
<1>4. live' \subseteq ItemIds
  BY DEF WorktreeInv, TreeType
<1> QED
  BY <1>1, <1>2, <1>3, <1>4 DEF IsArchived

(* A step that replaces one item and one tree.                             *)
LEMMA Changes ==
    ASSUME WorktreeInv, CatalogInv', CatalogFrame, NEW i \in ItemIds,
           items' = items \/ \E v : items' = [items EXCEPT ![i] = v],
           tree' = tree \/ \E t \in Trees : tree' = [tree EXCEPT ![i] = t],
           live' \subseteq live \cup {i},
           svc' \in Positions, Position',
           (IsArchived(items[i].project)' <=> IsArchived(items[i].project)) => ItemOK(i)'
    PROVE  WorktreeInv'
<1>1. \A j \in ItemIds \ {i} : items'[j] = items[j]
  BY SMT DEF WorktreeInv, CatalogInv, CatalogType, ItemIds
<1>2. tree' \in [Slots -> Trees] /\ \A j \in Slots \ {i} : tree'[j] = tree[j]
  BY Before DEF WorktreeInv, TreeType
<1>3. Only(i) /\ live' \subseteq ItemIds
      /\ (IsArchived(items[i].project)' <=> IsArchived(items[i].project))
  BY <1>1, <1>2, OneItem
<1> QED
  BY <1>2, <1>3, LocalStep

LEMMA RefPost ==
    ASSUME WorktreeInv, NEW i \in ItemIds, NEW f \in {"none", "exact", "moved"},
           tree' = [tree EXCEPT ![i].ref = f]
    PROVE  \E t \in Trees : /\ tree' = [tree EXCEPT ![i] = t] /\ tree'[i] = t
                            /\ t.ref = f /\ t.dir = tree[i].dir /\ t.registered = tree[i].registered
<1> DEFINE t == [tree[i] EXCEPT !.ref = f]
<1>1. tree[i] \in Trees /\ i \in Slots /\ tree \in [Slots -> Trees]
  BY Before DEF WorktreeInv, TreeType
<1>2. t \in Trees /\ t.ref = f /\ t.dir = tree[i].dir /\ t.registered = tree[i].registered
  BY <1>1 DEF Trees
<1>3. tree' = [tree EXCEPT ![i] = t] /\ tree'[i] = t
  BY <1>1
<1> QED
  BY <1>2, <1>3

LEMMA DirPost ==
    ASSUME WorktreeInv, NEW i \in ItemIds, NEW d \in {"none", "partial", "clean", "dirty"},
           tree' = [tree EXCEPT ![i].dir = d]
    PROVE  \E t \in Trees : /\ tree' = [tree EXCEPT ![i] = t] /\ tree'[i] = t
                            /\ t.ref = tree[i].ref /\ t.dir = d /\ t.registered = tree[i].registered
<1> DEFINE t == [tree[i] EXCEPT !.dir = d]
<1>1. tree[i] \in Trees /\ i \in Slots /\ tree \in [Slots -> Trees]
  BY Before DEF WorktreeInv, TreeType
<1>2. t \in Trees /\ t.ref = tree[i].ref /\ t.dir = d /\ t.registered = tree[i].registered
  BY <1>1 DEF Trees
<1>3. tree' = [tree EXCEPT ![i] = t] /\ tree'[i] = t
  BY <1>1
<1> QED
  BY <1>2, <1>3

LEMMA EntryPost ==
    ASSUME WorktreeInv, NEW i \in ItemIds, NEW d \in {"none", "partial", "clean", "dirty"}, NEW b \in BOOLEAN,
           tree' = [tree EXCEPT ![i].dir = d, ![i].registered = b]
    PROVE  \E t \in Trees : /\ tree' = [tree EXCEPT ![i] = t] /\ tree'[i] = t
                            /\ t.ref = tree[i].ref /\ t.dir = d /\ t.registered = b
<1> DEFINE t == [tree[i] EXCEPT !.dir = d, !.registered = b]
<1>1. tree[i] \in Trees /\ i \in Slots /\ tree \in [Slots -> Trees]
  BY Before DEF WorktreeInv, TreeType
<1>2. t \in Trees /\ t.ref = tree[i].ref /\ t.dir = d /\ t.registered = b
  BY <1>1 DEF Trees
<1>3. tree' = [tree EXCEPT ![i] = t] /\ tree'[i] = t
  BY <1>1
<1> QED
  BY <1>2, <1>3

LEMMA ItemPost ==
    ASSUME WorktreeInv, NEW i \in ItemIds, NEW v, items' = [items EXCEPT ![i] = v]
    PROVE  items'[i] = v
BY SMT DEF WorktreeInv, CatalogInv, CatalogType, ItemIds

(* A step that only moves the scheduler.                                   *)
LEMMA Moves ==
    ASSUME WorktreeInv, CatalogInv', CatalogFrame, UNCHANGED <<items, tree, live>>,
           svc' \in Positions, Position'
    PROVE  WorktreeInv'
<1>1. ItemIds' = ItemIds /\ Slots' = Slots
  BY DEF ItemIds, Slots
<1>2. ASSUME NEW j \in ItemIds
      PROVE  ItemOK(j)'
  <2>1. IsArchived(items[j].project)' <=> IsArchived(items[j].project)
    BY Before DEF CatalogFrame, ProjectsFrame, IsArchived
  <2> QED
    BY <2>1, Before DEF ItemOK, Present, IsRecorded
<1> QED
  BY <1>1, <1>2 DEF WorktreeInv, TreeType

(* Where the scheduler relies on nothing.                                  *)
Resting == {"reconcile", "dispatch", "refuse", "exited"}

LEMMA AtRest ==
    ASSUME svc'.pc \in Resting
    PROVE  Position'
BY DEF Position, Resting, Preparing, Cleaning

LEMMA Arrives ==
    ASSUME svc \in Positions, NEW pc \in Points, NEW i \in Nat, svc' = At(pc, i)
    PROVE  svc' \in Positions /\ svc'.pc = pc /\ svc'.item = i /\ svc'.back = svc.back
BY DEF Positions, At

LEMMA ArrivesFor ==
    ASSUME svc \in Positions, NEW pc \in Points, NEW i \in Nat,
           NEW back \in {"reconcile", "dispatch", "refuse"},
           svc' = [At(pc, i) EXCEPT !.back = back]
    PROVE  svc' \in Positions /\ svc'.pc = pc /\ svc'.item = i /\ svc'.back = back
BY DEF Positions, At

LEMMA StartsOver ==
    /\ Reconciling \in Positions /\ Reconciling.pc = "reconcile"
    /\ [Reconciling EXCEPT !.pc = "exited"] \in Positions
    /\ [Reconciling EXCEPT !.pc = "exited"].pc = "exited"
BY DEF Reconciling, Positions, Points, NoItem

LEMMA Refuses ==
    ASSUME WorktreeInv, CatalogInv', CatalogFrame, NEW i \in ItemIds,
           RefusePreparation(i), UNCHANGED tree
    PROVE  WorktreeInv'
<1>1. svc' = At("dispatch", NoItem) /\ UNCHANGED <<items, live>>
  BY DEF RefusePreparation
<1>2. "dispatch" \in Points /\ NoItem \in Nat /\ svc \in Positions
  BY Before DEF Points, NoItem
<1>3. svc' \in Positions /\ svc'.pc = "dispatch"
  BY <1>1, <1>2, Arrives
<1>4. Position'
  BY <1>3, AtRest DEF Resting
<1> QED
  BY <1>1, <1>3, <1>4, Moves

-----------------------------------------------------------------------------
(* Preparing.                                                              *)

LEMMA PrepareStep ==
    ASSUME WorktreeInv, CatalogInv', CatalogFrame, NEW i \in ItemIds, Prepare(i)
    PROVE  WorktreeInv'
<1>1. CASE RefusePreparation(i)
  BY <1>1, Refuses DEF Prepare
<1>2. CASE /\ Inputs(i) /\ TargetAcceptable(i) /\ svc' = At("pin", i)
           /\ UNCHANGED <<projects, items, live, known>>
  <2>1. svc' \in Positions /\ svc'.pc = "pin" /\ svc'.item = i
    BY <1>2, Before, Arrives DEF Points, Preparing
  <2>2. items[i].state = "queued" /\ UNCHANGED <<items, tree, live>>
    BY <1>2 DEF Prepare, Dispatchable
  <2>3. Present(i) => Pristine(i) /\ Registered(i)
    BY <1>2 DEF TargetAcceptable, VerifiedTree, LegacyVerified, Pristine
  <2>4. Position'
    BY <2>1, <2>2, <2>3
    DEF Position, Preparing, Cleaning, Pending, Present, Pristine, Registered, ItemIds
  <2> QED
    BY <2>1, <2>2, <2>4, Moves
<1> QED
  BY <1>1, <1>2 DEF Prepare

LEMMA EnsureRefStep ==
    ASSUME WorktreeInv, CatalogInv', CatalogFrame, NEW i \in ItemIds, EnsureRef(i)
    PROVE  WorktreeInv'
<1>1. CASE RefusePreparation(i) /\ UNCHANGED tree
  BY <1>1, Refuses
<1>2. CASE /\ tree' = [tree EXCEPT ![i].ref = "exact"]
           /\ svc' = At(IF Present(i) THEN "record" ELSE "add", i)
           /\ UNCHANGED <<projects, items, live, known>>
  <2>1. svc.pc = "pin" /\ svc.item = i
    BY DEF EnsureRef
  <2>2. svc' \in Positions /\ svc'.pc = (IF Present(i) THEN "record" ELSE "add") /\ svc'.item = i
    BY <1>2, Before, Arrives DEF Points, Preparing
  <2>3. PICK t \in Trees : /\ tree' = [tree EXCEPT ![i] = t] /\ tree'[i] = t
                           /\ t.ref = "exact" /\ t.dir = tree[i].dir
                           /\ t.registered = tree[i].registered
    BY <1>2, RefPost
  <2>4. Position /\ ItemOK(i)
    BY Before
  <2>5. /\ items[i].state \in Pending \cup {"removed"} /\ i \notin live
        /\ Present(i) => Pristine(i) /\ Registered(i)
    BY <2>1, <2>4 DEF Position, Preparing, ItemOK, Pending
  <2>6. (IsArchived(items[i].project)' <=> IsArchived(items[i].project)) => ItemOK(i)'
    BY <1>2, <2>3, <2>4, <2>5 DEF ItemOK, Present, IsRecorded, Pending, Terminal
  <2>7. Position'
    BY <1>2, <2>2, <2>3, <2>5
    DEF Position, Preparing, Cleaning, Present, Pristine, Registered, ItemIds
  <2> QED
    BY <1>2, <2>2, <2>3, <2>6, <2>7, Changes
<1> QED
  BY <1>1, <1>2 DEF EnsureRef

(* git worktree add and what fills the new directory.                      *)
LEMMA FillStep ==
    ASSUME WorktreeInv, CatalogInv', CatalogFrame, NEW i \in ItemIds, Added(i) \/ Filled(i)
    PROVE  WorktreeInv'
<1>1. CASE RefusePreparation(i) /\ UNCHANGED tree
  BY <1>1, Refuses
<1>2. CASE /\ UNCHANGED <<items, live>> /\ svc.item = i
           /\ \/ /\ svc.pc = "add" /\ svc' = At("fill", i)
                 /\ tree' = [tree EXCEPT ![i].dir = "partial", ![i].registered = TRUE]
              \/ /\ svc.pc = "fill" /\ svc' = At("record", i)
                 /\ tree' = [tree EXCEPT ![i].dir = "clean"]
  <2>1. Position /\ ItemOK(i) /\ svc \in Positions /\ i \in Nat /\ tree[i] \in Trees
    BY Before
  <2>2. /\ items[i].state \in Pending \cup {"removed"} /\ i \notin live
        /\ tree[i].ref # "none"
        /\ svc.pc = "fill" => tree[i].registered = TRUE
    BY <1>2, <2>1 DEF Position, Preparing, ItemOK, Pending, Present, Registered, Trees
  <2>3. PICK t \in Trees :
            /\ tree' = [tree EXCEPT ![i] = t] /\ tree'[i] = t /\ t.ref = tree[i].ref
            /\ t.registered = TRUE
            /\ t.dir = IF svc.pc = "add" THEN "partial" ELSE "clean"
    <3>1. CASE svc.pc = "add"
      <4>1. tree' = [tree EXCEPT ![i].dir = "partial", ![i].registered = TRUE]
        BY <1>2, <3>1
      <4>2. \E t \in Trees : /\ tree' = [tree EXCEPT ![i] = t] /\ tree'[i] = t
                             /\ t.ref = tree[i].ref /\ t.dir = "partial" /\ t.registered = TRUE
        BY <4>1, EntryPost
      <4> QED
        BY <3>1, <4>2
    <3>2. CASE svc.pc = "fill"
      BY <1>2, <2>2, <3>2, DirPost, SMT
    <3> QED
      BY <1>2, <3>1, <3>2
  <2>4. svc' \in Positions /\ svc'.item = i
        /\ svc'.pc = IF svc.pc = "add" THEN "fill" ELSE "record"
    BY <1>2, <2>1, Arrives DEF Points, Preparing
  <2>5. (IsArchived(items[i].project)' <=> IsArchived(items[i].project)) => ItemOK(i)'
    BY <1>2, <2>1, <2>2, <2>3 DEF ItemOK, Present, IsRecorded, Nothing, Pending, Terminal
  <2>6. Position'
    BY <1>2, <2>2, <2>3, <2>4
    DEF Position, Preparing, Cleaning, Present, Pristine, Registered, IsRecorded, ItemIds
  <2> QED
    BY <1>2, <2>3, <2>4, <2>5, <2>6, Changes
<1> QED
  BY <1>1, <1>2 DEF Added, Filled

LEMMA RecordStep ==
    ASSUME WorktreeInv, CatalogInv', CatalogFrame, NEW i \in ItemIds, Recorded(i)
    PROVE  WorktreeInv'
<1> DEFINE v == [items[i] EXCEPT !.recorded = TRUE, !.removed = FALSE, !.failed = FALSE]
<1>1. /\ Position /\ ItemOK(i) /\ svc \in Positions /\ i \in Nat /\ items[i] \in ItemRecords
  BY Before
<1>2. /\ svc.pc = "record" /\ svc.item = i /\ svc' = At("payload", i) /\ UNCHANGED <<tree, live>>
      /\ (items' = items /\ IsRecorded(i)) \/ items' = [items EXCEPT ![i] = v]
  BY DEF Recorded, WorktreeInv, CatalogInv, CatalogType
<1>3. v.state = items[i].state /\ v.recorded = TRUE /\ v.removed = FALSE
  BY <1>1 DEF ItemRecords
<1> HIDE DEF v
<1>4. items'[i].state = items[i].state /\ IsRecorded(i)'
  BY <1>2, <1>3, ItemPost DEF IsRecorded
<1>5. svc' \in Positions /\ svc'.pc = "payload" /\ svc'.item = i
  BY <1>1, <1>2, Arrives DEF Points, Preparing
<1>6. /\ items[i].state \in Pending \cup {"removed"} /\ i \notin live
      /\ Pristine(i) /\ Registered(i)
  BY <1>1, <1>2 DEF Position, Preparing, ItemOK, Pending
<1>7. (IsArchived(items[i].project)' <=> IsArchived(items[i].project)) => ItemOK(i)'
  BY <1>1, <1>2, <1>4, <1>6 DEF ItemOK, Present, Nothing, Pending, Terminal
<1>8. ItemIds' = ItemIds
  BY DEF CatalogFrame, ItemsFrame, ItemIds
<1>9. Position'
  BY <1>2, <1>4, <1>5, <1>6, <1>8 DEF Position, Preparing, Cleaning, Present, Pristine, Registered
<1> QED
  BY <1>2, <1>5, <1>7, <1>9, Changes

LEMMA PayloadStep ==
    ASSUME WorktreeInv, CatalogInv', CatalogFrame, NEW i \in ItemIds, PreparePayload(i)
    PROVE  WorktreeInv'
<1>1. Position /\ svc \in Positions /\ i \in Nat
  BY Before
<1>2. /\ svc.pc = "payload" /\ svc.item = i /\ UNCHANGED <<items, tree, live>>
      /\ \/ svc' = At("claim", i)
         \/ svc' = At("refuse", i)
         \/ svc' = [At("check", i) EXCEPT !.back = "refuse"]
  BY DEF PreparePayload
<1>3. svc' \in Positions /\ svc'.item = i /\ svc'.pc \in {"claim", "refuse", "check"}
  BY <1>1, <1>2, Arrives, ArrivesFor DEF Points, Preparing, Cleaning
<1>4. Position'
  BY <1>1, <1>2, <1>3
  DEF Position, Preparing, Cleaning, Present, Pristine, Registered, IsRecorded, ItemIds, Pending
<1> QED
  BY <1>2, <1>3, <1>4, Moves

LEMMA ClaimStep ==
    ASSUME WorktreeInv, CatalogInv', CatalogFrame, NEW i \in ItemIds, Claim(i)
    PROVE  WorktreeInv'
<1> DEFINE v == [items[i] EXCEPT !.state = "active", !.lease = TRUE]
<1>1. Position /\ ItemOK(i) /\ svc \in Positions /\ i \in Nat /\ items[i] \in ItemRecords
  BY Before
<1>2. svc.pc = "claim" /\ svc.item = i /\ UNCHANGED <<projects, tree, live>>
  BY DEF Claim
<1>3. /\ items[i].state \in Pending \cup {"removed"} /\ i \notin live
      /\ Pristine(i) /\ Registered(i) /\ IsRecorded(i)
  BY <1>1, <1>2 DEF Position, Preparing, ItemOK, Pending
<1>4. CASE Dispatchable(i)
  <2>1. items' = [items EXCEPT ![i] = v] /\ svc' = At("launch", i)
    BY <1>4 DEF Claim, WorktreeInv, CatalogInv, CatalogType
  <2>2. v.state = "active" /\ v.recorded = items[i].recorded /\ v.removed = items[i].removed
    BY <1>1 DEF ItemRecords
  <2> HIDE DEF v
  <2>3. items'[i].state = "active" /\ IsRecorded(i)'
    BY <1>3, <2>1, <2>2, ItemPost DEF IsRecorded
  <2>4. svc' \in Positions /\ svc'.pc = "launch" /\ svc'.item = i
    BY <1>1, <2>1, Arrives DEF Points
  <2>5. ~IsArchived(items[i].project)
    BY <1>4 DEF Dispatchable, IsArchived
  <2>6. (IsArchived(items[i].project)' <=> IsArchived(items[i].project)) => ItemOK(i)'
    BY <1>1, <1>2, <1>3, <2>3, <2>5 DEF ItemOK, Present
  <2>7. ItemIds' = ItemIds
    BY DEF CatalogFrame, ItemsFrame, ItemIds
  <2>8. Position'
    BY <1>2, <1>3, <2>3, <2>4, <2>7 DEF Position, Preparing, Cleaning, Present, Pristine, Registered
  <2> QED
    BY <1>2, <2>1, <2>4, <2>6, <2>8, Changes
<1>5. CASE ~Dispatchable(i)
  <2>1. UNCHANGED items /\ svc' = [At("check", i) EXCEPT !.back = "dispatch"]
    BY <1>5 DEF Claim
  <2>2. svc' \in Positions /\ svc'.item = i /\ svc'.pc = "check"
    BY <1>1, <2>1, ArrivesFor DEF Points, Cleaning
  <2>3. Position'
    BY <1>3, <2>1, <2>2 DEF Position, Preparing, Cleaning, ItemIds, Pending
  <2> QED
    BY <1>2, <2>1, <2>2, <2>3, Moves
<1> QED
  BY <1>4, <1>5

LEMMA LaunchStep ==
    ASSUME WorktreeInv, CatalogInv', CatalogFrame, NEW i \in ItemIds, Launch(i)
    PROVE  WorktreeInv'
<1> DEFINE v == [items[i] EXCEPT !.state = "ended"]
<1>1. Position /\ ItemOK(i) /\ svc \in Positions /\ i \in Nat /\ items[i] \in ItemRecords
  BY Before
<1>2. svc.pc = "launch" /\ svc.item = i /\ UNCHANGED <<projects, tree>>
  BY DEF Launch
<1>3. /\ items[i].state = "active" /\ i \notin live
      /\ Pristine(i) /\ Registered(i) /\ IsRecorded(i)
  BY <1>1, <1>2 DEF Position
<1>4. CASE live' = live \cup {i} /\ svc' = At("dispatch", NoItem) /\ UNCHANGED items
  <2>1. svc' \in Positions /\ svc'.pc = "dispatch"
    BY <1>1, <1>4, Arrives DEF Points, NoItem
  <2>2. ItemOK(i)'
    BY <1>1, <1>2, <1>3, <1>4 DEF ItemOK, Present, IsRecorded, IsArchived, Pristine, Registered
  <2>3. Position'
    BY <2>1, AtRest DEF Resting
  <2> QED
    BY <1>2, <1>4, <2>1, <2>2, <2>3, Changes
<1>5. CASE /\ items' = [items EXCEPT ![i].state = "ended"]
           /\ svc' = [At("check", i) EXCEPT !.back = "dispatch"]
           /\ UNCHANGED <<live, known>>
  <2>1. items' = [items EXCEPT ![i] = v]
    BY <1>5
  <2>2. v.state = "ended" /\ v.recorded = items[i].recorded /\ v.removed = items[i].removed
    BY <1>1 DEF ItemRecords
  <2> HIDE DEF v
  <2>3. items'[i].state = "ended" /\ IsRecorded(i)'
    BY <1>3, <2>1, <2>2, ItemPost DEF IsRecorded
  <2>4. svc' \in Positions /\ svc'.item = i /\ svc'.pc = "check"
    BY <1>1, <1>5, ArrivesFor DEF Points, Cleaning
  <2>5. ~IsArchived(items[i].project)
    BY <1>1, <1>3 DEF ItemOK, Terminal
  <2>6. (IsArchived(items[i].project)' <=> IsArchived(items[i].project)) => ItemOK(i)'
    BY <1>1, <1>2, <1>3, <1>5, <2>3, <2>5 DEF ItemOK, Present
  <2>7. ItemIds' = ItemIds
    BY DEF CatalogFrame, ItemsFrame, ItemIds
  <2>8. Position'
    BY <2>3, <2>4, <2>7 DEF Position, Preparing, Cleaning
  <2> QED
    BY <1>2, <1>5, <2>1, <2>4, <2>6, <2>8, Changes
<1> QED
  BY <1>4, <1>5 DEF Launch

-----------------------------------------------------------------------------
(* Finishing.                                                              *)

(* The end or the requeue of an attempt that is not running.               *)
LEMMA AttemptLeaves ==
    ASSUME WorktreeInv, CatalogInv', CatalogFrame, NEW i \in ItemIds \ live,
           items[i].state = "active",
           NEW v, items' = [items EXCEPT ![i] = v], v.state \in {"ended", "queued"},
           v.recorded = items[i].recorded, v.removed = items[i].removed,
           UNCHANGED <<tree, live>>,
           svc' \in Positions, Position'
    PROVE  WorktreeInv'
<1>1. ItemOK(i)
  BY Before
<1>2. items'[i] = v
  BY ItemPost
<1>3. (IsArchived(items[i].project)' <=> IsArchived(items[i].project)) => ItemOK(i)'
  BY <1>1, <1>2 DEF ItemOK, Present, IsRecorded, Terminal
<1> QED
  BY <1>3, Changes

(* The receipt of an attempt ends it.                                      *)
LEMMA AttemptEnds ==
    ASSUME WorktreeInv, CatalogInv', CatalogFrame, NEW i \in ItemIds, svc.pc = "reconcile",
           items[i].state = "active", i \notin live, UNCHANGED <<tree, live, svc>>,
           items' = [items EXCEPT ![i].state = "ended"]
    PROVE  WorktreeInv'
<1> DEFINE v == [items[i] EXCEPT !.state = "ended"]
<1>1. svc \in Positions /\ items[i] \in ItemRecords
  BY Before
<1>2. items' = [items EXCEPT ![i] = v]
  OBVIOUS
<1>3. v.state = "ended" /\ v.recorded = items[i].recorded /\ v.removed = items[i].removed
  BY <1>1 DEF ItemRecords
<1> HIDE DEF v
<1>4. svc' \in Positions /\ Position'
  BY <1>1, AtRest DEF Resting
<1> QED
  BY <1>2, <1>3, <1>4, AttemptLeaves

(* The receipt of a yield requeues it, and its tree is cleaned up.         *)
Requeues(i) ==
    /\ items' = [items EXCEPT ![i].state = "queued", ![i].lease = FALSE]
    /\ svc' = [At("check", i) EXCEPT !.back = "reconcile"]

LEMMA AttemptRequeued ==
    ASSUME WorktreeInv, CatalogInv', CatalogFrame, NEW i \in ItemIds, svc.pc = "reconcile",
           items[i].state = "active", i \notin live, UNCHANGED <<tree, live>>, Requeues(i)
    PROVE  WorktreeInv'
<1> DEFINE v == [items[i] EXCEPT !.state = "queued", !.lease = FALSE]
<1>1. svc \in Positions /\ i \in Nat /\ items[i] \in ItemRecords
  BY Before
<1>2. items' = [items EXCEPT ![i] = v]
  BY DEF Requeues, WorktreeInv, CatalogInv, CatalogType
<1>3. v.state = "queued" /\ v.recorded = items[i].recorded /\ v.removed = items[i].removed
  BY <1>1 DEF ItemRecords
<1> HIDE DEF v
<1>4. svc' \in Positions /\ svc'.pc = "check" /\ svc'.item = i
  BY <1>1, ArrivesFor DEF Requeues, Points, Cleaning
<1>5. items'[i].state = "queued" /\ ItemIds' = ItemIds
  BY <1>2, <1>3, ItemPost DEF CatalogFrame, ItemsFrame, ItemIds
<1>6. Position'
  BY <1>4, <1>5 DEF Position, Preparing, Cleaning
<1> QED
  BY <1>2, <1>3, <1>4, <1>6, AttemptLeaves

LEMMA FinishLocalStep ==
    ASSUME WorktreeInv, CatalogInv', CatalogFrame, NEW i \in ItemIds, FinishLocal(i)
    PROVE  WorktreeInv'
<1>1. /\ svc.pc = "reconcile" /\ items[i].state = "active" /\ i \in ItemIds \ live
      /\ UNCHANGED <<tree, live>>
  BY DEF FinishLocal
<1>2. CASE svc' = [Reconciling EXCEPT !.pc = "exited"] /\ UNCHANGED items
  <2>1. svc' \in Positions /\ svc'.pc = "exited"
    BY <1>2, StartsOver
  <2> QED
    BY <1>1, <1>2, <2>1, AtRest, Moves DEF Resting
<1>3. CASE items' = [items EXCEPT ![i].state = "ended"] /\ UNCHANGED svc
  BY <1>1, <1>3, AttemptEnds
<1>4. CASE Requeues(i)
  BY <1>1, <1>4, AttemptRequeued
<1> QED
  BY <1>2, <1>3, <1>4 DEF FinishLocal, Requeues

LEMMA FinishRestartedStep ==
    ASSUME WorktreeInv, CatalogInv', CatalogFrame, NEW i \in ItemIds, FinishRestarted(i)
    PROVE  WorktreeInv'
<1>1. svc \in Positions /\ i \in Nat /\ items[i] \in ItemRecords
  BY Before
<1>2. /\ svc.pc = "reconcile" /\ items[i].state = "active" /\ i \in ItemIds \ live
      /\ UNCHANGED <<tree, live>>
  BY DEF FinishRestarted
<1>3. CASE items' = [items EXCEPT ![i].state = "ended"] /\ UNCHANGED svc
  BY <1>2, <1>3, AttemptEnds
<1>4. CASE Requeues(i)
  BY <1>2, <1>4, AttemptRequeued
<1> QED
  BY <1>3, <1>4 DEF FinishRestarted, Requeues

LEMMA ReleaseStep ==
    ASSUME WorktreeInv, CatalogInv', CatalogFrame, NEW i \in ItemIds, ReleaseLease(i)
    PROVE  WorktreeInv'
<1> DEFINE v == [items[i] EXCEPT !.lease = FALSE]
<1>1. ItemOK(i) /\ svc \in Positions /\ i \in Nat /\ items[i] \in ItemRecords
  BY Before
<1>2. /\ svc.pc = "reconcile" /\ items[i].state = "ended" /\ UNCHANGED <<tree, live>>
      /\ items' = [items EXCEPT ![i] = v]
      /\ svc' = [At("check", i) EXCEPT !.back = "reconcile"] \/ UNCHANGED svc
  BY DEF ReleaseLease
<1>3. v.state = "ended" /\ v.recorded = items[i].recorded /\ v.removed = items[i].removed
  BY <1>1, <1>2 DEF ItemRecords
<1> HIDE DEF v
<1>4. items'[i] = v /\ ItemIds' = ItemIds
  BY <1>2, ItemPost DEF CatalogFrame, ItemsFrame, ItemIds
<1>5. (IsArchived(items[i].project)' <=> IsArchived(items[i].project)) => ItemOK(i)'
  BY <1>1, <1>2, <1>3, <1>4 DEF ItemOK, Present, IsRecorded
<1>6. CASE svc' = [At("check", i) EXCEPT !.back = "reconcile"]
  <2>1. svc' \in Positions /\ svc'.pc = "check" /\ svc'.item = i
    BY <1>1, <1>6, ArrivesFor DEF Points, Cleaning
  <2>2. Position'
    BY <1>3, <1>4, <2>1 DEF Position, Preparing, Cleaning
  <2> QED
    BY <1>2, <1>5, <2>1, <2>2, Changes
<1>7. CASE UNCHANGED svc
  <2>1. svc' \in Positions /\ Position'
    BY <1>1, <1>2, <1>7, AtRest DEF Resting
  <2> QED
    BY <1>2, <1>5, <2>1, Changes
<1> QED
  BY <1>2, <1>6, <1>7

-----------------------------------------------------------------------------
(* Cleaning up.                                                            *)

LEMMA CleanupReturns ==
    ASSUME svc \in Positions, svc' = CleanupDone
    PROVE  svc' \in Positions /\ Position'
<1>1. /\ svc.back \in Points /\ svc.back \in Resting
      /\ (IF svc.back = "refuse" THEN svc.item ELSE NoItem) \in Nat
  BY DEF Positions, Points, Resting, NoItem
<1>2. svc' \in Positions /\ svc'.pc = svc.back
  BY <1>1, Arrives DEF CleanupDone
<1> QED
  BY <1>1, <1>2, AtRest

(* A cleanup error keeps the item on record as long as anything is left.   *)
LEMMA EntryTyped ==
    ASSUME NEW e \in Trees, NEW d \in {"none", "partial", "clean", "dirty"}, NEW b \in BOOLEAN
    PROVE  /\ [e EXCEPT !.dir = d, !.registered = b] \in Trees
           /\ [e EXCEPT !.dir = d, !.registered = b].ref = e.ref
BY DEF Trees

(* Git broke off inside the entry of an item, and kept its ref.            *)
BreaksOff(i) == \E t \in Trees : tree' = [tree EXCEPT ![i] = t] /\ t.ref = tree[i].ref

LEMMA CleanupFails ==
    ASSUME WorktreeInv, CatalogInv', CatalogFrame, NEW i \in ItemIds,
           svc.item = i, svc.pc \in Cleaning, CleanupFailed(i),
           tree' = tree \/ (BreaksOff(i) /\ Pristine(i))
    PROVE  WorktreeInv'
<1> DEFINE v == [items[i] EXCEPT !.failed = TRUE, !.removed = FALSE]
<1>1. Position /\ ItemOK(i) /\ svc \in Positions /\ items[i] \in ItemRecords /\ tree[i] \in Trees
  BY Before
<1>2. items' = [items EXCEPT ![i] = v] /\ UNCHANGED live /\ svc' = CleanupDone
  BY DEF CleanupFailed, WorktreeInv, CatalogInv, CatalogType
<1>3. v.state = items[i].state /\ v.recorded = items[i].recorded /\ v.removed = FALSE
  BY <1>1 DEF ItemRecords
<1> HIDE DEF v
<1>4. items'[i] = v
  BY <1>2, ItemPost
<1>5. items[i].state # "active" /\ i \notin live
  BY <1>1 DEF Position, ItemOK
<1>6. svc' \in Positions /\ Position'
  BY <1>1, <1>2, CleanupReturns
<1>7. CASE tree' = tree
  <2>1. (IsArchived(items[i].project)' <=> IsArchived(items[i].project)) => ItemOK(i)'
    BY <1>1, <1>2, <1>3, <1>4, <1>5, <1>7 DEF ItemOK, Present, IsRecorded
  <2> QED
    BY <1>2, <1>6, <1>7, <2>1, Changes
<1>8. CASE BreaksOff(i) /\ Pristine(i)
  <2>1. PICK t \in Trees : tree' = [tree EXCEPT ![i] = t] /\ tree'[i] = t /\ t.ref = tree[i].ref
    BY <1>8, Before DEF BreaksOff, WorktreeInv, TreeType
  <2>2. tree[i] # Nothing /\ Present(i)
    BY <1>8, SMT DEF Nothing, Pristine, Present
  <2>3. (IsArchived(items[i].project)' <=> IsArchived(items[i].project)) => ItemOK(i)'
    BY <1>1, <1>2, <1>3, <1>4, <1>5, <2>1, <2>2 DEF ItemOK, Present, IsRecorded
  <2> QED
    BY <1>2, <1>6, <2>1, <2>3, Changes
<1> QED
  BY <1>7, <1>8

LEMMA CheckStep ==
    ASSUME WorktreeInv, CatalogInv', CatalogFrame, NEW i \in ItemIds, CheckCleanup(i)
    PROVE  WorktreeInv'
<1>1. Position /\ svc \in Positions /\ i \in Nat /\ tree[i] \in Trees
  BY Before
<1>2. svc.pc = "check" /\ svc.item = i /\ UNCHANGED tree
  BY DEF CheckCleanup
<1>3. CASE CleanupFailed(i)
  BY <1>2, <1>3, CleanupFails DEF Cleaning
<1>4. CASE /\ CleanupAcceptable(i)
           /\ svc' = At(IF Present(i) THEN "remove" ELSE "unpin", i)
           /\ UNCHANGED <<items, live>>
  <2>1. svc' \in Positions /\ svc'.item = i /\ svc'.pc = IF Present(i) THEN "remove" ELSE "unpin"
    BY <1>1, <1>4, Arrives DEF Points, Cleaning
  <2>2. IF Present(i) THEN Pristine(i) ELSE ~Registered(i)
    BY <1>4 DEF CleanupAcceptable, LegacyCleanupAcceptable, VerifiedTree, LegacyVerified, Pristine
  <2>3. items[i].state # "active"
    BY <1>1, <1>2 DEF Position, Cleaning
  <2>4. Position'
    BY <1>2, <1>4, <2>1, <2>2, <2>3
    DEF Position, Preparing, Cleaning, Present, Pristine, Registered, ItemIds
  <2> QED
    BY <1>2, <1>4, <2>1, <2>4, Moves
<1> QED
  BY <1>3, <1>4 DEF CheckCleanup

LEMMA RemoveStep ==
    ASSUME WorktreeInv, CatalogInv', CatalogFrame, NEW i \in ItemIds, RemoveWorktree(i)
    PROVE  WorktreeInv'
<1>1. Position /\ ItemOK(i) /\ svc \in Positions /\ i \in Nat
  BY Before
<1>2. svc.pc = "remove" /\ svc.item = i
  BY DEF RemoveWorktree
<1>3. Pristine(i) /\ items[i].state # "active" /\ i \notin live
  BY <1>1, <1>2 DEF Position, Cleaning, ItemOK
<1>4. ASSUME CleanupFailed(i), NEW d \in {"none", "partial", "clean"}, NEW b \in BOOLEAN,
             tree' = [tree EXCEPT ![i].dir = d, ![i].registered = b]
      PROVE  WorktreeInv'
  <2> DEFINE t == [tree[i] EXCEPT !.dir = d, !.registered = b]
  <2>1. tree \in [Slots -> Trees] /\ i \in Slots /\ tree[i] \in Trees
    BY Before DEF WorktreeInv, TreeType
  <2>2. d \in {"none", "partial", "clean", "dirty"}
    BY <1>4
  <2>3. t \in Trees /\ t.ref = tree[i].ref
    BY <2>1, <2>2, EntryTyped
  <2>4. tree' = [tree EXCEPT ![i] = t]
    BY <1>4, <2>1
  <2> HIDE DEF t
  <2>5. BreaksOff(i)
    BY <2>3, <2>4 DEF BreaksOff
  <2> QED
    BY <1>2, <1>3, <1>4, <2>5, CleanupFails DEF Cleaning
<1>5. CASE /\ tree' = [tree EXCEPT ![i].dir = "none", ![i].registered = FALSE]
           /\ svc' = At("unpin", i) /\ UNCHANGED <<items, live>>
  <2>1. PICK t \in Trees : /\ tree' = [tree EXCEPT ![i] = t] /\ tree'[i] = t
                           /\ t.ref = tree[i].ref /\ t.dir = "none" /\ t.registered = FALSE
    BY <1>5, EntryPost
  <2>2. svc' \in Positions /\ svc'.item = i /\ svc'.pc = "unpin"
    BY <1>1, <1>5, Arrives DEF Points, Cleaning
  <2>3. tree[i] # Nothing
    BY <1>3, SMT DEF Nothing, Pristine
  <2>4. (IsArchived(items[i].project)' <=> IsArchived(items[i].project)) => ItemOK(i)'
    BY <1>1, <1>3, <1>5, <2>1, <2>3 DEF ItemOK, Present, IsRecorded
  <2>5. Position'
    BY <1>3, <1>5, <2>1, <2>2
    DEF Position, Preparing, Cleaning, Present, Registered, ItemIds
  <2> QED
    BY <1>5, <2>1, <2>2, <2>4, <2>5, Changes
<1> QED
  BY <1>4, <1>5 DEF RemoveWorktree

LEMMA DeleteRefStep ==
    ASSUME WorktreeInv, CatalogInv', CatalogFrame, NEW i \in ItemIds, DeleteRef(i)
    PROVE  WorktreeInv'
<1>1. Position /\ ItemOK(i) /\ svc \in Positions /\ i \in Nat /\ tree[i] \in Trees
  BY Before
<1>2. svc.pc = "unpin" /\ svc.item = i
  BY DEF DeleteRef
<1>3. CASE CleanupFailed(i) /\ UNCHANGED tree
  BY <1>2, <1>3, CleanupFails DEF Cleaning
<1>4. CASE /\ tree' = [tree EXCEPT ![i].ref = "none"]
           /\ svc' = At("erase", i) /\ UNCHANGED <<items, live>>
  <2>1. ~Present(i) /\ ~Registered(i) /\ items[i].state # "active" /\ i \notin live
    BY <1>1, <1>2 DEF Position, Cleaning, ItemOK
  <2>2. PICK t \in Trees : /\ tree' = [tree EXCEPT ![i] = t] /\ tree'[i] = t
                           /\ t.ref = "none" /\ t.dir = tree[i].dir
                           /\ t.registered = tree[i].registered
    BY <1>4, RefPost
  <2>3. t = Nothing
    BY <2>1, <2>2 DEF Nothing, Present, Registered, Trees
  <2>4. svc' \in Positions /\ svc'.item = i /\ svc'.pc = "erase"
    BY <1>1, <1>4, Arrives DEF Points, Cleaning
  <2>5. (IsArchived(items[i].project)' <=> IsArchived(items[i].project)) => ItemOK(i)'
    BY <1>1, <1>4, <2>1, <2>2, <2>3 DEF ItemOK, Present, IsRecorded
  <2>6. Position'
    BY <1>4, <2>1, <2>2, <2>4 DEF Position, Preparing, Cleaning, Present, Registered, ItemIds
  <2> QED
    BY <1>4, <2>2, <2>4, <2>5, <2>6, Changes
<1> QED
  BY <1>3, <1>4 DEF DeleteRef

LEMMA EraseStep ==
    ASSUME WorktreeInv, CatalogInv', CatalogFrame, NEW i \in ItemIds, Erased(i)
    PROVE  WorktreeInv'
<1> DEFINE v == [items[i] EXCEPT !.removed = TRUE, !.failed = FALSE]
<1>1. Position /\ ItemOK(i) /\ svc \in Positions /\ items[i] \in ItemRecords /\ tree[i] \in Trees
  BY Before
<1>2. /\ svc.pc = "erase" /\ svc.item = i /\ svc' = CleanupDone /\ UNCHANGED <<tree, live>>
      /\ items' = items \/ items' = [items EXCEPT ![i] = v]
  BY DEF Erased, WorktreeInv, CatalogInv, CatalogType
<1>3. v.state = items[i].state
  BY <1>1 DEF ItemRecords
<1> HIDE DEF v
<1>4. items'[i].state = items[i].state
  BY <1>2, <1>3, ItemPost
<1>5. tree[i] = Nothing /\ i \notin live
  BY <1>1, <1>2 DEF Position, Cleaning, ItemOK, Nothing, Present, Registered, Trees
<1>6. svc' \in Positions /\ Position'
  BY <1>1, <1>2, CleanupReturns
<1>7. (IsArchived(items[i].project)' <=> IsArchived(items[i].project)) => ItemOK(i)'
  BY <1>1, <1>2, <1>4, <1>5 DEF ItemOK, Present
<1> QED
  BY <1>2, <1>6, <1>7, Changes

LEMMA SweepStep ==
    ASSUME WorktreeInv, CatalogInv', CatalogFrame, NEW i \in ItemIds, SweepOrphan(i)
    PROVE  WorktreeInv'
<1>1. svc \in Positions /\ i \in Nat
  BY Before
<1>2. /\ svc.pc = "reconcile" /\ items[i].state # "active" /\ UNCHANGED <<items, tree, live>>
      /\ \/ svc' = [pc |-> "check", item |-> i, swept |-> svc.swept \cup {i}, back |-> "reconcile"]
         \/ svc' = [svc EXCEPT !.swept = @ \cup {i}]
  BY DEF SweepOrphan, IsOrphan
<1>3. svc' \in Positions /\ (svc'.pc = "reconcile" \/ (svc'.pc = "check" /\ svc'.item = i))
  BY <1>1, <1>2, SMT DEF Positions, Points, Cleaning
<1>4. Position'
  BY <1>2, <1>3 DEF Position, Preparing, Cleaning, ItemIds
<1> QED
  BY <1>2, <1>3, <1>4, Moves

-----------------------------------------------------------------------------
(* The service as a whole, and its environment.                            *)

LEMMA ServiceStep ==
    ASSUME WorktreeInv, CatalogInv', CatalogFrame, Service
    PROVE  WorktreeInv'
<1>1. ASSUME NEW i \in ItemIds, PrepareSteps(i)
      PROVE  WorktreeInv'
  <2>1. CASE RefuseDispatch(i)
    BY <2>1, Refuses DEF RefuseDispatch
  <2> QED
    BY <1>1, <2>1, PrepareStep, EnsureRefStep, FillStep, RecordStep, PayloadStep, ClaimStep, LaunchStep
    DEF PrepareSteps, AddWorktree, AddLegacyWorktree, Materialize, LinkSharedPaths, RecordPrepared,
        RecordAdopted
<1>2. ASSUME NEW i \in ItemIds, FinishSteps(i)
      PROVE  WorktreeInv'
  BY <1>2, FinishLocalStep, FinishRestartedStep, ReleaseStep DEF FinishSteps
<1>3. ASSUME NEW i \in ItemIds, CleanupSteps(i)
      PROVE  WorktreeInv'
  BY <1>3, CheckStep, RemoveStep, DeleteRefStep, EraseStep, SweepStep
  DEF CleanupSteps, RecordRemoved, RecordLegacyRemoved
<1>4. CASE BeginDispatch \/ EndIteration \/ StartService
  <2>1. svc \in Positions
    BY DEF WorktreeInv, TreeType
  <2>2. svc' \in Positions /\ svc'.pc \in Resting /\ UNCHANGED <<items, tree, live>>
    BY <1>4, <2>1, StartsOver
    DEF BeginDispatch, EndIteration, StartService, Positions, Points, Resting, catalogVars
  <2> QED
    BY <2>2, AtRest, Moves
<1> QED
  BY <1>1, <1>2, <1>3, <1>4 DEF Service

(* The scheduler's knowledge survives a step that does not touch what it   *)
(* relies on.                                                              *)
LEMMA PositionKept ==
    ASSUME WorktreeInv, UNCHANGED svc, NEW k, k = svc.item,
           svc.pc \notin Resting =>
               /\ k \in ItemIds'
               /\ tree'[k].dir = tree[k].dir /\ tree'[k].registered = tree[k].registered
               /\ tree'[k].ref = "none" <=> tree[k].ref = "none"
               /\ items'[k].recorded = items[k].recorded /\ items'[k].removed = items[k].removed
               /\ \/ items'[k].state = items[k].state
                  \/ /\ items[k].state \in Pending
                     /\ items'[k].state \in Pending \cup {"removed"}
               /\ k \in live' => k \in live
    PROVE  Position'
<1>1. CASE svc.pc \in Resting
  BY <1>1, AtRest
<1>2. CASE svc.pc \notin Resting
  BY <1>2, SMT DEF WorktreeInv, Position, Preparing, Cleaning, Present, Pristine, Registered, IsRecorded,
              Pending
<1> QED
  BY <1>1, <1>2

(* Where the scheduler is at work, it is at work on an item that is not    *)
(* running.                                                                *)
LEMMA BusyWithIdle ==
    ASSUME WorktreeInv, svc.pc \notin Resting
    PROVE  svc.item \in ItemIds \ live
<1>1. svc.pc \in Preparing \cup Cleaning \cup {"launch"} /\ Position
  BY DEF WorktreeInv, TreeType, Positions, Points, Resting
<1>2. svc.item \in ItemIds /\ (items[svc.item].state # "active" \/ svc.item \notin live)
  BY <1>1 DEF Position, Pending
<1> QED
  BY <1>2 DEF WorktreeInv, ItemOK

LEMMA EnvironmentStep ==
    ASSUME WorktreeInv, CatalogInv', CatalogFrame, Environment
    PROVE  WorktreeInv'
<1>1. ASSUME NEW i \in ItemIds, JobWrites(i)
      PROVE  WorktreeInv'
  <2>1. i \in live /\ tree' = [tree EXCEPT ![i].dir = "dirty"] /\ tree[i].dir = "clean"
        /\ UNCHANGED <<items, live, svc>>
    BY <1>1 DEF JobWrites
  <2>2. PICK t \in Trees : /\ tree' = [tree EXCEPT ![i] = t] /\ tree'[i] = t
                           /\ t.ref = tree[i].ref /\ t.dir = "dirty"
                           /\ t.registered = tree[i].registered
    BY <2>1, DirPost
  <2>3. ItemOK(i) /\ svc \in Positions
    BY Before
  <2>4. tree[i] # Nothing
    BY <2>1, SMT DEF Nothing
  <2>5. (IsArchived(items[i].project)' <=> IsArchived(items[i].project)) => ItemOK(i)'
    BY <2>1, <2>2, <2>3, <2>4 DEF ItemOK, Present, IsRecorded, Terminal
  <2>6. svc.pc \notin Resting => svc.item \in ItemIds' /\ tree'[svc.item] = tree[svc.item]
    BY <2>1, <2>2, BusyWithIdle DEF WorktreeInv, TreeType, ItemIds
  <2>7. Position'
    BY <2>1, <2>6, PositionKept
  <2> QED
    BY <2>1, <2>2, <2>3, <2>5, <2>7, Changes
<1>2. ASSUME NEW i \in ItemIds, ExecutorEnds(i)
      PROVE  WorktreeInv'
  <2>1. live' = live \ {i} /\ UNCHANGED <<items, tree, svc, projects>>
    BY <1>2 DEF ExecutorEnds
  <2>2. ItemOK(i) /\ svc \in Positions
    BY Before
  <2>3. ItemOK(i)'
    BY <2>1, <2>2 DEF ItemOK, Present, IsRecorded, IsArchived
  <2>4. svc.pc \notin Resting => svc.item \in ItemIds'
    BY <2>1, BusyWithIdle DEF ItemIds
  <2>5. Position'
    BY <2>1, <2>4, PositionKept
  <2> QED
    BY <2>1, <2>2, <2>3, <2>5, Changes
<1>3. ASSUME NEW i \in ItemIds, RefMoves(i)
      PROVE  WorktreeInv'
  <2>1. tree' = [tree EXCEPT ![i].ref = "moved"] /\ tree[i].ref = "exact"
        /\ UNCHANGED <<items, live, svc>>
    BY <1>3 DEF RefMoves, catalogVars
  <2>2. PICK t \in Trees : /\ tree' = [tree EXCEPT ![i] = t] /\ tree'[i] = t
                           /\ t.ref = "moved" /\ t.dir = tree[i].dir
                           /\ t.registered = tree[i].registered
    BY <2>1, RefPost
  <2>3. ItemOK(i) /\ svc \in Positions
    BY Before
  <2>4. tree[i] # Nothing
    BY <2>1, SMT DEF Nothing
  <2>5. (IsArchived(items[i].project)' <=> IsArchived(items[i].project)) => ItemOK(i)'
    BY <2>1, <2>2, <2>3, <2>4 DEF ItemOK, Present, IsRecorded
  <2>6. ASSUME svc.pc \notin Resting
        PROVE  /\ svc.item \in ItemIds'
               /\ tree'[svc.item].dir = tree[svc.item].dir
               /\ tree'[svc.item].registered = tree[svc.item].registered
               /\ tree'[svc.item].ref = "none" <=> tree[svc.item].ref = "none"
    <3>1. svc.item \in ItemIds /\ svc.item \in ItemIds' /\ svc.item \in Slots
      BY <2>1, <2>6, BusyWithIdle DEF WorktreeInv, TreeType, ItemIds
    <3>2. CASE svc.item = i
      BY <2>1, <2>2, <3>1, <3>2
    <3>3. CASE svc.item # i
      BY <2>1, <3>1, <3>3 DEF WorktreeInv, TreeType
    <3> QED
      BY <3>2, <3>3
  <2>7. Position'
    BY <2>1, <2>6, PositionKept
  <2> QED
    BY <2>1, <2>2, <2>3, <2>5, <2>7, Changes
<1>4. CASE Crash
  <2>1. svc' = [Reconciling EXCEPT !.pc = "exited"] /\ UNCHANGED <<items, tree, live>>
    BY <1>4 DEF Crash, catalogVars
  <2>2. svc' \in Positions /\ svc'.pc \in Resting
    BY <2>1, StartsOver DEF Resting
  <2> QED
    BY <2>1, <2>2, AtRest, Moves
<1>5. ASSUME NEW r, NEW condition, RootChanges(r, condition), UNCHANGED worktreeVars
      PROVE  WorktreeInv'
  <2>1. UNCHANGED <<items, tree, live, svc>>
    BY <1>5 DEF RootChanges, worktreeVars
  <2>2. svc \in Positions /\ Position
    BY DEF WorktreeInv, TreeType
  <2>3. Position'
    BY <2>1, <2>2 DEF Position, Present, Pristine, Registered, IsRecorded, ItemIds
  <2> QED
    BY <2>1, <2>2, <2>3, Moves
<1> QED
  BY <1>1, <1>2, <1>3, <1>4, <1>5 DEF Environment

-----------------------------------------------------------------------------
(* The operators: items appear pending, only pending items change, and a   *)
(* Project is archived only when nothing of it is left.                    *)

OperatorFrame ==
    /\ UNCHANGED worktreeVars
    /\ ItemIds \subseteq ItemIds' /\ ItemIds' \subseteq Slots
    /\ \A j \in ItemIds :
           /\ items'[j].project = items[j].project
           /\ items'[j].recorded = items[j].recorded /\ items'[j].removed = items[j].removed
           /\ \/ items'[j].state = items[j].state
              \/ /\ items[j].state \in Pending
                 /\ items'[j].state \in Pending \cup {"removed"}
    /\ \A j \in ItemIds' \ ItemIds :
           items'[j].state \in Pending /\ projects'[items'[j].project].lifecycle # "archived"
    /\ \A p \in Projects : projects'[p].lifecycle = "archived" =>
           \/ projects[p].lifecycle = "archived"
           \/ /\ UNCHANGED items
              /\ ~IncompleteCleanup(p)
              /\ \A j \in ItemIds : items[j].project = p => items[j].state \in Terminal

LEMMA OperatorStep ==
    ASSUME WorktreeInv, CatalogInv', OperatorFrame
    PROVE  WorktreeInv'
<1>1. UNCHANGED <<tree, svc, live>>
  BY DEF OperatorFrame, worktreeVars
<1>2. TreeType'
  BY <1>1 DEF WorktreeInv, TreeType, OperatorFrame, Slots
<1>3. ASSUME NEW j \in ItemIds
      PROVE  ItemOK(j)'
  <2>1. ItemOK(j) /\ items[j].project \in Projects
    BY Before
  <2>2. /\ items'[j].project = items[j].project
        /\ items'[j].recorded = items[j].recorded /\ items'[j].removed = items[j].removed
        /\ \/ items'[j].state = items[j].state
           \/ /\ items[j].state \in Pending
              /\ items'[j].state \in Pending \cup {"removed"}
    BY DEF OperatorFrame
  <2>3. /\ j \in live' => /\ items'[j].state = "active"
                          /\ tree'[j].dir \in {"clean", "dirty"} /\ tree'[j].registered
                          /\ IsRecorded(j)'
        /\ Present(j)' => tree'[j].ref # "none"
        /\ items'[j].state \in {"active", "ended"} /\ tree'[j] # Nothing => IsRecorded(j)'
    BY <1>1, <2>1, <2>2 DEF ItemOK, Present, IsRecorded, Pending
  <2>4. CASE IsArchived(items[j].project)
    BY <1>1, <2>1, <2>2, <2>3, <2>4 DEF ItemOK, Pending, Terminal
  <2>5. CASE ~IsArchived(items[j].project)
    <3>1. CASE ~IsArchived(items[j].project)'
      BY <2>3, <3>1 DEF ItemOK
    <3>2. CASE IsArchived(items[j].project)'
      <4>1. /\ UNCHANGED items /\ ~IncompleteCleanup(items[j].project)
            /\ items[j].state \in Terminal
        BY <2>1, <2>2, <2>5, <3>2 DEF OperatorFrame, IsArchived
      <4>2. ~IsRecorded(j)
        BY <4>1 DEF IncompleteCleanup, IsRecorded
      <4> QED
        BY <1>1, <2>1, <2>3, <4>1, <4>2 DEF ItemOK
    <3> QED
      BY <3>1, <3>2
  <2> QED
    BY <2>4, <2>5
<1>4. ASSUME NEW j \in ItemIds' \ ItemIds
      PROVE  ItemOK(j)'
  <2>1. tree[j] = Nothing /\ j \notin live
    BY DEF OperatorFrame, WorktreeInv, TreeType
  <2>2. items'[j].state \in Pending /\ projects'[items'[j].project].lifecycle # "archived"
    BY DEF OperatorFrame
  <2> QED
    BY <1>1, <2>1, <2>2, SMT DEF ItemOK, Present, Nothing, IsArchived, Pending
<1>5. Position'
  <2>1. svc.pc \notin Resting => svc.item \in ItemIds
    BY BusyWithIdle
  <2> QED
    BY <1>1, <2>1, PositionKept DEF OperatorFrame
<1>6. \A j \in (Slots \ ItemIds)' : tree'[j] = Nothing
  BY <1>1 DEF WorktreeInv, OperatorFrame, Slots
<1> QED
  BY <1>2, <1>3, <1>4, <1>5, <1>6 DEF WorktreeInv

(* Commands that leave the items alone.                                    *)
LEMMA ItemsKept ==
    ASSUME WorktreeInv, UNCHANGED worktreeVars, UNCHANGED items,
           \A p \in Projects : projects'[p].lifecycle = "archived" =>
               \/ projects[p].lifecycle = "archived"
               \/ /\ ~IncompleteCleanup(p)
                  /\ \A j \in ItemIds : items[j].project = p => items[j].state \in Terminal
    PROVE  OperatorFrame
<1>1. ItemIds' = ItemIds /\ ItemIds \subseteq Slots
  BY DEF ItemIds, WorktreeInv, TreeType
<1> QED
  BY <1>1 DEF OperatorFrame

LEMMA AdministerFrame ==
    ASSUME WorktreeInv, UNCHANGED worktreeVars, Administer
    PROVE  OperatorFrame
<1>0. projects \in [Projects -> ProjectRecords] /\ items \in Seq(ItemRecords)
  BY DEF WorktreeInv, CatalogInv, CatalogType
<1>1. ASSUME NEW p \in Projects, NEW id \in RevisionIds, ActivateRevision(p, id)
      PROVE  OperatorFrame
  <2>1. UNCHANGED items /\ \A q \in Projects : projects'[q].lifecycle = projects[q].lifecycle
    BY <1>0, <1>1 DEF ActivateRevision, ProjectRecords
  <2> QED
    BY <2>1, ItemsKept
<1>2. ASSUME NEW p \in Projects, NEW target \in Lifecycles, TransitionProject(p, target)
      PROVE  OperatorFrame
  <2>1. UNCHANGED items /\ MayTransition(p, target)
        /\ projects' = [projects EXCEPT ![p].lifecycle = target]
    BY <1>2 DEF TransitionProject
  <2>2. \A q \in Projects :
            projects'[q].lifecycle = IF q = p THEN target ELSE projects[q].lifecycle
    BY <1>0, <2>1 DEF ProjectRecords
  <2>3. target = "archived" =>
            /\ ~IncompleteCleanup(p)
            /\ \A j \in ItemIds : items[j].project = p => items[j].state \in Terminal
    BY <2>1 DEF MayTransition
  <2> QED
    BY <2>1, <2>2, <2>3, ItemsKept
<1>3. ASSUME NEW p \in Projects, CloseCircuit(p)
      PROVE  OperatorFrame
  <2>1. UNCHANGED items /\ \A q \in Projects : projects'[q].lifecycle = projects[q].lifecycle
    BY <1>0, <1>3 DEF CloseCircuit, ProjectRecords
  <2> QED
    BY <2>1, ItemsKept
<1>4. ASSUME NEW i \in ItemIds, HoldItem(i) \/ ReleaseItem(i) \/ RemoveItem(i)
      PROVE  OperatorFrame
  <2>1. PICK s \in Pending \cup {"removed"} :
            items' = [items EXCEPT ![i].state = s] /\ items[i].state \in Pending
            /\ UNCHANGED projects
    BY <1>4 DEF HoldItem, ReleaseItem, RemoveItem, MutateItem, Pending
  <2> DEFINE v == [items[i] EXCEPT !.state = s]
  <2>2. items' = [items EXCEPT ![i] = v]
    BY <2>1
  <2>3. /\ v.state = s /\ v.project = items[i].project
        /\ v.recorded = items[i].recorded /\ v.removed = items[i].removed /\ v \in ItemRecords
    <3>1. items[i] \in ItemRecords
      BY Before
    <3> QED
      BY <3>1 DEF ItemRecords, ItemStates, Terminal
  <2> HIDE DEF v
  <2>4. /\ items' \in Seq(ItemRecords) /\ Len(items') = Len(items)
        /\ \A j \in ItemIds : items'[j] = IF j = i THEN v ELSE items[j]
    BY <1>0, <2>2, <2>3, ExceptSeq, SMT DEF ItemIds
  <2>5. ItemIds' = ItemIds /\ ItemIds \subseteq Slots
    BY <2>4 DEF ItemIds, WorktreeInv, TreeType
  <2> QED
    BY <2>1, <2>3, <2>4, <2>5 DEF OperatorFrame
<1> QED
  BY <1>1, <1>2, <1>3, <1>4 DEF Administer

LEMMA OperateFrame ==
    ASSUME WorktreeInv, UNCHANGED worktreeVars, NEW o \in Operators, Operate(o)
    PROVE  OperatorFrame
<1>0. /\ projects \in [Projects -> ProjectRecords] /\ items \in Seq(ItemRecords)
      /\ plans[o] \in PlanRecords
  BY DEF WorktreeInv, CatalogInv, CatalogType
<1>1. CASE UNCHANGED <<projects, items>>
  BY <1>1, ItemsKept
<1>2. CASE CommitRegister(o) /\ RegisterAllowed(plans[o])
  <2>1. plans[o].project \in Projects /\ plans[o].lifecycle \in {"active", "paused"}
    BY <1>0, <1>2 DEF CommitRegister, PlanRecords
  <2>2. projects' = [projects EXCEPT ![plans[o].project] =
            [lifecycle |-> plans[o].lifecycle, current |-> plans[o].id, open |-> FALSE]]
        /\ UNCHANGED items
    BY <1>2 DEF CommitRegister
  <2>3. \A q \in Projects : projects'[q].lifecycle = "archived" => projects[q].lifecycle = "archived"
    BY <1>0, <2>1, <2>2
  <2> QED
    BY <2>2, <2>3, ItemsKept
<1>3. CASE CommitAppend(o) /\ AppendAllowed(plans[o])
  <2>1. \/ projects' = [projects EXCEPT ![plans[o].project].current = plans[o].id]
        \/ projects' = projects
    BY <1>3 DEF CommitAppend
  <2>2. UNCHANGED items
    BY <1>3 DEF CommitAppend
  <2>3. plans[o].project \in Projects
    BY <1>0, <1>3 DEF CommitAppend, PlanRecords
  <2>4. \A q \in Projects : projects'[q].lifecycle = projects[q].lifecycle
    BY <1>0, <2>1, <2>3, SMT DEF ProjectRecords
  <2> QED
    BY <2>2, <2>4, ItemsKept
<1>4. CASE CommitSubmit(o) /\ AdmitAllowed(plans[o])
  <2>1. plans[o].project \in Projects /\ plans[o].state \in Pending
    BY <1>0, <1>4 DEF CommitSubmit, PlanRecords
  <2>2. PICK v : items' = Append(items, v) /\ v.project = plans[o].project /\ v.state = plans[o].state
    BY <1>4, SMT DEF CommitSubmit, NewItem
  <2>3. UNCHANGED projects /\ projects[plans[o].project].lifecycle # "archived" /\ Len(items) < MaxItems
    BY <1>4 DEF CommitSubmit, AdmitAllowed
  <2>4. PICK n \in Nat : n = Len(items)
    BY <1>0, SMT
  <2>5. /\ Len(items') = n + 1 /\ items'[n + 1] = v
        /\ \A j \in 1 .. n : items'[j] = items[j]
    BY <1>0, <2>2, <2>4, SMT
  <2>6. ItemIds = 1 .. n /\ ItemIds' = 1 .. n + 1 /\ n + 1 <= MaxItems
    BY <2>3, <2>4, <2>5, CatalogAssumption, SMT DEF ItemIds
  <2>7. ItemIds' \subseteq Slots /\ ItemIds' \ ItemIds = {n + 1}
    BY <2>4, <2>6, CatalogAssumption, SMT DEF Slots
  <2> QED
    BY <2>1, <2>2, <2>3, <2>5, <2>6, <2>7, SMT DEF OperatorFrame
<1> QED
  BY <1>1, <1>2, <1>3, <1>4
  DEF Operate, PlanRegister, PlanAppend, PlanSubmit, Plan, CommitRegister, CommitAppend, CommitSubmit

-----------------------------------------------------------------------------
(* The invariant.                                                          *)

LEMMA WorktreesInitially ==
    ASSUME Init
    PROVE  WorktreeInv
<1>1. CatalogInv
  BY CatalogInitially
<1>2. ItemIds \subseteq Slots /\ \A i \in ItemIds : items[i].state = "queued"
  <2>1. CASE EmptyCatalog
    BY <2>1, SMT DEF EmptyCatalog, ItemIds
  <2>2. ASSUME NEW p \in Imported, ImportedProject(p)
        PROVE  ItemIds \subseteq Slots /\ \A i \in ItemIds : items[i].state = "queued"
    <3>1. PICK b \in BOOLEAN : items = <<NewItem(p, 1, 1, "queued", b)>>
      BY <2>2 DEF ImportedProject
    <3> QED
      BY <3>1, CatalogAssumption, SMT DEF ItemIds, Slots, NewItem
  <2> QED
    BY <2>1, <2>2 DEF Init, CatalogInit
<1>3. \A p \in Projects : projects[p].lifecycle # "archived"
  BY SMT DEF Init, CatalogInit, EmptyCatalog, ImportedProject
<1>4. \A i \in Slots : tree[i] = Nothing
  BY DEF Init, WorktreeInit
<1>5. live = {} /\ svc = Reconciling
  BY DEF Init, WorktreeInit
<1>6. TreeType
  <2>1. Nothing \in Trees
    BY DEF Nothing, Trees
  <2> QED
    BY <1>2, <1>5, <2>1, StartsOver DEF TreeType, Init, WorktreeInit
<1>7. ASSUME NEW i \in ItemIds
      PROVE  ItemOK(i)
  <2>1. items[i].project \in Projects
    BY <1>1, ItemTyped DEF CatalogInv, ItemRecords
  <2> QED
    BY <1>2, <1>3, <1>4, <1>5, <2>1, SMT DEF ItemOK, Present, Nothing, IsArchived
<1>8. Position
  BY <1>5, StartsOver DEF Position, Preparing, Cleaning
<1> QED
  BY <1>1, <1>4, <1>6, <1>7, <1>8 DEF WorktreeInv

LEMMA WorktreesStep ==
    ASSUME WorktreeInv, [Next]_vars
    PROVE  WorktreeInv'
<1>1. CatalogInv' /\ CatalogInv /\ CatalogType
  BY CatalogStep DEF WorktreeInv, CatalogInv
<1>2. CASE Service \/ Environment
  BY <1>1, <1>2, FrameStep, ServiceStep, EnvironmentStep
<1>3. CASE CatalogNext /\ UNCHANGED worktreeVars
  BY <1>1, <1>3, AdministerFrame, OperateFrame, OperatorStep DEF CatalogNext
<1>4. CASE UNCHANGED vars
  <2>1. UNCHANGED worktreeVars /\ UNCHANGED <<items, projects>>
    BY <1>4 DEF vars, catalogVars
  <2> QED
    BY <1>1, <2>1, ItemsKept, OperatorStep
<1> QED
  BY <1>2, <1>3, <1>4 DEF Next

LEMMA WorktreesInvariant == Spec => []WorktreeInv
<1>1. Init => WorktreeInv
  BY WorktreesInitially
<1>2. WorktreeInv /\ [Next]_vars => WorktreeInv'
  BY WorktreesStep
<1> QED
  BY <1>1, <1>2, PTL DEF Spec

(* For any number of items, Projects, faults and crashes: an executor has  *)
(* a complete, registered and recorded worktree as long as it runs, and no *)
(* worktree is ever without its ref, at any point between _ensure_ref, git *)
(* worktree add, git worktree remove and _delete_ref.                      *)
THEOREM TreesStayWhole == Spec => []TreesAreWhole
<1>1. WorktreeInv => TreesAreWhole
  <2> SUFFICES ASSUME WorktreeInv PROVE TreesAreWhole
    OBVIOUS
  <2>1. \A i \in live : tree[i].dir \in {"clean", "dirty"} /\ tree[i].registered /\ IsRecorded(i)
    BY DEF WorktreeInv, TreeType, ItemOK
  <2>2. \A i \in Slots : Present(i) => tree[i].ref # "none"
    BY SMT DEF WorktreeInv, ItemOK, Present, Nothing
  <2> QED
    BY <2>1, <2>2 DEF TreesAreWhole
<1> QED
  BY <1>1, WorktreesInvariant, PTL

(* A claimed or ended attempt's ref or worktree is on record as long as it *)
(* exists, and an archived Project has none, whatever failed in between:   *)
(* record_worktree_prepared comes before claim, a cleanup error keeps the  *)
(* record, and transition_project asks for it.                             *)
THEOREM AttemptsStaySwept == Spec => []AttemptsAreSwept
<1>1. WorktreeInv => AttemptsAreSwept
  <2> SUFFICES ASSUME WorktreeInv, NEW i \in ItemIds
               PROVE  /\ items[i].state \in {"active", "ended"} /\ tree[i] # Nothing => IsRecorded(i)
                      /\ projects[items[i].project].lifecycle = "archived" /\ items[i].state = "ended"
                            => tree[i] = Nothing /\ i \notin live
    BY DEF AttemptsAreSwept
  <2>1. ItemOK(i)
    BY Before
  <2> QED
    BY <2>1 DEF ItemOK, IsArchived
<1> QED
  BY <1>1, WorktreesInvariant, PTL

-----------------------------------------------------------------------------
(* What the job has written.                                               *)

LEMMA KeepsOthers ==
    ASSUME WorktreeInv, NEW i \in ItemIds, NEW t, tree' = [tree EXCEPT ![i] = t],
           tree[i].dir = "dirty" => t.dir = "dirty"
    PROVE  KeepsWritten
<1>1. i \in Slots /\ tree \in [Slots -> Trees]
  BY Before DEF WorktreeInv, TreeType
<1> QED
  BY <1>1 DEF KeepsWritten

LEMMA KeepStep ==
    ASSUME WorktreeInv, [Next]_vars
    PROVE  KeepsWritten
<1>1. CASE UNCHANGED tree
  BY <1>1 DEF KeepsWritten
<1>2. ASSUME NEW i \in ItemIds, NEW f \in {"none", "exact", "moved"},
             tree' = [tree EXCEPT ![i].ref = f]
      PROVE  KeepsWritten
  <2>1. PICK t \in Trees : tree' = [tree EXCEPT ![i] = t] /\ t.dir = tree[i].dir
    BY ONLY <1>2, RefPost, WorktreeInv, i \in ItemIds, f \in {"none", "exact", "moved"}
  <2> QED
    BY <2>1, KeepsOthers
<1>3. ASSUME NEW i \in ItemIds, NEW d \in {"none", "partial", "clean", "dirty"},
             tree' = [tree EXCEPT ![i].dir = d], tree[i].dir # "dirty"
      PROVE  KeepsWritten
  <2>1. PICK t \in Trees : tree' = [tree EXCEPT ![i] = t]
    BY ONLY <1>3, DirPost, WorktreeInv, i \in ItemIds, d \in {"none", "partial", "clean",
       "dirty"}
  <2> QED
    BY <1>3, <2>1, KeepsOthers
<1>4. ASSUME NEW i \in ItemIds, NEW d \in {"none", "partial", "clean", "dirty"}, NEW b \in BOOLEAN,
             tree' = [tree EXCEPT ![i].dir = d, ![i].registered = b], tree[i].dir # "dirty"
      PROVE  KeepsWritten
  <2>1. PICK t \in Trees : tree' = [tree EXCEPT ![i] = t]
    <3>1. tree \in [Slots -> Trees] /\ i \in Slots
      BY Before DEF WorktreeInv, TreeType
    <3>2. tree' = [tree EXCEPT ![i] = [tree[i] EXCEPT !.dir = d, !.registered = b]]
      BY <1>4, <3>1
    <3>3. [tree[i] EXCEPT !.dir = d, !.registered = b] \in Trees
      BY <3>1 DEF Trees
    <3> QED
      BY <3>2, <3>3
  <2> QED
    BY <1>4, <2>1, KeepsOthers
<1>5. ASSUME NEW i \in ItemIds, EnsureRef(i) \/ DeleteRef(i) \/ RefMoves(i)
      PROVE  KeepsWritten
  BY <1>1, <1>2, <1>5 DEF EnsureRef, DeleteRef, RefMoves
<1>6. ASSUME NEW i \in ItemIds, Added(i)
      PROVE  KeepsWritten
  <2>1. tree[i].dir # "dirty"
    BY <1>6 DEF Added, WorktreeInv, Position, Present
  <2> QED
    BY <1>1, <1>4, <1>6, <2>1 DEF Added
<1>7. ASSUME NEW i \in ItemIds, Filled(i)
      PROVE  KeepsWritten
  <2>1. tree[i].dir # "dirty"
    BY <1>7 DEF Filled, WorktreeInv, Position
  <2> QED
    BY <1>1, <1>3, <1>7, <2>1 DEF Filled
<1>8. ASSUME NEW i \in ItemIds, RemoveWorktree(i)
      PROVE  KeepsWritten
  <2>1. tree[i].dir # "dirty"
    BY <1>8 DEF RemoveWorktree, WorktreeInv, Position, Pristine
  <2> QED
    BY <1>4, <1>8, <2>1 DEF RemoveWorktree
<1>9. ASSUME NEW i \in ItemIds, JobWrites(i)
      PROVE  KeepsWritten
  BY <1>3, <1>9 DEF JobWrites
<1>10. CASE Service
  <2>1. ASSUME NEW i \in ItemIds, PrepareSteps(i)
        PROVE  KeepsWritten
    BY <1>1, <1>5, <1>6, <1>7, <2>1
    DEF PrepareSteps, Prepare, AddWorktree, AddLegacyWorktree, Materialize, LinkSharedPaths,
        RecordPrepared, RecordAdopted, Recorded, PreparePayload, RefuseDispatch, Claim, Launch
  <2>2. ASSUME NEW i \in ItemIds, FinishSteps(i)
        PROVE  KeepsWritten
    BY <1>1, <2>2 DEF FinishSteps, FinishLocal, FinishRestarted, ReleaseLease
  <2>3. ASSUME NEW i \in ItemIds, CleanupSteps(i)
        PROVE  KeepsWritten
    BY <1>1, <1>5, <1>8, <2>3
    DEF CleanupSteps, CheckCleanup, RecordRemoved, RecordLegacyRemoved, Erased, SweepOrphan
  <2> QED
    BY <1>1, <1>10, <2>1, <2>2, <2>3 DEF Service, BeginDispatch, EndIteration, StartService
<1>11. CASE Environment
  BY <1>1, <1>5, <1>9, <1>11 DEF Environment, ExecutorEnds, Crash, worktreeVars
<1> QED
  BY <1>1, <1>10, <1>11 DEF Next, vars, worktreeVars

(* No step of the scheduler, an operator or a restart removes or replaces  *)
(* a worktree the job has written into: cleanup verifies the tree clean    *)
(* while no executor runs, and only then removes it.                       *)
THEOREM WrittenTreesAreKept == Spec => WrittenTreeIsKept
<1>1. WorktreeInv /\ [Next]_vars => [KeepsWritten]_vars
  BY KeepStep
<1> QED
  BY <1>1, WorktreesInvariant, PTL DEF Spec, WrittenTreeIsKept


-----------------------------------------------------------------------------
(* The shapes of the rows: the bound on revisions is kept by the operators *)
(* that planned within it, only claim makes an item active, with a lease,  *)
(* and the scheduler only ever works on an admitted item.                  *)

RevisionsBounded ==
    /\ Len(revisions) <= MaxRevisions
    /\ \A o \in Operators :
           plans[o].cmd \in {"register", "append"} => plans[o].id <= MaxRevisions

Leased == \A i \in ItemIds : items[i].state = "active" => items[i].lease

OnAnItem == svc.item \in ItemIds \cup {NoItem}

ShapeInv == WorktreeInv /\ RevisionsBounded /\ Leased /\ OnAnItem

LEMMA PlanKeepsBound ==
    ASSUME CatalogType, RevisionsBounded, NEW o \in Operators, NEW plan, Plan(o, plan),
           plan.cmd \in {"register", "append"} => plan.id <= MaxRevisions
    PROVE  RevisionsBounded'
<1>1. revisions' = revisions /\ plans' = [plans EXCEPT ![o] = plan]
  BY DEF Plan
<1>2. \A q \in Operators : plans'[q] = IF q = o THEN plan ELSE plans[q]
  BY <1>1 DEF CatalogType
<1> QED
  BY <1>1, <1>2 DEF RevisionsBounded

LEMMA FinishKeepsBound ==
    ASSUME CatalogType, RevisionsBounded, NEW o \in Operators, Finished(o),
           Len(revisions') <= MaxRevisions
    PROVE  RevisionsBounded'
<1>1. \A q \in Operators : plans'[q] = IF q = o THEN Idle ELSE plans[q]
  BY DEF Finished, CatalogType
<1>2. Idle.cmd = "none"
  BY DEF Idle
<1> QED
  BY <1>1, <1>2 DEF RevisionsBounded

(* A row is only added under the id the operator read, which is the next.  *)
LEMMA AddKeepsBound ==
    ASSUME CatalogInv, RevisionsBounded, NEW o \in Operators,
           plans[o].cmd \in {"register", "append"}, plans[o].id \notin RevisionIds,
           AddRevision(plans[o])
    PROVE  Len(revisions') <= MaxRevisions
<1>1. plans[o].id \in 1 .. Len(revisions) + 1 /\ plans[o].id <= MaxRevisions
  BY DEF CatalogInv, NumbersInv, RevisionsBounded
<1>2. PICK n \in Nat : n = Len(revisions)
  BY SMT DEF CatalogInv, CatalogType
<1>3. plans[o].id = n + 1
  BY <1>1, <1>2, SMT DEF RevisionIds
<1>4. Len(revisions') = n + 1
  BY <1>2, SMT DEF AddRevision, CatalogInv, CatalogType
<1> QED
  BY <1>1, <1>3, <1>4

LEMMA OperateKeepsBound ==
    ASSUME CatalogInv, RevisionsBounded, NEW o \in Operators, Operate(o)
    PROVE  RevisionsBounded'
<1>0. CatalogType /\ Len(revisions) <= MaxRevisions /\ Len(revisions) \in Nat
  BY SMT DEF CatalogInv, CatalogType, RevisionsBounded
<1>1. ASSUME NEW p \in Projects, NEW r \in Roots, NEW l, PlanRegister(o, p, r, l)
      PROVE  RevisionsBounded'
  <2> DEFINE plan == [cmd |-> "register", project |-> p, root |-> r, id |-> Len(revisions) + 1,
                      sequence |-> 1, lifecycle |-> l]
  <2>1. Plan(o, plan) /\ Len(revisions) < MaxRevisions
    BY <1>1 DEF PlanRegister
  <2>2. plan.id <= MaxRevisions
    BY <1>0, <2>1, CatalogAssumption, SMT
  <2> HIDE DEF plan
  <2> QED
    BY <1>0, <2>1, <2>2, PlanKeepsBound
<1>2. ASSUME NEW p \in Projects, NEW r \in Roots, NEW activate, PlanAppend(o, p, r, activate)
      PROVE  RevisionsBounded'
  <2> DEFINE next == Max({SequenceOf(id) : id \in RevisionsOf(p)}) + 1
             plan == [cmd |-> "append", project |-> p, root |-> r, id |-> Len(revisions) + 1,
                      sequence |-> next, activate |-> activate]
  <2>1. Plan(o, plan) /\ Len(revisions) < MaxRevisions
    BY <1>2 DEF PlanAppend
  <2> HIDE DEF next
  <2>2. plan.id <= MaxRevisions
    BY <1>0, <2>1, CatalogAssumption, SMT
  <2> HIDE DEF plan
  <2> QED
    BY <1>0, <2>1, <2>2, PlanKeepsBound
<1>3. ASSUME NEW p \in Projects, NEW state, PlanSubmit(o, p, state)
      PROVE  RevisionsBounded'
  <2>1. Plan(o, Compiled(p, state)) /\ Compiled(p, state).cmd = "submit"
    BY <1>3 DEF PlanSubmit, Compiled
  <2> QED
    BY <1>0, <2>1, PlanKeepsBound
<1>4. CASE CommitRegister(o)
  <2>1. Len(revisions') <= MaxRevisions
    BY <1>0, <1>4, AddKeepsBound DEF CommitRegister, RegisterAllowed
  <2> QED
    BY <1>0, <1>4, <2>1, FinishKeepsBound DEF CommitRegister
<1>5. CASE CommitAppend(o)
  <2>1. Len(revisions') <= MaxRevisions
    BY <1>0, <1>5, AddKeepsBound DEF CommitAppend, AppendAllowed
  <2> QED
    BY <1>0, <1>5, <2>1, FinishKeepsBound DEF CommitAppend
<1>6. CASE CommitSubmit(o)
  BY <1>0, <1>6, FinishKeepsBound DEF CommitSubmit
<1> QED
  BY <1>1, <1>2, <1>3, <1>4, <1>5, <1>6 DEF Operate

LEMMA BoundStep ==
    ASSUME WorktreeInv, RevisionsBounded, [Next]_vars
    PROVE  RevisionsBounded'
<1>0. CatalogInv /\ CatalogType
  BY DEF WorktreeInv, CatalogInv
<1>1. CASE UNCHANGED <<revisions, plans>>
  BY <1>1 DEF RevisionsBounded
<1>2. CASE Service \/ Environment
  BY <1>0, <1>1, <1>2, FrameStep DEF CatalogFrame
<1>3. CASE Administer
  BY <1>1, <1>3
  DEF Administer, ActivateRevision, TransitionProject, CloseCircuit, HoldItem, ReleaseItem,
      RemoveItem, MutateItem
<1>4. CASE UNCHANGED vars
  BY <1>1, <1>4 DEF vars, catalogVars
<1> QED
  BY <1>0, <1>2, <1>3, <1>4, OperateKeepsBound DEF Next, CatalogNext

(* An item is replaced by one that is leased if it is active.              *)
LEMMA ReplaceLeased ==
    ASSUME CatalogType, Leased, CatalogFrame, NEW i \in ItemIds, NEW v,
           items' = [items EXCEPT ![i] = v], v.state = "active" => v.lease
    PROVE  Leased'
<1>1. ItemIds' = ItemIds
  BY DEF CatalogFrame, ItemsFrame, ItemIds
<1>2. \A j \in ItemIds : items'[j] = IF j = i THEN v ELSE items[j]
  BY SMT DEF CatalogType, ItemIds
<1> QED
  BY <1>1, <1>2 DEF Leased

(* The worktree columns say nothing about the lease.                       *)
LEMMA ColumnsLeased ==
    ASSUME CatalogType, Leased, CatalogFrame, NEW i \in ItemIds,
           \/ Recorded(i) \/ CleanupFailed(i) \/ Erased(i)
    PROVE  Leased'
<1> DEFINE a == [items[i] EXCEPT !.recorded = TRUE, !.removed = FALSE, !.failed = FALSE]
           b == [items[i] EXCEPT !.failed = TRUE, !.removed = FALSE]
           c == [items[i] EXCEPT !.removed = TRUE, !.failed = FALSE]
<1>1. items[i] \in ItemRecords /\ (items[i].state = "active" => items[i].lease)
  BY ItemTyped DEF Leased
<1>2. /\ a.state = items[i].state /\ a.lease = items[i].lease
      /\ b.state = items[i].state /\ b.lease = items[i].lease
      /\ c.state = items[i].state /\ c.lease = items[i].lease
  BY <1>1 DEF ItemRecords
<1>3. \/ UNCHANGED items
      \/ items' = [items EXCEPT ![i] = a]
      \/ items' = [items EXCEPT ![i] = b]
      \/ items' = [items EXCEPT ![i] = c]
  BY DEF Recorded, CleanupFailed, Erased, CatalogType
<1> HIDE DEF a, b, c
<1>4. CASE UNCHANGED items
  BY <1>4 DEF Leased, ItemIds
<1> QED
  BY <1>1, <1>2, <1>3, <1>4, ReplaceLeased

(* Claiming, ending, requeueing and releasing.                             *)
LEMMA StatesLeased ==
    ASSUME CatalogType, Leased, CatalogFrame, NEW i \in ItemIds,
           \/ items' = [items EXCEPT ![i].state = "active", ![i].lease = TRUE]
           \/ items' = [items EXCEPT ![i].state = "ended"]
           \/ items' = [items EXCEPT ![i].state = "queued", ![i].lease = FALSE]
           \/ items[i].state = "ended" /\ items' = [items EXCEPT ![i].lease = FALSE]
    PROVE  Leased'
<1> DEFINE a == [items[i] EXCEPT !.state = "active", !.lease = TRUE]
           b == [items[i] EXCEPT !.state = "ended"]
           c == [items[i] EXCEPT !.state = "queued", !.lease = FALSE]
           d == [items[i] EXCEPT !.lease = FALSE]
<1>1. items[i] \in ItemRecords
  BY ItemTyped
<1>2. a.lease = TRUE /\ b.state = "ended" /\ c.state = "queued" /\ d.state = items[i].state
  BY <1>1 DEF ItemRecords
<1>3. \/ items' = [items EXCEPT ![i] = a]
      \/ items' = [items EXCEPT ![i] = b]
      \/ items' = [items EXCEPT ![i] = c]
      \/ items[i].state = "ended" /\ items' = [items EXCEPT ![i] = d]
  BY DEF CatalogType
<1> HIDE DEF a, b, c, d
<1> QED
  BY <1>2, <1>3, ReplaceLeased

LEMMA ServiceLeased ==
    ASSUME CatalogType, Leased, CatalogFrame, Service \/ Environment
    PROVE  Leased'
<1>1. CASE UNCHANGED items
  BY <1>1 DEF Leased, ItemIds
<1>2. ASSUME NEW i \in ItemIds, PrepareSteps(i)
      PROVE  Leased'
  <2>1. CASE Recorded(i)
    BY <2>1, ColumnsLeased
  <2>2. CASE Claim(i) \/ Launch(i)
    BY <1>1, <2>2, StatesLeased DEF Claim, Launch
  <2> QED
    BY <1>1, <1>2, <2>1, <2>2
    DEF PrepareSteps, Prepare, EnsureRef, AddWorktree, AddLegacyWorktree, Added, Materialize,
        LinkSharedPaths, Filled, RecordPrepared, RecordAdopted, PreparePayload, RefuseDispatch,
        RefusePreparation
<1>3. ASSUME NEW i \in ItemIds, FinishSteps(i)
      PROVE  Leased'
  BY <1>1, <1>3, StatesLeased
  DEF FinishSteps, FinishLocal, FinishRestarted, ReleaseLease
<1>4. ASSUME NEW i \in ItemIds, CleanupSteps(i)
      PROVE  Leased'
  BY <1>1, <1>4, ColumnsLeased
  DEF CleanupSteps, CheckCleanup, RemoveWorktree, DeleteRef, RecordRemoved, RecordLegacyRemoved,
      SweepOrphan
<1>5. CASE BeginDispatch \/ EndIteration \/ StartService
  BY <1>1, <1>5 DEF BeginDispatch, EndIteration, StartService, catalogVars
<1>6. CASE Environment
  BY <1>1, <1>6 DEF Environment, JobWrites, ExecutorEnds, RefMoves, Crash, RootChanges, catalogVars
<1> QED
  BY <1>2, <1>3, <1>4, <1>5, <1>6 DEF Service

LEMMA OperatorsLeased ==
    ASSUME WorktreeInv, Leased, CatalogNext
    PROVE  Leased'
<1>0. items \in Seq(ItemRecords) /\ \A o \in Operators : plans[o] \in PlanRecords
  BY DEF WorktreeInv, CatalogInv, CatalogType
<1>1. CASE UNCHANGED items
  BY <1>1 DEF Leased, ItemIds
<1>2. ASSUME NEW i \in ItemIds, HoldItem(i) \/ ReleaseItem(i) \/ RemoveItem(i)
      PROVE  Leased'
  <2>1. PICK s \in Pending \cup {"removed"} : items' = [items EXCEPT ![i].state = s]
    BY <1>2 DEF HoldItem, ReleaseItem, RemoveItem, MutateItem, Pending
  <2> DEFINE v == [items[i] EXCEPT !.state = s]
  <2>2. items' = [items EXCEPT ![i] = v]
    BY <2>1
  <2>3. v \in ItemRecords /\ v.state # "active"
    <3>1. items[i] \in ItemRecords
      BY Before
    <3> QED
      BY <3>1 DEF ItemRecords, ItemStates, Terminal, Pending
  <2> HIDE DEF v
  <2>4. /\ Len(items') = Len(items)
        /\ \A j \in ItemIds : items'[j] = IF j = i THEN v ELSE items[j]
    BY <1>0, <2>2, <2>3, ExceptSeq, SMT DEF ItemIds
  <2> QED
    BY <2>3, <2>4 DEF Leased, ItemIds
<1>3. ASSUME NEW o \in Operators, CommitSubmit(o), AdmitAllowed(plans[o])
      PROVE  Leased'
  <2>1. plans[o].state \in Pending
    BY <1>0, <1>3 DEF CommitSubmit, PlanRecords
  <2>2. PICK v : items' = Append(items, v) /\ v.state = plans[o].state
    BY <1>3, SMT DEF CommitSubmit, NewItem
  <2>3. PICK n \in Nat : n = Len(items)
    BY <1>0, SMT
  <2>4. /\ Len(items') = n + 1 /\ items'[n + 1] = v
        /\ \A j \in 1 .. n : items'[j] = items[j]
    BY <1>0, <2>2, <2>3, SMT
  <2> QED
    BY <2>1, <2>2, <2>3, <2>4, SMT DEF Leased, ItemIds, Pending
<1>4. ASSUME NEW o \in Operators, Operate(o)
      PROVE  Leased'
  BY <1>1, <1>3, <1>4
  DEF Operate, PlanRegister, PlanAppend, PlanSubmit, Plan, CommitRegister, CommitAppend, CommitSubmit
<1>5. CASE Administer
  BY <1>1, <1>2, <1>5 DEF Administer, ActivateRevision, TransitionProject, CloseCircuit
<1> QED
  BY <1>4, <1>5 DEF CatalogNext

LEMMA ServiceOnAnItem ==
    ASSUME WorktreeInv, OnAnItem, CatalogFrame, Service \/ Environment
    PROVE  OnAnItem'
<1>0. svc \in Positions /\ Reconciling.item = NoItem /\ ItemIds' = ItemIds
  BY DEF WorktreeInv, TreeType, CatalogFrame, ItemsFrame, ItemIds, Reconciling
<1>1. CASE UNCHANGED svc
  BY <1>0, <1>1 DEF OnAnItem
<1>2. ASSUME NEW i \in ItemIds \cup {NoItem}, svc'.item = i
      PROVE  OnAnItem'
  BY <1>0, <1>2 DEF OnAnItem
<1>3. ASSUME NEW pc, NEW i PROVE At(pc, i).item = i
  BY <1>0 DEF At, Positions
<1>5. CleanupDone.item \in ItemIds \cup {NoItem}
  BY <1>3 DEF CleanupDone, OnAnItem
<1>6. ASSUME NEW i \in ItemIds, PrepareSteps(i)
      PROVE  svc'.item \in ItemIds \cup {NoItem}
  <2>1. RefusePreparation(i) => svc'.item = NoItem
    BY <1>3 DEF RefusePreparation
  <2>2. CASE Prepare(i) \/ RefuseDispatch(i)
    BY <1>3, <2>1, <2>2 DEF Prepare, RefuseDispatch
  <2>3. CASE EnsureRef(i)
    <3>1. PICK pc : svc' = At(pc, i) \/ RefusePreparation(i)
      BY <2>3 DEF EnsureRef
    <3> QED
      BY <1>3, <2>1, <3>1
  <2>4. CASE Added(i) \/ Filled(i) \/ Recorded(i)
    <3>1. RefusePreparation(i) \/ \E pc \in {"fill", "record", "payload"} : svc' = At(pc, i)
      BY <2>4 DEF Added, Filled, Recorded
    <3> QED
      BY <1>3, <2>1, <3>1
  <2>5. CASE PreparePayload(i) \/ Claim(i)
    <3>1. \/ \E pc \in {"claim", "refuse", "launch"} : svc' = At(pc, i)
          \/ \E back : svc' = [At("check", i) EXCEPT !.back = back]
      BY <2>5 DEF PreparePayload, Claim
    <3>2. svc'.item = i
      BY <1>0, <3>1 DEF At, Positions
    <3> QED
      BY <3>2
  <2>6. CASE Launch(i)
    <3>1. \/ svc' = At("dispatch", NoItem)
          \/ svc' = [At("check", i) EXCEPT !.back = "dispatch"]
      BY <2>6 DEF Launch
    <3>2. svc'.item \in {i, NoItem}
      BY <1>0, <3>1 DEF At, Positions
    <3> QED
      BY <3>2
  <2> QED
    BY <1>6, <2>2, <2>3, <2>4, <2>5, <2>6
    DEF PrepareSteps, AddWorktree, AddLegacyWorktree, Materialize, LinkSharedPaths,
        RecordPrepared, RecordAdopted
<1>7. ASSUME NEW i \in ItemIds, FinishSteps(i)
      PROVE  OnAnItem'
  <2>1. CASE svc' = [Reconciling EXCEPT !.pc = "exited"]
    BY <1>2, <2>1 DEF Reconciling
  <2>2. CASE svc' = [At("check", i) EXCEPT !.back = "reconcile"]
    <3>1. svc'.item = i
      BY <1>0, <2>2 DEF At, Positions
    <3> QED
      BY <1>2, <3>1
  <2> QED
    BY <1>1, <1>7, <2>1, <2>2
    DEF FinishSteps, FinishLocal, FinishRestarted, ReleaseLease
<1>8. ASSUME NEW i \in ItemIds, CleanupSteps(i)
      PROVE  OnAnItem'
  <2>1. CleanupFailed(i) => OnAnItem'
    BY <1>2, <1>5 DEF CleanupFailed
  <2>2. CASE SweepOrphan(i)
    <3>1. svc'.item = i \/ svc'.item = svc.item
      BY <1>0, <2>2, SMT DEF SweepOrphan, Positions
    <3> QED
      BY <1>2, <3>1 DEF OnAnItem
  <2>3. CASE Erased(i)
    BY <1>2, <1>5, <2>3 DEF Erased
  <2>4. CASE CheckCleanup(i) \/ RemoveWorktree(i) \/ DeleteRef(i)
    <3>1. CleanupFailed(i) \/ \E pc \in {"remove", "unpin", "erase"} : svc' = At(pc, i)
      <4>1. CheckCleanup(i) => CleanupFailed(i) \/ svc' = At("remove", i) \/ svc' = At("unpin", i)
        BY DEF CheckCleanup
      <4>2. RemoveWorktree(i) => CleanupFailed(i) \/ svc' = At("unpin", i)
        BY DEF RemoveWorktree
      <4>3. DeleteRef(i) => CleanupFailed(i) \/ svc' = At("erase", i)
        BY DEF DeleteRef
      <4> QED
        BY <2>4, <4>1, <4>2, <4>3
    <3>2. ASSUME NEW pc, svc' = At(pc, i)
          PROVE  OnAnItem'
      BY <1>2, <1>3, <3>2
    <3> QED
      BY <2>1, <3>1, <3>2
  <2> QED
    BY <1>8, <2>2, <2>3, <2>4 DEF CleanupSteps, RecordRemoved, RecordLegacyRemoved
<1>9. CASE BeginDispatch \/ EndIteration \/ StartService
  <2>1. svc'.item = svc.item \/ svc'.item = NoItem
    BY <1>0, <1>9 DEF BeginDispatch, EndIteration, StartService, Positions
  <2> QED
    BY <1>2, <2>1 DEF OnAnItem
<1>10. CASE Environment
  <2>1. CASE Crash
    BY <1>2, <2>1 DEF Crash, Reconciling
  <2> QED
    BY <1>1, <1>10, <2>1 DEF Environment, JobWrites, ExecutorEnds, RefMoves, worktreeVars
<1> QED
  BY <1>2, <1>6, <1>7, <1>8, <1>9, <1>10 DEF Service

LEMMA ShapesInitially ==
    ASSUME Init
    PROVE  ShapeInv
<1>1. WorktreeInv
  BY WorktreesInitially
<1>2. svc.item = NoItem /\ \A o \in Operators : plans[o].cmd = "none"
  BY DEF Init, WorktreeInit, CatalogInit, Reconciling, Idle
<1>3. CASE EmptyCatalog
  BY <1>1, <1>2, <1>3, CatalogAssumption, SMT
  DEF EmptyCatalog, ItemIds, ShapeInv, RevisionsBounded, Leased, OnAnItem
<1>4. ASSUME NEW p \in Imported, ImportedProject(p)
      PROVE  ShapeInv
  <2>1. PICK b \in BOOLEAN : items = <<NewItem(p, 1, 1, "queued", b)>>
    BY <1>4 DEF ImportedProject
  <2>2. Leased
    BY <2>1, SMT DEF Leased, ItemIds, NewItem
  <2>3. Len(revisions) = 1
    BY <1>4 DEF ImportedProject
  <2> QED
    BY <1>1, <1>2, <2>2, <2>3, CatalogAssumption, SMT DEF ShapeInv, RevisionsBounded, OnAnItem
<1> QED
  BY <1>3, <1>4 DEF Init, CatalogInit

LEMMA ShapesStep ==
    ASSUME ShapeInv, [Next]_vars
    PROVE  ShapeInv'
<1>1. /\ WorktreeInv /\ WorktreeInv' /\ RevisionsBounded' /\ CatalogType
      /\ RevisionsBounded /\ Leased /\ OnAnItem
  BY WorktreesStep, BoundStep DEF ShapeInv, WorktreeInv, CatalogInv
<1>2. CASE Service \/ Environment
  <2>1. CatalogFrame
    BY <1>1, <1>2, FrameStep
  <2> QED
    BY <1>1, <1>2, <2>1, ServiceLeased, ServiceOnAnItem DEF ShapeInv
<1>3. CASE CatalogNext /\ UNCHANGED worktreeVars
  <2>1. OperatorFrame
    BY <1>1, <1>3, AdministerFrame, OperateFrame DEF CatalogNext
  <2>2. OnAnItem'
    BY <1>1, <2>1 DEF OnAnItem, OperatorFrame, worktreeVars
  <2> QED
    BY <1>1, <1>3, <2>2, OperatorsLeased DEF ShapeInv
<1>4. CASE UNCHANGED vars
  <2>1. Leased' /\ OnAnItem'
    BY <1>1, <1>4 DEF vars, catalogVars, worktreeVars, Leased, OnAnItem, ItemIds
  <2> QED
    BY <1>1, <2>1 DEF ShapeInv
<1> QED
  BY <1>2, <1>3, <1>4 DEF Next

(* For any catalogue and any crashes, the rows keep their shape: revisions *)
(* stay within the bound and number their Project's history, a current     *)
(* revision and an item's revision are rows of their own Project, only a   *)
(* leased item is active, and the scheduler works on admitted items only.  *)
THEOREM WorktreeTypes == Spec => []WorktreeTypeOK
<1>1. Init => ShapeInv
  BY ShapesInitially
<1>2. ShapeInv /\ [Next]_vars => ShapeInv'
  BY ShapesStep
<1>3. ShapeInv => WorktreeTypeOK
  <2> SUFFICES ASSUME ShapeInv PROVE WorktreeTypeOK
    OBVIOUS
  <2>1. /\ CatalogType /\ NumbersInv /\ ItemsInv /\ TreeType
        /\ RevisionsBounded /\ Leased /\ OnAnItem
    BY DEF ShapeInv, WorktreeInv, CatalogInv
  <2>2. ASSUME NEW id \in RevisionIds
        PROVE  revisions[id] \in
                 [project : Projects, sequence : 1 .. MaxRevisions,
                  kind : {"project-v1", "legacy-v4"}, root : Roots]
    <3>1. revisions[id] \in RevisionRecords /\ id \in Nat /\ id <= Len(revisions)
      BY <2>1, ElementOfSeq, SMT DEF CatalogType, RevisionIds
    <3>2. revisions[id].sequence \in 1 .. id /\ Len(revisions) <= MaxRevisions
      BY <2>1 DEF NumbersInv, RevisionsBounded
    <3>3. Len(revisions) \in Nat
      BY <2>1, SMT DEF CatalogType
    <3>4. revisions[id].sequence \in 1 .. MaxRevisions
      BY <3>1, <3>2, <3>3, CatalogAssumption, SMT
    <3> QED
      BY <3>1, <3>4 DEF RevisionRecords
  <2>3. ASSUME NEW p \in Projects
        PROVE  /\ projects[p].lifecycle \in Lifecycles /\ projects[p].open \in BOOLEAN
               /\ IsRegistered(p) => projects[p].current \in RevisionsOf(p)
    <3>1. projects[p] \in ProjectRecords
      BY <2>1 DEF CatalogType
    <3> QED
      BY <2>1, <3>1 DEF ProjectRecords, NumbersInv
  <2>4. ASSUME NEW i \in ItemIds
        PROVE  /\ items[i].state \in ItemStates
               /\ items[i].revision \in RevisionsOf(items[i].project)
               /\ items[i].state = "active" => items[i].lease
    <3>1. items[i] \in ItemRecords
      BY <2>1, ItemTyped
    <3> QED
      BY <2>1, <3>1 DEF ItemRecords, ItemsInv, Leased
  <2>5. (\A i \in Slots : tree[i] \in Trees) /\ live \subseteq ItemIds
    BY <2>1 DEF TreeType
  <2> QED
    BY <2>1, <2>2, <2>3, <2>4, <2>5 DEF WorktreeTypeOK, OnAnItem, Trees
<1> QED
  BY <1>1, <1>2, <1>3, PTL DEF Spec
=============================================================================
