--------------------------- MODULE QueueStoreProofs ---------------------------
(***************************************************************************)
(* Machine-checked proofs about the durable queue state, for every set of  *)
(* items, GPUs and Projects and every bound.                               *)
(***************************************************************************)
EXTENDS QueueStore, TLAPS

-------------------------------------------------------------------------------
(* One-row updates                                                         *)

\* A fitting row written over another keeps the rows typed and fitting.
LEMMA PutRow ==
    ASSUME NEW i \in Items, NEW row \in Row, RowFits(row), RowInv,
           item' = [item EXCEPT ![i] = row]
    PROVE  /\ item' \in [Items -> Row]
           /\ \A j \in Items : RowFits(item'[j])
<1>1. item \in [Items -> Row] /\ \A j \in Items : RowFits(item[j])
  BY DEF RowInv, TypeOK
<1>2. item' \in [Items -> Row]
  BY <1>1
<1>3. \A j \in Items : item'[j] = IF j = i THEN row ELSE item[j]
  BY <1>1
<1> QED
  BY <1>1, <1>2, <1>3

\* UpdateRow keeps RowInv when the row it writes is typed and fits.
LEMMA UpdateRowInv ==
    ASSUME NEW i \in Items, NEW row \in Row, RowFits(row), RowInv,
           UpdateRow(i, row)
    PROVE  RowInv'
<1>1. /\ item' \in [Items -> Row]
      /\ \A j \in Items : RowFits(item'[j])
  BY PutRow, Zenon DEF UpdateRow
<1>2. UNCHANGED <<requests, receipts, paused, lifecycle, health, allow,
                  reservation>>
  BY DEF UpdateRow, yieldVars, projectVars
<1>3. TypeOK'
  BY <1>1, <1>2 DEF RowInv, TypeOK
<1>4. (\A j \in Items : RowFits(item[j]))'
  BY <1>1 DEF RowFits, LeaseFits, StageFits, IdentityFits
<1> QED
  BY <1>3, <1>4 DEF RowInv

-------------------------------------------------------------------------------
(* Each action writes only rows that fit                                   *)

\* Admission, hold, release, removal and priority changes keep RowInv.
LEMMA OperatorRows ==
    ASSUME RowInv, NEW i \in Items, OperatorStep(i)
    PROVE  RowInv'
<1> USE DEF StateOf
<1>0. item[i] \in Row /\ RowFits(item[i])
  BY DEF RowInv, TypeOK
<1>1. ASSUME NEW prio \in Priorities, NEW hold \in BOOLEAN, Admit(i, prio, hold)
      PROVE  RowInv'
  <2> DEFINE row == [item[i] EXCEPT !.state = IF hold THEN "held" ELSE "queued",
                                    !.priority = prio]
  <2>1. row \in Row
    BY <1>0, Zenon DEF Row, States, Pending
  <2>2. RowFits(row)
    BY <1>0, <1>1 DEF Admit, Row, States, RowFits, LeaseFits, StageFits,
                      IdentityFits, Pending, Active, Ended
  <2> QED
    BY <1>1, <2>1, <2>2, UpdateRowInv DEF Admit
<1>2. ASSUME NEW from \in SUBSET Pending, NEW target \in Pending,
             MoveItem(i, from, target)
      PROVE  RowInv'
  <2> DEFINE row == [item[i] EXCEPT !.state = target]
  <2>1. row \in Row
    BY <1>0 DEF Row, States
  <2>2. RowFits(row)
    BY <1>0, <1>2 DEF MoveItem, Row, States, RowFits, LeaseFits, StageFits,
                      IdentityFits, Pending, Active, Ended
  <2> QED
    BY <1>2, <2>1, <2>2, UpdateRowInv DEF MoveItem
<1>3. ASSUME NEW prio \in Priorities, SetItemPriority(i, prio)
      PROVE  RowInv'
  <2> DEFINE row == [item[i] EXCEPT !.priority = prio]
  <2>1. row \in Row /\ RowFits(row)
    BY <1>0 DEF Row, RowFits, LeaseFits, StageFits, IdentityFits
  <2> QED
    BY <1>3, <2>1, UpdateRowInv DEF SetItemPriority
<1>4. CASE RemoveItem(i)
  <2>1. \A j \in Items : item'[j] \in Row /\ RowFits(item'[j])
    <3> SUFFICES ASSUME NEW j \in Items
                 PROVE  item'[j] \in Row /\ RowFits(item'[j])
      OBVIOUS
    <3>1. item[j] \in Row /\ RowFits(item[j])
      BY DEF RowInv, TypeOK
    <3>2. \/ item'[j] = item[j]
          \/ /\ item[j].state \in Pending
             /\ \E s \in {"removed", "held"} :
                   item'[j] = [item[j] EXCEPT !.state = s]
      BY <1>4 DEF RemoveItem, Pending
    <3>3. ASSUME NEW s \in {"removed", "held"}, item[j].state \in Pending
          PROVE  /\ [item[j] EXCEPT !.state = s] \in Row
                 /\ RowFits([item[j] EXCEPT !.state = s])
      <4>1. [item[j] EXCEPT !.state = s] \in Row
        BY <3>1 DEF Row, States, Pending, Terminal
      <4>2. RowFits([item[j] EXCEPT !.state = s])
        BY <3>1, <3>3 DEF Row, States, RowFits, LeaseFits, StageFits,
                          IdentityFits, Pending, Active, Ended, Terminal
      <4> QED
        BY <4>1, <4>2
    <3> QED
      BY <3>1, <3>2, <3>3
  <2>2. item' \in [Items -> Row]
    BY <1>4, <2>1 DEF RemoveItem
  <2>3. UNCHANGED <<requests, receipts, paused, lifecycle, health, allow,
                    reservation>>
    BY <1>4 DEF RemoveItem, yieldVars, projectVars
  <2>4. TypeOK'
    BY <2>2, <2>3 DEF RowInv, TypeOK
  <2> QED
    BY <2>1, <2>4 DEF RowInv, RowFits, LeaseFits, StageFits, IdentityFits
<1>5. {"queued", "blocked"} \in SUBSET Pending /\ {"held", "blocked"} \in SUBSET Pending
  BY DEF Pending
<1> QED
  BY <1>1, <1>2, <1>3, <1>4, <1>5 DEF OperatorStep, HoldItem, ReleaseItem, Pending

\* Claims, launches, outcomes, lease releases and termination requests keep
\* RowInv.
LEMMA AttemptRows ==
    ASSUME RowInv, NEW i \in Items, AttemptStep(i)
    PROVE  RowInv'
<1> USE DEF StateOf
<1>0. item[i] \in Row /\ RowFits(item[i])
  BY DEF RowInv, TypeOK
<1>1. ASSUME NEW g \in Gpus, Claim(i, g)
      PROVE  RowInv'
  <2> DEFINE row == [item[i] EXCEPT !.state = "starting", !.gpu = g,
                                    !.held = TRUE, !.released = FALSE,
                                    !.front = FALSE, !.launched = FALSE]
  <2>1. row \in Row
    BY <1>0, <1>1, Zenon
    DEF Claim, Claimable, IsCandidate, Row, States, Stages, Trees, Pending, Active, Ended,
        Terminal
  <2>2. RowFits(row)
    BY <1>0, <1>1 DEF Claim, Claimable, IsCandidate, Row, States, Stages, RowFits, LeaseFits, StageFits,
                      IdentityFits, Pending, Active, Ended, Terminal
  <2> QED
    BY <1>1, <2>1, <2>2, UpdateRowInv DEF Claim, Claimable, IsCandidate
<1>2. ASSUME NEW g \in Gpus, NEW seg \in Segments, RecordLaunched(i, seg, g)
      PROVE  RowInv'
  <2> DEFINE row == [item[i] EXCEPT
                       !.state = IF @ = "starting" THEN "running" ELSE @,
                       !.launched = TRUE]
  <2>1. row \in Row
    BY <1>0, <1>2, Zenon
    DEF RecordLaunched, Row, States, Stages, Trees, Pending, Active, Ended, Terminal
  <2>2. RowFits(row)
    BY <1>0, <1>2 DEF RecordLaunched, Row, States, Stages, RowFits, LeaseFits, StageFits,
                      IdentityFits, Pending, Active, Ended, Terminal
  <2> QED
    BY <1>2, <2>1, <2>2, UpdateRowInv DEF RecordLaunched
<1>3. ASSUME NEW g \in Gpus, ReleaseGpuLease(i, g)
      PROVE  RowInv'
  <2> DEFINE row == [item[i] EXCEPT !.held = FALSE, !.released = TRUE]
  <2>1. row \in Row
    BY <1>0, <1>3, Zenon
    DEF ReleaseGpuLease, Row, States, Stages, Trees, Pending, Active, Ended, Terminal
  <2>2. RowFits(row)
    BY <1>0, <1>3 DEF ReleaseGpuLease, Row, States, Stages, RowFits, LeaseFits, StageFits,
                      IdentityFits, Pending, Active, Ended, Terminal
  <2> QED
    BY <1>3, <2>1, <2>2, UpdateRowInv DEF ReleaseGpuLease
<1>4. ASSUME NEW outcome \in {"succeeded", "failed"}, StateOf(i) \in Active,
             EndWith(i, OutcomeOf(StateOf(i), outcome))
      PROVE  RowInv'
  <2> DEFINE row == [item[i] EXCEPT !.state = OutcomeOf(item[i].state, outcome)]
  <2>1. OutcomeOf(item[i].state, outcome) \in Ended
    BY DEF OutcomeOf, Ended
  <2>2. row \in Row
    BY <1>0, <2>1 DEF Row, States, Terminal
  <2>3. RowFits(row)
    BY <1>0, <1>4, <2>1 DEF OutcomeOf, Row, States, Stages, RowFits, LeaseFits,
         StageFits, IdentityFits, Pending, Active, Ended, Terminal
  <2> QED
    BY <1>4, <2>2, <2>3, UpdateRowInv DEF EndWith
<1>5. ASSUME NEW g \in Gpus, NEW idKnown \in BOOLEAN,
             ResolveAbandonedLaunch(i, g, idKnown)
      PROVE  RowInv'
  <2> DEFINE row == [item[i] EXCEPT !.state = "failed"]
  <2>1. row \in Row
    BY <1>0 DEF Row, States, Ended, Terminal
  <2>2. RowFits(row)
    BY <1>0, <1>5 DEF ResolveAbandonedLaunch, Row, States, RowFits, LeaseFits,
         StageFits, IdentityFits, Pending, Active, Ended, Terminal
  <2>3. /\ item' \in [Items -> Row]
        /\ \A j \in Items : RowFits(item'[j])
    BY <1>5, <2>1, <2>2, PutRow, Zenon DEF ResolveAbandonedLaunch
  <2>4. TypeOK'
    BY <1>5, <2>3, StoreAssumption DEF ResolveAbandonedLaunch, RowInv, TypeOK,
         yieldVars
  <2> QED
    BY <2>3, <2>4 DEF RowInv, RowFits, LeaseFits, StageFits, IdentityFits
<1>6. ASSUME NEW force \in BOOLEAN, RequestTermination(i, force)
      PROVE  RowInv'
  <2> DEFINE row == [item[i] EXCEPT
                       !.state = IF force THEN "force_killing" ELSE "terminating",
                       !.stage = IF force THEN "kill" ELSE "interrupt"]
  <2>1. row \in Row
    BY <1>0, <1>6, Zenon
    DEF RequestTermination, Row, States, Stages, Trees, Pending, Active, Ended, Terminal
  <2>2. RowFits(row)
    BY <1>0, <1>6 DEF RequestTermination, Row, States, Stages, RowFits, LeaseFits, StageFits,
                      IdentityFits, Pending, Active, Ended, Terminal
  <2> QED
    BY <1>6, <2>1, <2>2, UpdateRowInv DEF RequestTermination
<1>7. ASSUME NEW stage \in Stages, EscalateTermination(i, stage)
      PROVE  RowInv'
  <2> DEFINE row == IF stage = "interrupt"
                    THEN [item[i] EXCEPT !.stage = "terminate"]
                    ELSE [item[i] EXCEPT !.stage = "kill",
                                         !.state = "force_killing"]
  <2>1. row \in Row
    BY <1>0, <1>7, Zenon
    DEF EscalateTermination, Row, States, Stages, Trees, Pending, Active, Ended, Terminal
  <2>2. RowFits(row)
    BY <1>0, <1>7 DEF EscalateTermination, Row, States, Stages, RowFits, LeaseFits, StageFits,
                      IdentityFits, Pending, Active, Ended, Terminal
  <2> QED
    BY <1>7, <2>1, <2>2, UpdateRowInv DEF EscalateTermination
<1>8. ASSUME NEW seg \in Segments, NEW ok \in BOOLEAN,
             RecordExecutorCompletion(i, seg, ok)
      PROVE  RowInv'
  BY <1>4, <1>8 DEF RecordExecutorCompletion
<1>9. CASE RecordTerminationCompletion(i)
  BY <1>4, <1>9 DEF RecordTerminationCompletion, Active
<1>10. CASE FailActiveItem(i)
  BY <1>4, <1>10 DEF FailActiveItem
<1> QED
  BY <1>1, <1>2, <1>3, <1>5, <1>6, <1>7, <1>8, <1>9, <1>10 DEF AttemptStep

\* Yield requests, receipts, requeues and isolations keep RowInv.
LEMMA YieldRows ==
    ASSUME RowInv, NEW i \in Items, YieldStep(i)
    PROVE  RowInv'
<1> USE DEF StateOf
<1>0. item[i] \in Row /\ RowFits(item[i])
  BY DEF RowInv, TypeOK
<1>1. ASSUME NEW seg \in Segments, RecordYieldRequest(i, seg)
      PROVE  RowInv'
  <2> DEFINE row == [item[i] EXCEPT !.state = "yielding", !.yieldId = TRUE]
  <2>1. row \in Row
    BY <1>0, Zenon DEF Row, States, Active
  <2>2. RowFits(row)
    BY <1>0, <1>1 DEF RecordYieldRequest, Row, States, RowFits, LeaseFits,
         StageFits, IdentityFits, Pending, Active, Ended
  <2>3. /\ item' \in [Items -> Row]
        /\ \A j \in Items : RowFits(item'[j])
    BY <1>1, <2>1, <2>2, PutRow, Zenon DEF RecordYieldRequest
  <2>4. <<i, seg>> \in Items \X (Nat \ {0})
    BY StoreAssumption DEF Segments
  <2>5. TypeOK'
    BY <1>1, <2>3, <2>4 DEF RecordYieldRequest, RowInv, TypeOK, projectVars
  <2> QED
    BY <2>3, <2>5 DEF RowInv, RowFits, LeaseFits, StageFits, IdentityFits
<1>2. ASSUME NEW seg \in Segments, NEW status \in {"ready", "failed"},
             RecordYieldReceipt(i, seg, status)
      PROVE  RowInv'
  <2>1. <<i, seg, status>> \in Items \X (Nat \ {0}) \X {"ready", "failed"}
    BY StoreAssumption DEF Segments
  <2>2. TypeOK'
    BY <1>2, <2>1 DEF RecordYieldReceipt, RowInv, TypeOK, projectVars
  <2> QED
    BY <1>2, <2>2 DEF RecordYieldReceipt, RowInv, RowFits, LeaseFits, StageFits,
         IdentityFits
<1>3. ASSUME NEW seg \in Segments, RequeueReadyContinuation(i, seg)
      PROVE  RowInv'
  <2> DEFINE row == [item[i] EXCEPT !.state = "queued", !.segment = seg + 1,
                                    !.front = TRUE, !.held = FALSE,
                                    !.released = TRUE, !.launched = FALSE,
                                    !.stage = "none", !.yieldId = FALSE]
  <2>0. seg + 1 \in Nat \ {0}
    BY StoreAssumption DEF Segments
  <2>1. row \in Row
    BY <1>0, <2>0, Zenon DEF Row, States, Pending, Stages
  <2>2. RowFits(row)
    BY <1>0, <1>3 DEF RequeueReadyContinuation, Row, States, RowFits, LeaseFits,
         StageFits, IdentityFits, Pending, Active, Ended
  <2> QED
    BY <1>3, <2>1, <2>2, UpdateRowInv DEF RequeueReadyContinuation
<1>4. ASSUME NEW terminal \in BOOLEAN, IsolateContinuationFailure(i, terminal)
      PROVE  RowInv'
  <2> DEFINE row == [item[i] EXCEPT
                       !.state = IF terminal THEN "failed" ELSE "yielding"]
  <2>1. row \in Row
    BY <1>0 DEF Row, States, Active, Ended, Terminal
  <2>2. RowFits(row)
    BY <1>0, <1>4 DEF IsolateContinuationFailure, Row, States, RowFits,
         LeaseFits, StageFits, IdentityFits, Pending, Active, Ended
  <2>3. /\ item' \in [Items -> Row]
        /\ \A j \in Items : RowFits(item'[j])
    BY <1>4, <2>1, <2>2, PutRow, Zenon DEF IsolateContinuationFailure
  <2>4. TypeOK'
    BY <1>4, <2>3, StoreAssumption DEF IsolateContinuationFailure, RowInv,
         TypeOK, yieldVars
  <2> QED
    BY <2>3, <2>4 DEF RowInv, RowFits, LeaseFits, StageFits, IdentityFits
<1> QED
  BY <1>1, <1>2, <1>3, <1>4 DEF YieldStep

\* Worktree records keep RowInv.
LEMMA WorktreeRows ==
    ASSUME RowInv, NEW i \in Items, WorktreeStep(i)
    PROVE  RowInv'
<1>0. item[i] \in Row /\ RowFits(item[i])
  BY DEF RowInv, TypeOK
<1>1. ASSUME NEW tree \in Trees
      PROVE  /\ [item[i] EXCEPT !.tree = tree] \in Row
             /\ RowFits([item[i] EXCEPT !.tree = tree])
  BY <1>0 DEF Row, RowFits, LeaseFits, StageFits, IdentityFits
<1>2. CASE RecordWorktreePrepared(i)
  BY <1>1, <1>2, UpdateRowInv DEF RecordWorktreePrepared, Trees
<1>3. ASSUME NEW ok \in BOOLEAN, RecordWorktreeCleanup(i, ok)
      PROVE  RowInv'
  BY <1>1, <1>3, UpdateRowInv DEF RecordWorktreeCleanup, Trees
<1> QED
  BY <1>2, <1>3 DEF WorktreeStep

\* Steps that leave every row alone keep RowInv when they keep the types.
LEMMA SameRows ==
    ASSUME RowInv, UNCHANGED item, TypeOK'
    PROVE  RowInv'
BY DEF RowInv, RowFits, LeaseFits, StageFits, IdentityFits

\* Host, Project and dependency steps keep RowInv.
LEMMA HostRows ==
    ASSUME RowInv, HostStep
    PROVE  RowInv'
<1> USE DEF StateOf
<1>1. CASE ReconcileFailedDependencies
  <2>1. \A j \in Items : item'[j] \in Row /\ RowFits(item'[j])
    <3> SUFFICES ASSUME NEW j \in Items
                 PROVE  item'[j] \in Row /\ RowFits(item'[j])
      OBVIOUS
    <3>1. item[j] \in Row /\ RowFits(item[j])
      BY DEF RowInv, TypeOK
    <3>2. \/ item'[j] = item[j]
          \/ /\ item[j].state = "queued"
             /\ item'[j] = [item[j] EXCEPT !.state = "blocked"]
      BY <1>1 DEF ReconcileFailedDependencies
    <3>3. [item[j] EXCEPT !.state = "blocked"] \in Row
      BY <3>1 DEF Row, States, Pending
    <3>4. item[j].state = "queued" => RowFits([item[j] EXCEPT !.state = "blocked"])
      BY <3>1 DEF Row, States, RowFits, LeaseFits, StageFits, IdentityFits,
           Pending, Active, Ended
    <3> QED
      BY <3>1, <3>2, <3>3, <3>4
  <2>2. item' \in [Items -> Row]
    BY <1>1, <2>1 DEF ReconcileFailedDependencies
  <2>3. TypeOK'
    BY <1>1, <2>2 DEF ReconcileFailedDependencies, RowInv, TypeOK, yieldVars,
         projectVars
  <2> QED
    BY <2>1, <2>3 DEF RowInv, RowFits, LeaseFits, StageFits, IdentityFits
<1>2. CASE PauseHost \/ ResumeHost
  BY <1>2, SameRows, Zenon DEF PauseHost, ResumeHost, RowInv, TypeOK, yieldVars,
       projectVars
<1>3. ASSUME NEW p \in Projects, QuarantineProject(p) \/ CloseProjectCircuit(p)
      PROVE  RowInv'
  BY <1>3, SameRows DEF QuarantineProject, CloseProjectCircuit, RowInv, TypeOK,
       yieldVars
<1>4. ASSUME NEW p \in Projects, NEW target \in Lifecycles,
             TransitionProject(p, target)
      PROVE  RowInv'
  BY <1>4, SameRows DEF TransitionProject, RowInv, TypeOK, yieldVars
<1> QED
  BY <1>1, <1>2, <1>3, <1>4 DEF HostStep

\* Allowlist and reservation steps keep RowInv.
LEMMA GpuRows ==
    ASSUME RowInv, GpuStep
    PROVE  RowInv'
<1>1. ASSUME NEW g \in Gpus, AddGpu(g)
      PROVE  RowInv'
  BY <1>1, SameRows DEF AddGpu, RowInv, TypeOK, Allowance, yieldVars, projectVars
<1>2. ASSUME NEW g \in Gpus, NEW flag \in BOOLEAN,
             EnableGpu(g, flag) \/ DrainGpu(g, flag)
      PROVE  RowInv'
  BY <1>2, SameRows DEF EnableGpu, DrainGpu, RowInv, TypeOK, Allowance,
       yieldVars, projectVars
<1>3. ASSUME NEW g \in Gpus, RequestReservation(g) \/ ReleaseReservation(g)
      PROVE  RowInv'
  BY <1>3, SameRows DEF RequestReservation, ReleaseReservation, RowInv, TypeOK,
       yieldVars, projectVars
<1>4. ASSUME NEW due \in SUBSET Gpus, ReconcileReservations(due)
      PROVE  RowInv'
  <2>1. \A g \in Gpus : Reconciled(g) \in {"none", "pending", "active"}
    BY DEF Reconciled, RowInv, TypeOK
  <2> QED
    BY <1>4, <2>1, SameRows DEF ReconcileReservations, RowInv, TypeOK, yieldVars,
         projectVars
<1> QED
  BY <1>1, <1>2, <1>3, <1>4 DEF GpuStep

\* Every step of the store keeps RowInv.
LEMMA StepKeepsRows == RowInv /\ [Next]_storeVars => RowInv'
<1> SUFFICES ASSUME RowInv, [Next]_storeVars
             PROVE  RowInv'
  OBVIOUS
<1>1. CASE UNCHANGED storeVars
  BY <1>1, SameRows DEF storeVars, RowInv, TypeOK
<1> QED
  BY <1>1, OperatorRows, AttemptRows, YieldRows, WorktreeRows, HostRows, GpuRows
     DEF Next

\* The initial database satisfies RowInv.
LEMMA InitRows == Init => RowInv
<1> SUFFICES ASSUME Init
             PROVE  RowInv
  OBVIOUS
<1>1. \A prio \in Priorities : NewRow(prio) \in Row /\ RowFits(NewRow(prio))
  BY StoreAssumption DEF NewRow, Row, States, Stages, Trees, RowFits, LeaseFits,
       StageFits, IdentityFits, Pending, Active, Ended
<1>2. item \in [Items -> Row] /\ \A i \in Items : RowFits(item[i])
  BY <1>1 DEF Init
<1>3. TypeOK
  BY <1>2, Zenon DEF Init, TypeOK, Lifecycles, Allowance
<1> QED
  BY <1>2, <1>3 DEF RowInv

\* RowInv always holds: typed rows, leases as the schema's CHECKs demand, and
\* signal stage and process identity that agree with the state.
THEOREM RowCorrectness == Spec => []RowInv
BY InitRows, StepKeepsRows, PTL DEF Spec

-------------------------------------------------------------------------------
(***************************************************************************)
(* GPU ownership: no GPU is ever leased twice, a reserved GPU carries no   *)
(* lease, and the store implements GpuOwnership.  The proofs rest on one   *)
(* fact about the transactions: each of them takes one lease (a claim),    *)
(* drops one lease, or leaves all leases as they are.                      *)
(***************************************************************************)

DropLease(i) ==
    /\ item[i].held
    /\ ~item'[i].held
    /\ item'[i].gpu = item[i].gpu
    /\ \A j \in Items \ {i} : SameLease(j)
    /\ UNCHANGED reservation

-------------------------------------------------------------------------------
\* Writing a row with the lease and the GPU it had keeps all leases.
LEMMA PutSameLease ==
    ASSUME RowInv, NEW i \in Items, NEW row, item' = [item EXCEPT ![i] = row],
           row.held = item[i].held, row.gpu = item[i].gpu
    PROVE  KeepLeases
<1>1. item \in [Items -> Row]
  BY DEF RowInv, TypeOK
<1>2. \A j \in Items : item'[j] = IF j = i THEN row ELSE item[j]
  BY <1>1
<1> QED
  BY <1>2 DEF KeepLeases, SameLease

\* Operator commands on an item keep all leases.
LEMMA OperatorLeases ==
    ASSUME RowInv, NEW i \in Items, OperatorStep(i)
    PROVE  KeepLeases /\ UNCHANGED reservation
<1>0. item \in [Items -> Row]
  BY DEF RowInv, TypeOK
<1>1. ASSUME NEW prio \in Priorities, NEW hold \in BOOLEAN, Admit(i, prio, hold)
      PROVE  KeepLeases /\ UNCHANGED reservation
  BY <1>0, <1>1, PutSameLease, Zenon DEF Admit, UpdateRow, Row
<1>2. ASSUME NEW from, NEW target, MoveItem(i, from, target)
      PROVE  KeepLeases /\ UNCHANGED reservation
  BY <1>0, <1>2, PutSameLease, Zenon DEF MoveItem, UpdateRow, Row
<1>3. ASSUME NEW prio \in Priorities, SetItemPriority(i, prio)
      PROVE  KeepLeases /\ UNCHANGED reservation
  BY <1>0, <1>3, PutSameLease, Zenon DEF SetItemPriority, UpdateRow, Row
<1>4. CASE RemoveItem(i)
  BY <1>0, <1>4 DEF RemoveItem, Row, KeepLeases, SameLease
<1> QED
  BY <1>1, <1>2, <1>3, <1>4 DEF OperatorStep, HoldItem, ReleaseItem

\* An attempt step claims a GPU, drops a lease, or keeps all leases.
LEMMA AttemptLeases ==
    ASSUME RowInv, NEW i \in Items, AttemptStep(i)
    PROVE  \/ \E g \in Gpus : Claim(i, g)
           \/ DropLease(i)
           \/ KeepLeases /\ UNCHANGED reservation
<1>0. item \in [Items -> Row]
  BY DEF RowInv, TypeOK
<1>1. ASSUME NEW g \in Gpus, NEW seg \in Segments, RecordLaunched(i, seg, g)
      PROVE  KeepLeases /\ UNCHANGED reservation
  BY <1>0, <1>1, PutSameLease, Zenon DEF RecordLaunched, UpdateRow, Row
<1>2. ASSUME NEW g \in Gpus, ReleaseGpuLease(i, g)
      PROVE  DropLease(i)
  BY <1>0, <1>2 DEF ReleaseGpuLease, UpdateRow, Row, DropLease, SameLease
<1>3. ASSUME NEW g \in Gpus, NEW idKnown \in BOOLEAN,
             ResolveAbandonedLaunch(i, g, idKnown)
      PROVE  KeepLeases /\ UNCHANGED reservation
  BY <1>0, <1>3, PutSameLease, Zenon DEF ResolveAbandonedLaunch, Row
<1>4. ASSUME NEW state, EndWith(i, state)
      PROVE  KeepLeases /\ UNCHANGED reservation
  BY <1>0, <1>4, PutSameLease, Zenon DEF EndWith, UpdateRow, Row
<1>5. ASSUME NEW force \in BOOLEAN, RequestTermination(i, force)
      PROVE  KeepLeases /\ UNCHANGED reservation
  BY <1>0, <1>5, PutSameLease, Zenon DEF RequestTermination, UpdateRow, Row
<1>6. ASSUME NEW stage \in Stages, EscalateTermination(i, stage)
      PROVE  KeepLeases /\ UNCHANGED reservation
  <2>1. CASE stage = "interrupt"
    BY <1>0, <1>6, <2>1, PutSameLease, Zenon DEF EscalateTermination, UpdateRow, Row
  <2>2. CASE stage # "interrupt"
    BY <1>0, <1>6, <2>2, PutSameLease, Zenon DEF EscalateTermination, UpdateRow, Row
  <2> QED
    BY <2>1, <2>2
<1> QED
  BY <1>1, <1>2, <1>3, <1>4, <1>5, <1>6
     DEF AttemptStep, RecordExecutorCompletion, RecordTerminationCompletion,
         FailActiveItem

\* A yield step keeps all leases, or requeues its item and drops its lease.
LEMMA YieldLeases ==
    ASSUME RowInv, NEW i \in Items, YieldStep(i)
    PROVE  DropLease(i) \/ (KeepLeases /\ UNCHANGED reservation)
<1>0. item \in [Items -> Row]
  BY DEF RowInv, TypeOK
<1>1. ASSUME NEW seg \in Segments, RecordYieldRequest(i, seg)
      PROVE  KeepLeases /\ UNCHANGED reservation
  BY <1>0, <1>1, PutSameLease, Zenon DEF RecordYieldRequest, Row
<1>2. ASSUME NEW seg \in Segments, NEW status \in {"ready", "failed"},
             RecordYieldReceipt(i, seg, status)
      PROVE  KeepLeases /\ UNCHANGED reservation
  BY <1>2 DEF RecordYieldReceipt, KeepLeases, SameLease
<1>3. ASSUME NEW seg \in Segments, RequeueReadyContinuation(i, seg)
      PROVE  DropLease(i)
  <2> DEFINE row == [item[i] EXCEPT !.state = "queued", !.segment = seg + 1,
                                    !.front = TRUE, !.held = FALSE,
                                    !.released = TRUE, !.launched = FALSE,
                                    !.stage = "none", !.yieldId = FALSE]
  <2>1. ~row.held /\ row.gpu = item[i].gpu
    BY <1>0 DEF Row
  <2>2. item' = [item EXCEPT ![i] = row] /\ item[i].held /\ UNCHANGED reservation
    BY <1>3 DEF RequeueReadyContinuation, UpdateRow
  <2> HIDE DEF row
  <2> QED
    BY <1>0, <2>1, <2>2 DEF DropLease, SameLease
<1>4. ASSUME NEW terminal \in BOOLEAN, IsolateContinuationFailure(i, terminal)
      PROVE  KeepLeases /\ UNCHANGED reservation
  BY <1>0, <1>4, PutSameLease, Zenon DEF IsolateContinuationFailure, Row
<1> QED
  BY <1>1, <1>2, <1>3, <1>4 DEF YieldStep

\* Every step claims one GPU, drops one lease, or keeps all leases.
LEMMA LeaseStep ==
    ASSUME RowInv, [Next]_storeVars
    PROVE  \/ \E i \in Items, g \in Gpus : Claim(i, g)
           \/ \E i \in Items : DropLease(i)
           \/ KeepLeases /\ UNCHANGED reservation
           \/ GpuStep
<1>0. item \in [Items -> Row]
  BY DEF RowInv, TypeOK
<1>1. ASSUME NEW i \in Items, WorktreeStep(i)
      PROVE  KeepLeases /\ UNCHANGED reservation
  BY <1>0, <1>1, PutSameLease
     DEF WorktreeStep, RecordWorktreePrepared, RecordWorktreeCleanup, UpdateRow,
         Row
<1>2. ASSUME HostStep
      PROVE  KeepLeases /\ UNCHANGED reservation
  <2>1. CASE ReconcileFailedDependencies
    BY <1>0, <2>1 DEF ReconcileFailedDependencies, Row, KeepLeases, SameLease
  <2>2. CASE ~ReconcileFailedDependencies
    BY <1>2, <2>2 DEF HostStep, PauseHost, ResumeHost, QuarantineProject,
         CloseProjectCircuit, TransitionProject, KeepLeases, SameLease
  <2> QED
    BY <2>1, <2>2
<1>3. CASE UNCHANGED storeVars
  BY <1>3 DEF storeVars, KeepLeases, SameLease
<1> QED
  BY <1>1, <1>2, <1>3, OperatorLeases, AttemptLeases, YieldLeases DEF Next

-------------------------------------------------------------------------------
(* The lease invariants                                                    *)

\* What a claim does to the leases.
LEMMA ClaimLeases ==
    ASSUME RowInv, NEW i \in Items, NEW g \in Gpus, Claim(i, g)
    PROVE  /\ HeldOn(g) = {}
           /\ ~item[i].held
           /\ item'[i].held
           /\ item'[i].gpu = g
           /\ \A j \in Items \ {i} : SameLease(j)
           /\ reservation[g] = "none"
           /\ UNCHANGED reservation
<1> DEFINE row == [item[i] EXCEPT !.state = "starting", !.gpu = g,
                                  !.held = TRUE, !.released = FALSE,
                                  !.front = FALSE, !.launched = FALSE]
<1>0. item \in [Items -> Row] /\ RowFits(item[i])
  BY DEF RowInv, TypeOK
<1>1. row.held /\ row.gpu = g
  BY <1>0 DEF Row
<1>2. item' = [item EXCEPT ![i] = row] /\ UNCHANGED reservation
  BY DEF Claim, UpdateRow
<1>3. ~item[i].held
  BY <1>0 DEF Claim, Claimable, IsCandidate, StateOf, RowFits, LeaseFits,
       Active, Ended
<1>4. HeldOn(g) = {} /\ reservation[g] = "none"
  BY DEF Claim, Claimable
<1> HIDE DEF row
<1> QED
  BY <1>0, <1>1, <1>2, <1>3, <1>4 DEF SameLease

\* Every step keeps LeaseInv.
LEMMA StepKeepsLeases == LeaseInv /\ [Next]_storeVars => LeaseInv'
<1> SUFFICES ASSUME LeaseInv, [Next]_storeVars
             PROVE  OneLeasePerGpu' /\ ReservedGpuIsFree'
  BY StepKeepsRows DEF LeaseInv
<1>0. RowInv /\ OneLeasePerGpu /\ ReservedGpuIsFree
  BY DEF LeaseInv
<1>1. ASSUME NEW i \in Items, NEW g \in Gpus, Claim(i, g)
      PROVE  OneLeasePerGpu' /\ ReservedGpuIsFree'
  BY <1>0, <1>1, ClaimLeases DEF OneLeasePerGpu, ReservedGpuIsFree, HeldOn,
       SameLease
<1>2. ASSUME NEW i \in Items, DropLease(i)
      PROVE  OneLeasePerGpu' /\ ReservedGpuIsFree'
  BY <1>0, <1>2 DEF DropLease, OneLeasePerGpu, ReservedGpuIsFree, HeldOn,
       SameLease
<1>3. CASE KeepLeases /\ UNCHANGED reservation
  BY <1>0, <1>3 DEF KeepLeases, OneLeasePerGpu, ReservedGpuIsFree, HeldOn,
       SameLease
<1>4. CASE GpuStep
  <2>1. UNCHANGED item
    BY <1>4 DEF GpuStep, AddGpu, EnableGpu, DrainGpu, RequestReservation,
         ReleaseReservation, ReconcileReservations
  <2>2. OneLeasePerGpu'
    BY <1>0, <2>1 DEF OneLeasePerGpu
  <2>3. \A g \in Gpus : reservation'[g] = "active" =>
                         reservation[g] = "active" \/ HeldOn(g) = {}
    BY <1>0, <1>4 DEF GpuStep, AddGpu, EnableGpu, DrainGpu, RequestReservation,
         ReleaseReservation, ReconcileReservations, Reconciled, RowInv, TypeOK
  <2>4. ReservedGpuIsFree'
    BY <1>0, <2>1, <2>3 DEF ReservedGpuIsFree, HeldOn
  <2> QED
    BY <2>2, <2>4
<1> QED
  BY <1>0, <1>1, <1>2, <1>3, <1>4, LeaseStep

\* The initial database has no leases.
LEMMA InitLeases == Init => LeaseInv
<1> SUFFICES ASSUME Init
             PROVE  OneLeasePerGpu /\ ReservedGpuIsFree
  BY InitRows DEF LeaseInv
<1>1. \A i \in Items : ~item[i].held
  BY DEF Init, NewRow
<1> QED
  BY <1>1 DEF Init, OneLeasePerGpu, ReservedGpuIsFree

\* No GPU carries two runtime leases (OneLeasePerGpu) and a GPU with an active
\* reservation carries none (ReservedGpuIsFree), whatever order claims,
\* outcomes, releases, requeues and reservation passes commit in.
THEOREM LeaseSafety == Spec => []GpuIsExclusive
<1>1. LeaseInv => GpuIsExclusive
  BY DEF LeaseInv, GpuIsExclusive
<1> QED
  BY <1>1, InitLeases, StepKeepsLeases, PTL DEF Spec

-------------------------------------------------------------------------------
(* Refinement                                                              *)

\* A step that touches only reservations is a Reserve step of GpuOwnership.
LEMMA GpuStepReserves ==
    ASSUME LeaseInv, GpuStep
    PROVE  Ownership!Reserve
<1>0. RowInv /\ ReservedGpuIsFree
  BY DEF LeaseInv
<1>1. UNCHANGED item
  BY DEF GpuStep, AddGpu, EnableGpu, DrainGpu, RequestReservation,
       ReleaseReservation, ReconcileReservations
<1>2. \A g \in Gpus : HeldOn(g)' = HeldOn(g)
  BY <1>1 DEF HeldOn
<1>3. \A g \in Gpus : reservation'[g] = "active" =>
                       reservation[g] = "active" \/ HeldOn(g) = {}
  BY <1>0 DEF GpuStep, AddGpu, EnableGpu, DrainGpu, RequestReservation,
       ReleaseReservation, ReconcileReservations, Reconciled, RowInv, TypeOK
<1>4. \A g \in Gpus : reservation'[g] = "pending" =>
                       reservation[g] = "pending" \/ HeldOn(g) # {}
  BY <1>0 DEF GpuStep, AddGpu, EnableGpu, DrainGpu, RequestReservation,
       ReleaseReservation, ReconcileReservations, Reconciled, RowInv, TypeOK
<1>5. [g \in Gpus |-> HeldOn(g)]' = [g \in Gpus |-> HeldOn(g)]
  BY <1>2
<1> QED
  BY <1>3, <1>4, <1>5 DEF Ownership!Reserve

\* The store implements GpuOwnership: every transaction is a step of the
\* abstract ownership protocol or stutters (ImplementsOwnership).
THEOREM Refinement == Spec => ImplementsOwnership
<1>1. Init => Ownership!Init
  <2> SUFFICES ASSUME Init
               PROVE  Ownership!Init
    OBVIOUS
  <2>1. \A i \in Items : ~item[i].held
    BY DEF Init, NewRow
  <2> QED
    BY <2>1 DEF Init, Ownership!Init, HeldOn
<1>2. LeaseInv /\ [Next]_storeVars => [Ownership!Next]_(Ownership!vars)
  <2> SUFFICES ASSUME LeaseInv, [Next]_storeVars
               PROVE  [Ownership!Next]_(Ownership!vars)
    OBVIOUS
  <2>0. RowInv /\ OneLeasePerGpu
    BY DEF LeaseInv
  <2>1. ASSUME NEW i \in Items, NEW g \in Gpus, Claim(i, g)
        PROVE  Ownership!Acquire(i, g)
    <3>1. \A h \in Gpus : HeldOn(h)' = IF h = g THEN {i} ELSE HeldOn(h)
      BY <2>0, <2>1, ClaimLeases DEF HeldOn, SameLease
    <3>2. \A h \in Gpus : i \notin HeldOn(h)
      BY <2>0, <2>1, ClaimLeases DEF HeldOn
    <3>3. [h \in Gpus |-> HeldOn(h)]'
            = [[h \in Gpus |-> HeldOn(h)] EXCEPT ![g] = {i}]
      BY <3>1, Zenon
    <3>4. HeldOn(g) = {} /\ reservation[g] = "none" /\ UNCHANGED reservation
      BY <2>0, <2>1, ClaimLeases
    <3> QED
      BY <3>2, <3>3, <3>4 DEF Ownership!Acquire
  <2>2. ASSUME NEW i \in Items, DropLease(i)
        PROVE  Ownership!Release(i, item[i].gpu) /\ item[i].gpu \in Gpus
    <3>1. item[i].gpu \in Gpus
      BY <2>0, <2>2 DEF DropLease, RowInv, RowFits, LeaseFits
    <3>2. HeldOn(item[i].gpu) = {i}
      BY <2>0, <2>2 DEF DropLease, OneLeasePerGpu, HeldOn
    <3>3. \A h \in Gpus : HeldOn(h)' = IF h = item[i].gpu THEN {} ELSE HeldOn(h)
      BY <2>0, <2>2, <3>2 DEF DropLease, HeldOn, SameLease
    <3> QED
      BY <2>2, <3>1, <3>2, <3>3, Zenon DEF DropLease, Ownership!Release
  <2>3. CASE KeepLeases /\ UNCHANGED reservation
    <3>1. \A g \in Gpus : HeldOn(g)' = HeldOn(g)
      BY <2>3 DEF KeepLeases, SameLease, HeldOn
    <3> QED
      BY <2>3, <3>1 DEF Ownership!vars
  <2>4. CASE GpuStep
    BY <2>4, GpuStepReserves DEF Ownership!Next
  <2> QED
    BY <2>0, <2>1, <2>2, <2>3, <2>4, LeaseStep DEF Ownership!Next
<1> QED
  BY <1>1, <1>2, InitLeases, StepKeepsLeases, PTL
     DEF Spec, ImplementsOwnership, Ownership!Spec

-------------------------------------------------------------------------------
(***************************************************************************)
(* The life of an item: how one transaction may change a row, and what     *)
(* follows for outcomes, leases, segments, dependencies and archival.      *)
(***************************************************************************)

-------------------------------------------------------------------------------
(* The ways a row may change                                               *)

\* Lease, GPU and segment stay.
Keeps(i, row) == /\ row.held = item[i].held
                 /\ row.gpu = item[i].gpu
                 /\ row.segment = item[i].segment

\* Neither the state nor what Keeps names changes.
Same(i, row) == row.state = item[i].state /\ Keeps(i, row)

\* Admission and operator commands; an archived Project admits nothing.
Edited(i, row) ==
    /\ item[i].state \in Pending \cup {"absent"}
    /\ item[i].state = "absent" => lifecycle[projectOf[i]] # "archived"
    /\ row.state \in Pending \cup {"removed"}
    /\ Keeps(i, row)

\* Only a candidate is given a GPU.
Claimed(i, row) ==
    /\ IsCandidate(i)
    /\ row.state = "starting"
    /\ row.held
    /\ row.segment = item[i].segment

\* The states an attempt may go to from each active state.
After(state) ==
    CASE state = "starting" -> {"running", "succeeded", "failed"}
      [] state = "running" -> {"yielding", "terminating", "force_killing",
                               "succeeded", "failed"}
      [] state = "yielding" -> {"terminating", "force_killing", "failed"}
      [] state = "terminating" -> {"force_killing", "interrupted", "failed"}
      [] state = "force_killing" -> {"force_killed", "failed"}
      [] OTHER -> {}

Advanced(i, row) == row.state \in After(item[i].state) /\ Keeps(i, row)

\* An ended attempt gives its lease back.
Freed(i, row) ==
    /\ item[i].state \in Ended
    /\ row.state = item[i].state
    /\ row.gpu = item[i].gpu
    /\ row.segment = item[i].segment

\* A validated continuation goes back to the queue.
Continued(i, row) ==
    /\ item[i].state = "yielding"
    /\ row.state = "queued"
    /\ row.gpu = item[i].gpu
    /\ row.segment = item[i].segment + 1
    /\ <<i, item[i].segment>> \in requests
    /\ <<i, item[i].segment, "ready">> \in receipts

Changes(i, row) ==
    \/ Same(i, row)
    \/ Edited(i, row)
    \/ Claimed(i, row)
    \/ Advanced(i, row)
    \/ Freed(i, row)
    \/ Continued(i, row)

\* A row written over row i changes row i and leaves every other row the same.
LEMMA OneRowChanges ==
    ASSUME RowInv, NEW i \in Items, NEW row, Changes(i, row),
           item' = [item EXCEPT ![i] = row]
    PROVE  \A j \in Items : Changes(j, item'[j])
<1>1. item \in [Items -> Row]
  BY DEF RowInv, TypeOK
<1>2. \A j \in Items : item'[j] = IF j = i THEN row ELSE item[j]
  BY <1>1
<1>3. \A j \in Items : Changes(j, item[j])
  BY DEF Changes, Same, Keeps
<1> QED
  BY <1>2, <1>3

\* Untouched rows.
LEMMA NoRowChanges ==
    ASSUME UNCHANGED item
    PROVE  \A j \in Items : Changes(j, item'[j])
BY DEF Changes, Same, Keeps

\* Admission, hold, release, removal and priority change a row as Changes says.
LEMMA OperatorChanges ==
    ASSUME RowInv, NEW i \in Items, OperatorStep(i)
    PROVE  \A j \in Items : Changes(j, item'[j])
<1> USE DEF StateOf
<1>0. item \in [Items -> Row] /\ item[i] \in Row
  BY DEF RowInv, TypeOK
<1>1. ASSUME NEW prio \in Priorities, NEW hold \in BOOLEAN, Admit(i, prio, hold)
      PROVE  \A j \in Items : Changes(j, item'[j])
  <2> DEFINE row == [item[i] EXCEPT !.state = IF hold THEN "held" ELSE "queued",
                                    !.priority = prio]
  <2>1. Edited(i, row)
    BY <1>0, <1>1 DEF Admit, Edited, Keeps, Pending, Row
  <2> QED
    BY <1>1, <2>1, OneRowChanges, Zenon DEF Admit, UpdateRow, Changes
<1>2. ASSUME NEW from \in SUBSET Pending, NEW target \in Pending,
             MoveItem(i, from, target)
      PROVE  \A j \in Items : Changes(j, item'[j])
  <2> DEFINE row == [item[i] EXCEPT !.state = target]
  <2>1. Edited(i, row)
    BY <1>0, <1>2 DEF MoveItem, Edited, Keeps, Pending, Row
  <2> QED
    BY <1>2, <2>1, OneRowChanges, Zenon DEF MoveItem, UpdateRow, Changes
<1>3. ASSUME NEW prio \in Priorities, SetItemPriority(i, prio)
      PROVE  \A j \in Items : Changes(j, item'[j])
  <2> DEFINE row == [item[i] EXCEPT !.priority = prio]
  <2>1. Same(i, row)
    BY <1>0 DEF Same, Keeps, Row
  <2> QED
    BY <1>3, <2>1, OneRowChanges, Zenon DEF SetItemPriority, UpdateRow, Changes
<1>4. CASE RemoveItem(i)
  <2> SUFFICES ASSUME NEW j \in Items
               PROVE  Changes(j, item'[j])
    OBVIOUS
  <2>1. item[j] \in Row
    BY <1>0
  <2>2. \/ item'[j] = item[j]
        \/ /\ item[j].state \in Pending
           /\ \E s \in {"removed", "held"} :
                 item'[j] = [item[j] EXCEPT !.state = s]
    BY <1>0, <1>4 DEF RemoveItem, Pending
  <2>3. ASSUME NEW s \in {"removed", "held"}, item[j].state \in Pending
        PROVE  Edited(j, [item[j] EXCEPT !.state = s])
    BY <2>1, <2>3 DEF Edited, Keeps, Pending, Row
  <2>4. Same(j, item[j])
    BY DEF Same, Keeps
  <2> QED
    BY <2>2, <2>3, <2>4 DEF Changes
<1>5. {"queued", "blocked"} \in SUBSET Pending /\ {"held", "blocked"} \in SUBSET Pending
  BY DEF Pending
<1> QED
  BY <1>1, <1>2, <1>3, <1>4, <1>5 DEF OperatorStep, HoldItem, ReleaseItem, Pending

\* Claims, launches, outcomes, lease releases and terminations do, too.
LEMMA AttemptChanges ==
    ASSUME RowInv, NEW i \in Items, AttemptStep(i)
    PROVE  \A j \in Items : Changes(j, item'[j])
<1> USE DEF StateOf
<1>0. item[i] \in Row /\ LeaseFits(item[i])
  BY DEF RowInv, TypeOK, RowFits
<1>1. ASSUME NEW g \in Gpus, Claim(i, g)
      PROVE  \A j \in Items : Changes(j, item'[j])
  <2> DEFINE row == [item[i] EXCEPT !.state = "starting", !.gpu = g,
                                    !.held = TRUE, !.released = FALSE,
                                    !.front = FALSE, !.launched = FALSE]
  <2>1. Claimed(i, row)
    BY <1>0, <1>1 DEF Claim, Claimable, Claimed, Row
  <2> QED
    BY <1>1, <2>1, OneRowChanges, Zenon DEF Claim, UpdateRow, Changes
<1>2. ASSUME NEW g \in Gpus, NEW seg \in Segments, RecordLaunched(i, seg, g)
      PROVE  \A j \in Items : Changes(j, item'[j])
  <2> DEFINE row == [item[i] EXCEPT
                       !.state = IF @ = "starting" THEN "running" ELSE @,
                       !.launched = TRUE]
  <2>1. Advanced(i, row) \/ Same(i, row)
    BY <1>0 DEF Advanced, Same, Keeps, After, Row
  <2> QED
    BY <1>2, <2>1, OneRowChanges, Zenon DEF RecordLaunched, UpdateRow, Changes
<1>3. ASSUME NEW g \in Gpus, ReleaseGpuLease(i, g)
      PROVE  \A j \in Items : Changes(j, item'[j])
  <2> DEFINE row == [item[i] EXCEPT !.held = FALSE, !.released = TRUE]
  <2>1. Freed(i, row)
    BY <1>0, <1>3 DEF ReleaseGpuLease, LeaseFits, Freed, Row
  <2> QED
    BY <1>3, <2>1, OneRowChanges, Zenon DEF ReleaseGpuLease, UpdateRow, Changes
<1>4. ASSUME NEW state \in After(item[i].state),
             item' = [item EXCEPT ![i] = [item[i] EXCEPT !.state = state]]
      PROVE  \A j \in Items : Changes(j, item'[j])
  <2>1. Advanced(i, [item[i] EXCEPT !.state = state])
    BY <1>0, <1>4 DEF Advanced, Keeps, Row
  <2> QED
    BY <1>4, <2>1, OneRowChanges, Zenon DEF Changes
<1>5. ASSUME NEW g \in Gpus, NEW idKnown \in BOOLEAN,
             ResolveAbandonedLaunch(i, g, idKnown)
      PROVE  \A j \in Items : Changes(j, item'[j])
  <2>1. "failed" \in After(item[i].state)
    BY <1>5 DEF ResolveAbandonedLaunch, After, Active
  <2> QED
    BY <1>4, <1>5, <2>1, Zenon DEF ResolveAbandonedLaunch
<1>6. ASSUME NEW seg \in Segments, NEW ok \in BOOLEAN,
             RecordExecutorCompletion(i, seg, ok)
      PROVE  \A j \in Items : Changes(j, item'[j])
  <2>1. OutcomeOf(item[i].state, IF ok THEN "succeeded" ELSE "failed")
          \in After(item[i].state)
    BY <1>6 DEF RecordExecutorCompletion, OutcomeOf, After, Active
  <2> QED
    BY <1>4, <1>6, <2>1, Zenon DEF RecordExecutorCompletion, EndWith, UpdateRow
<1>7. CASE RecordTerminationCompletion(i) \/ FailActiveItem(i)
  <2>1. OutcomeOf(item[i].state, "failed") \in After(item[i].state)
    BY <1>7 DEF RecordTerminationCompletion, FailActiveItem, OutcomeOf, After,
                Active
  <2> QED
    BY <1>4, <1>7, <2>1 DEF RecordTerminationCompletion, FailActiveItem, EndWith,
         UpdateRow
<1>8. ASSUME NEW force \in BOOLEAN, RequestTermination(i, force)
      PROVE  \A j \in Items : Changes(j, item'[j])
  <2> DEFINE row == [item[i] EXCEPT
                       !.state = IF force THEN "force_killing" ELSE "terminating",
                       !.stage = IF force THEN "kill" ELSE "interrupt"]
  <2>1. Advanced(i, row)
    BY <1>0, <1>8 DEF RequestTermination, Advanced, Keeps, After, Row
  <2> QED
    BY <1>8, <2>1, OneRowChanges, Zenon DEF RequestTermination, UpdateRow, Changes
<1>9. ASSUME NEW stage \in Stages, EscalateTermination(i, stage)
      PROVE  \A j \in Items : Changes(j, item'[j])
  <2> DEFINE row == IF stage = "interrupt"
                    THEN [item[i] EXCEPT !.stage = "terminate"]
                    ELSE [item[i] EXCEPT !.stage = "kill",
                                         !.state = "force_killing"]
  <2>1. Advanced(i, row) \/ Same(i, row)
    BY <1>0, <1>9 DEF EscalateTermination, Advanced, Same, Keeps, After, Row
  <2> QED
    BY <1>9, <2>1, OneRowChanges, Zenon DEF EscalateTermination, UpdateRow, Changes
<1> QED
  BY <1>1, <1>2, <1>3, <1>5, <1>6, <1>7, <1>8, <1>9 DEF AttemptStep

\* And so do the transactions of a continuation and of a worktree.
LEMMA YieldChanges ==
    ASSUME RowInv, NEW i \in Items, YieldStep(i) \/ WorktreeStep(i)
    PROVE  \A j \in Items : Changes(j, item'[j])
<1> USE DEF StateOf
<1>0. item[i] \in Row
  BY DEF RowInv, TypeOK
<1>1. ASSUME NEW seg \in Segments, RecordYieldRequest(i, seg)
      PROVE  \A j \in Items : Changes(j, item'[j])
  <2> DEFINE row == [item[i] EXCEPT !.state = "yielding", !.yieldId = TRUE]
  <2>1. Advanced(i, row)
    BY <1>0, <1>1 DEF RecordYieldRequest, Advanced, Keeps, After, Row
  <2> QED
    BY <1>1, <2>1, OneRowChanges, Zenon DEF RecordYieldRequest, Changes
<1>2. ASSUME NEW seg \in Segments, NEW status \in {"ready", "failed"},
             RecordYieldReceipt(i, seg, status)
      PROVE  \A j \in Items : Changes(j, item'[j])
  BY <1>2, NoRowChanges DEF RecordYieldReceipt
<1>3. ASSUME NEW seg \in Segments, RequeueReadyContinuation(i, seg)
      PROVE  \A j \in Items : Changes(j, item'[j])
  <2> DEFINE row == [item[i] EXCEPT !.state = "queued", !.segment = seg + 1,
                                    !.front = TRUE, !.held = FALSE,
                                    !.released = TRUE, !.launched = FALSE,
                                    !.stage = "none", !.yieldId = FALSE]
  <2>1. Continued(i, row)
    BY <1>0, <1>3 DEF RequeueReadyContinuation, Continued, Row
  <2> QED
    BY <1>3, <2>1, OneRowChanges, Zenon DEF RequeueReadyContinuation, UpdateRow, Changes
<1>4. ASSUME NEW terminal \in BOOLEAN, IsolateContinuationFailure(i, terminal)
      PROVE  \A j \in Items : Changes(j, item'[j])
  <2> DEFINE row == [item[i] EXCEPT
                       !.state = IF terminal THEN "failed" ELSE "yielding"]
  <2>1. Advanced(i, row) \/ Same(i, row)
    BY <1>0, <1>4 DEF IsolateContinuationFailure, Advanced, Same, Keeps, After, Row
  <2> QED
    BY <1>4, <2>1, OneRowChanges, Zenon DEF IsolateContinuationFailure, Changes
<1>5. ASSUME NEW tree, UpdateRow(i, [item[i] EXCEPT !.tree = tree])
      PROVE  \A j \in Items : Changes(j, item'[j])
  <2>1. Same(i, [item[i] EXCEPT !.tree = tree])
    BY <1>0 DEF Same, Keeps, Row
  <2> QED
    BY <1>5, <2>1, OneRowChanges, Zenon DEF UpdateRow, Changes
<1>6. CASE WorktreeStep(i)
  BY <1>5, <1>6, Zenon DEF WorktreeStep, RecordWorktreePrepared, RecordWorktreeCleanup
<1> QED
  BY <1>1, <1>2, <1>3, <1>4, <1>6 DEF YieldStep

\* Host, Project and GPU transactions touch rows only to block dependants.
LEMMA HostChanges ==
    ASSUME RowInv, HostStep \/ GpuStep
    PROVE  \A j \in Items : Changes(j, item'[j])
<1>1. CASE ReconcileFailedDependencies
  <2> SUFFICES ASSUME NEW j \in Items
               PROVE  Changes(j, item'[j])
    OBVIOUS
  <2>1. item[j] \in Row
    BY DEF RowInv, TypeOK
  <2>2. \/ item'[j] = item[j]
        \/ /\ item[j].state = "queued"
           /\ item'[j] = [item[j] EXCEPT !.state = "blocked"]
    BY <1>1 DEF ReconcileFailedDependencies, StateOf
  <2>3. ASSUME item[j].state = "queued"
        PROVE  Edited(j, [item[j] EXCEPT !.state = "blocked"])
    BY <2>1, <2>3 DEF Edited, Keeps, Pending, Row
  <2>4. Same(j, item[j])
    BY DEF Same, Keeps
  <2> QED
    BY <2>2, <2>3, <2>4 DEF Changes
<1>2. CASE HostStep /\ ~ReconcileFailedDependencies
  BY <1>2, NoRowChanges DEF HostStep, PauseHost, ResumeHost, QuarantineProject,
       CloseProjectCircuit, TransitionProject
<1>3. CASE GpuStep
  BY <1>3, NoRowChanges DEF GpuStep, AddGpu, EnableGpu, DrainGpu,
       RequestReservation, ReleaseReservation, ReconcileReservations
<1> QED
  BY <1>1, <1>2, <1>3

\* Every step of the store changes every row in one of the ways above.
LEMMA StepChanges ==
    ASSUME RowInv, [Next]_storeVars
    PROVE  \A j \in Items : Changes(j, item'[j])
<1>1. CASE UNCHANGED storeVars
  BY <1>1, NoRowChanges DEF storeVars
<1> QED
  BY <1>1, OperatorChanges, AttemptChanges, YieldChanges, HostChanges DEF Next

\* Yield requests and receipts are never deleted.
LEMMA EvidenceGrows ==
    ASSUME [Next]_storeVars
    PROVE  requests \subseteq requests' /\ receipts \subseteq receipts'
<1> USE DEF storeVars, yieldVars
<1>1. ASSUME NEW i \in Items, OperatorStep(i) \/ WorktreeStep(i)
      PROVE  UNCHANGED yieldVars
  BY <1>1, Zenon DEF OperatorStep, WorktreeStep, Admit, HoldItem, ReleaseItem, MoveItem,
       RemoveItem, SetItemPriority, RecordWorktreePrepared,
       RecordWorktreeCleanup, UpdateRow
<1>2. ASSUME NEW i \in Items, AttemptStep(i)
      PROVE  UNCHANGED yieldVars
  BY <1>2, Zenon DEF AttemptStep, Claim, RecordLaunched, ReleaseGpuLease,
       ResolveAbandonedLaunch, RecordExecutorCompletion,
       RecordTerminationCompletion, FailActiveItem, EndWith,
       RequestTermination, EscalateTermination, UpdateRow
<1>3. ASSUME NEW i \in Items, YieldStep(i)
      PROVE  requests \subseteq requests' /\ receipts \subseteq receipts'
  BY <1>3, Zenon DEF YieldStep, RecordYieldRequest, RecordYieldReceipt,
       RequeueReadyContinuation, IsolateContinuationFailure, UpdateRow
<1>4. ASSUME HostStep \/ GpuStep
      PROVE  UNCHANGED yieldVars
  BY <1>4 DEF HostStep, GpuStep, ReconcileFailedDependencies, PauseHost,
       ResumeHost, QuarantineProject, CloseProjectCircuit, TransitionProject,
       AddGpu, EnableGpu, DrainGpu, RequestReservation, ReleaseReservation,
       ReconcileReservations
<1> QED
  BY <1>1, <1>2, <1>3, <1>4 DEF Next

\* A Project becomes archived only in a step that finds, and leaves, each of its
\* items terminal or not yet admitted.
LEMMA ArchivalStep ==
    ASSUME RowInv, [Next]_storeVars, NEW p \in Projects,
           lifecycle[p] # "archived", lifecycle'[p] = "archived"
    PROVE  /\ UNCHANGED item
           /\ \A i \in ItemsOf(p) : StateOf(i) \in Terminal \cup {"absent"}
<1> USE DEF storeVars, projectVars
<1>0. lifecycle \in [Projects -> Lifecycles]
  BY DEF RowInv, TypeOK
<1>1. ASSUME NEW i \in Items,
             OperatorStep(i) \/ AttemptStep(i) \/ YieldStep(i) \/ WorktreeStep(i)
      PROVE  UNCHANGED lifecycle
  <2>1. CASE OperatorStep(i) \/ WorktreeStep(i)
    BY <2>1, Zenon DEF OperatorStep, WorktreeStep, Admit, HoldItem, ReleaseItem,
         MoveItem, RemoveItem, SetItemPriority, RecordWorktreePrepared,
         RecordWorktreeCleanup, UpdateRow
  <2>2. CASE AttemptStep(i)
    BY <2>2, Zenon DEF AttemptStep, Claim, RecordLaunched, ReleaseGpuLease,
         ResolveAbandonedLaunch, RecordExecutorCompletion,
         RecordTerminationCompletion, FailActiveItem, EndWith,
         RequestTermination, EscalateTermination, UpdateRow
  <2>3. CASE YieldStep(i)
    BY <2>3, Zenon DEF YieldStep, RecordYieldRequest, RecordYieldReceipt,
         RequeueReadyContinuation, IsolateContinuationFailure, UpdateRow
  <2> QED
    BY <1>1, <2>1, <2>2, <2>3
<1>2. CASE GpuStep
  BY <1>2 DEF GpuStep, AddGpu, EnableGpu, DrainGpu, RequestReservation,
       ReleaseReservation, ReconcileReservations
<1>3. ASSUME NEW q \in Projects, NEW target \in Lifecycles,
             TransitionProject(q, target)
      PROVE  /\ UNCHANGED item
             /\ \A i \in ItemsOf(p) : StateOf(i) \in Terminal \cup {"absent"}
  <2>1. q = p /\ target = "archived"
    BY <1>0, <1>3 DEF TransitionProject
  <2> QED
    BY <1>3, <2>1 DEF TransitionProject
<1>4. CASE HostStep
  BY <1>3, <1>4 DEF HostStep, ReconcileFailedDependencies, PauseHost, ResumeHost,
       QuarantineProject, CloseProjectCircuit
<1> QED
  BY <1>1, <1>2, <1>4 DEF Next

-------------------------------------------------------------------------------
(* Action properties                                                       *)

\* One transaction of the store, for each of the three action properties.
LEMMA OutcomeSteps ==
    RowInv /\ [Next]_storeVars =>
        [\A i \in Items :
           /\ StateOf(i) \in Terminal => StateOf(i)' = StateOf(i)
           /\ StateOf(i) \in Active /\ StateOf(i)' \in Pending =>
                StateOf(i) = "yielding" /\ item[i].segment' > item[i].segment
        ]_storeVars
<1>1. ASSUME RowInv, [Next]_storeVars, NEW i \in Items
      PROVE  /\ StateOf(i) \in Terminal => StateOf(i)' = StateOf(i)
             /\ StateOf(i) \in Active /\ StateOf(i)' \in Pending =>
                  StateOf(i) = "yielding" /\ item[i].segment' > item[i].segment
  <2>1. Changes(i, item'[i]) /\ item[i].segment \in Nat
    BY <1>1, StepChanges DEF RowInv, TypeOK, Row
  <2> QED
    BY <2>1 DEF Changes, Same, Edited, Claimed, Advanced, After, Freed, Continued,
         IsCandidate, StateOf, Terminal, Ended, Active, Pending
<1> QED
  BY <1>1

\* OutcomeIsFinal for every instance: no transaction of the v5 repositories
\* changes a terminal state, and an active attempt returns to pending work only
\* through requeue_ready_continuation, which advances its segment.
THEOREM Finality == Spec => OutcomeIsFinal
BY OutcomeSteps, RowCorrectness, PTL DEF Spec, OutcomeIsFinal

LEMMA TerminationSteps ==
    RowInv /\ [Next]_storeVars =>
        [\A i \in Items :
           /\ StateOf(i) = "terminating" =>
                StateOf(i)' \in {"terminating", "force_killing", "interrupted",
                                 "failed"}
           /\ StateOf(i) = "force_killing" =>
                StateOf(i)' \in {"force_killing", "force_killed", "failed"}
        ]_storeVars
<1>1. ASSUME RowInv, [Next]_storeVars, NEW i \in Items
      PROVE  /\ StateOf(i) = "terminating" =>
                  StateOf(i)' \in {"terminating", "force_killing", "interrupted",
                                   "failed"}
             /\ StateOf(i) = "force_killing" =>
                  StateOf(i)' \in {"force_killing", "force_killed", "failed"}
  <2>1. Changes(i, item'[i])
    BY <1>1, StepChanges
  <2> QED
    BY <2>1 DEF Changes, Same, Edited, Claimed, Advanced, After, Freed, Continued,
         IsCandidate, StateOf, Ended, Pending
<1> QED
  BY <1>1

\* TerminationWins for every instance: after request_termination the only
\* states left are the escalation and the two ends, whatever receipts, yields
\* or repeated requests are committed in between.
THEOREM TerminationIsFinal == Spec => TerminationWins
BY TerminationSteps, RowCorrectness, PTL DEF Spec, TerminationWins

LEMMA LeaseSteps ==
    RowInv /\ [Next]_storeVars =>
        [\A i \in Items : item[i].held /\ ~item[i].held' =>
           \/ StateOf(i) \in Ended /\ StateOf(i)' = StateOf(i)
           \/ /\ StateOf(i) = "yielding" /\ StateOf(i)' = "queued"
              /\ item[i].segment' = item[i].segment + 1
              /\ <<i, item[i].segment, "ready">> \in receipts]_storeVars
<1>1. ASSUME RowInv, [Next]_storeVars, NEW i \in Items,
             item[i].held /\ ~item[i].held'
      PROVE  \/ StateOf(i) \in Ended /\ StateOf(i)' = StateOf(i)
             \/ /\ StateOf(i) = "yielding" /\ StateOf(i)' = "queued"
                /\ item[i].segment' = item[i].segment + 1
                /\ <<i, item[i].segment, "ready">> \in receipts
  <2>1. Changes(i, item'[i])
    BY <1>1, StepChanges
  <2>2. Freed(i, item'[i]) \/ Continued(i, item'[i])
    BY <1>1, <2>1, Zenon DEF Changes, Same, Edited, Claimed, Advanced, Keeps
  <2> QED
    BY <2>2 DEF Freed, Continued, StateOf
<1> QED
  BY <1>1

\* LeaseOutlivesAttempt for every instance: runtime_gpu_lease_held is cleared
\* only by release_gpu_lease on an ended attempt or by
\* requeue_ready_continuation on a segment with a ready receipt.
THEOREM LeaseLifetime == Spec => LeaseOutlivesAttempt
BY LeaseSteps, RowCorrectness, PTL DEF Spec, LeaseOutlivesAttempt

-------------------------------------------------------------------------------
(* Invariants about the history of a row                                   *)

\* StartedAfterDependencies for every instance: a GPU is assigned only by
\* claim(), under the dependency test of _candidate_query, and a dependency
\* that succeeded stays succeeded.
THEOREM DependencyOrder == Spec => []StartedAfterDependencies
<1>1. Init => StartedAfterDependencies
  BY DEF Init, NewRow, StartedAfterDependencies
<1>2. ASSUME RowInv, StartedAfterDependencies, [Next]_storeVars
      PROVE  StartedAfterDependencies'
  <2> SUFFICES ASSUME NEW i \in Items, item'[i].gpu # NoGpu,
                      NEW d \in dependsOn[i]
               PROVE  item'[d].state = "succeeded"
    BY DEF StartedAfterDependencies, StateOf
  <2>1. d \in Items
    BY StoreAssumption
  <2>2. Changes(i, item'[i]) /\ Changes(d, item'[d])
    BY <1>2, <2>1, StepChanges
  <2>3. item[i].gpu # NoGpu \/ IsCandidate(i)
    BY <2>2 DEF Changes, Same, Edited, Claimed, Advanced, Freed, Continued, Keeps
  <2>4. item[d].state = "succeeded"
    BY <1>2, <2>3 DEF StartedAfterDependencies, IsCandidate, StateOf
  <2> QED
    BY <2>2, <2>4 DEF Changes, Same, Edited, Claimed, Advanced, After, Freed,
         Continued, IsCandidate, StateOf, Pending
<1> QED
  BY <1>1, <1>2, RowCorrectness, PTL DEF Spec

\* ArchivedIsTerminal for every instance: archival finds every item of the
\* Project terminal, terminal states are final, and admit refuses an archived
\* Project.
THEOREM ArchivalIsSafe == Spec => []ArchivedIsTerminal
<1>1. Init => ArchivedIsTerminal
  BY DEF Init, NewRow, ArchivedIsTerminal, StateOf
<1>2. ASSUME RowInv, ArchivedIsTerminal, [Next]_storeVars
      PROVE  ArchivedIsTerminal'
  <2> SUFFICES ASSUME NEW i \in Items, lifecycle'[projectOf[i]] = "archived"
               PROVE  item'[i].state \in Terminal \cup {"absent"}
    BY DEF ArchivedIsTerminal, StateOf
  <2>0. projectOf[i] \in Projects
    BY StoreAssumption
  <2>1. CASE lifecycle[projectOf[i]] = "archived"
    <3>1. item[i].state \in Terminal \cup {"absent"}
      BY <1>2, <2>1 DEF ArchivedIsTerminal, StateOf
    <3>2. Changes(i, item'[i])
      BY <1>2, StepChanges
    <3> QED
      BY <2>1, <3>1, <3>2 DEF Changes, Same, Edited, Claimed, Advanced, After,
           Freed, Continued, IsCandidate, StateOf, Terminal, Ended, Pending
  <2>2. CASE lifecycle[projectOf[i]] # "archived"
    BY <1>2, <2>0, <2>2, ArchivalStep DEF ItemsOf, StateOf
  <2> QED
    BY <2>1, <2>2
<1> QED
  BY <1>1, <1>2, RowCorrectness, PTL DEF Spec

\* SegmentsHaveReceipts for every instance: the segment number grows only in
\* requeue_ready_continuation, by one, over the request and the ready receipt
\* of the segment it closes, and evidence is append-only.
THEOREM SegmentEvidence == Spec => []SegmentsHaveReceipts
<1>1. Init => SegmentsHaveReceipts
  <2> SUFFICES ASSUME Init, NEW i \in Items, NEW n \in 1 .. item[i].segment - 1
               PROVE  FALSE
    BY DEF SegmentsHaveReceipts
  <2>1. item[i].segment = 1
    BY DEF Init, NewRow
  <2> QED
    BY <2>1
<1>2. ASSUME RowInv, SegmentsHaveReceipts, [Next]_storeVars
      PROVE  SegmentsHaveReceipts'
  <2> SUFFICES ASSUME NEW i \in Items, NEW n \in 1 .. item'[i].segment - 1
               PROVE  <<i, n>> \in requests' /\ <<i, n, "ready">> \in receipts'
    BY Zenon DEF SegmentsHaveReceipts
  <2>1. Changes(i, item'[i]) /\ item[i].segment \in Nat
    BY <1>2, StepChanges DEF RowInv, TypeOK, Row
  <2>2. \/ item'[i].segment = item[i].segment
        \/ Continued(i, item'[i])
    BY <2>1 DEF Changes, Same, Edited, Claimed, Advanced, Freed, Keeps
  <2>3. \/ n \in 1 .. item[i].segment - 1
        \/ n = item[i].segment /\ Continued(i, item'[i])
    BY <2>1, <2>2 DEF Continued
  <2>4. <<i, n>> \in requests /\ <<i, n, "ready">> \in receipts
    BY <1>2, <2>3 DEF SegmentsHaveReceipts, Continued
  <2> QED
    BY <1>2, <2>4, EvidenceGrows
<1> QED
  BY <1>1, <1>2, RowCorrectness, PTL DEF Spec
===============================================================================
