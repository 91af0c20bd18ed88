----------------------------- MODULE ServiceProofs -----------------------------
(***************************************************************************)
(* Proofs about SchedulerService: what the scheduler, its executors and    *)
(* the operators do to the store is always a transaction of QueueStore,    *)
(* and the executors, the host locks and the evidence files stay in step   *)
(* with the rows, wherever the scheduler crashes.                          *)
(***************************************************************************)
EXTENDS SchedulerService, TLAPS

\* A leaf that names no prover is a first-order step, left to Zenon.
USE Zenon

Live == {"booting", "alive"}

\* Control points: handling one ended attempt, recovering one attempt of an
\* earlier process, preparing a dispatch, launching, and giving back.
Handling == {"finish", "finalize", "complete", "yield", "requeue",
             "isolateEnded", "decline", "reject", "isolation", "isolate",
             "fail", "quarantine", "gate", "cleanup", "spoiled"}
Closing == {"gate", "cleanup", "spoiled"}
Recovering == {"adopt", "adopted", "inspect", "alive", "contended"}
Preparing == {"lock", "prepare", "claim", "unprepare", "unprepared"}
Launching == {"spawn", "await", "stop", "record", "launchFailed"}
Discarding == {"launchPause", "discard", "discarded"}
Dispatching == Preparing \cup Launching \cup Discarding
Resting == {"down", "sleep", "reservations", "dependencies", "dispatch", "offer"}
Passes == {"local", "restart", "pending", "orphan", "resolve"}

\* What holds of each item: executor and evidence fit the row.
ItemInv(i) ==
    /\ item[i].segment \in Segments
    /\ exec[i] \in Live => StateOf(i) \in Active /\ HasTree(i)
    /\ StateOf(i) \in Pending \cup {"absent", "removed"} =>
         exec[i] = "none" /\ files[i] = NoFiles
    /\ files[i].exit # "none" => exec[i] \in {"closing", "gone"}
    /\ files[i].yield # "none" => <<i, item[i].segment>> \in requests
    /\ i \in procs => gpuOf(i) \in Gpus

\* Which of the scheduler's local variables are set where.
PointInv ==
    /\ pc \in Handling \cup Recovering \cup Dispatching => cur \in Items
    /\ pc \in Dispatching => slot \in Gpus
    /\ pc \in Dispatching \cup Resting => todo = {}
    /\ pass \in Passes
    /\ pc \in Passes => pass = pc
    /\ pc \in Recovering => pass = "restart"
    /\ pc \in Handling \ Closing => pass \in {"local", "restart"}
    /\ proof => pc \in Handling
    /\ pc \in (Handling \ {"spoiled"}) \cup Recovering => gpuOf(cur) \in Gpus

\* What a pass may rely on for the items it has still to visit.
TodoInv ==
    \A i \in todo :
        /\ pass \in {"local", "restart", "pending"} => gpuOf(i) \in Gpus
        /\ pass \in {"pending", "orphan"} => StateOf(i) \notin Active
        /\ pass = "orphan" => ~item[i].held

\* What the scheduler may rely on for the item it is handling, although
\* operators and executors act between any two of its steps.
CurInv ==
    /\ pc \in Handling \cup Discarding \cup {"launchFailed"} => exec[cur] \notin Live
    /\ pc \in Preparing => StateOf(cur) \in Pending \cup {"removed"}
    /\ pc \in Launching => StateOf(cur) = "starting"
    /\ pc \in {"claim", "spawn"} => HasTree(cur)
    /\ pc = "spawn" => exec[cur] = "none" /\ files[cur] = NoFiles
    /\ pc = "requeue" => files[cur].yield = "ready"
    /\ pc = "cleanup" => ~item[cur].held

\* An idle proof stays good until the lease goes: the host lock is held and no
\* work can enter the GPU.
ProofInv ==
    proof /\ item[cur].held => gpuOf(cur) \in locks /\ ~Busy(gpuOf(cur))

\* In the local pass an attempt that yields without an idle proof was asked to
\* after its executor ended, so it has no answer.
LocalInv ==
    pass = "local" /\ pc \in Handling \ {"finish"} /\ ~proof
        /\ StateOf(cur) = "yielding" => files[cur].yield = "none"

\* Without detached work nothing outlives its executor; without yields no
\* attempt is ever yielding.
NoDetached ==
    "detached" \notin Faults =>
        \A i \in Items, g \in Gpus : <<i, g>> \in using => exec[i] = "alive"
NoYield == "yield" \notin Commands => \A i \in Items : StateOf(i) # "yielding"

\* Work on a GPU is covered by the lease, given one of the two.
CoverInv ==
    ("detached" \notin Faults \/ "yield" \notin Commands) => LeaseCoversWork

\* A launch that does not fail keeps its lease.
LaunchInv ==
    "launch" \notin Faults /\ "die" \notin Faults =>
        /\ pc \notin {"stop", "launchFailed", "launchPause"}
        /\ pc = "await" => exec[cur] = "booting" \/ files[cur].launch
        /\ pc = "discard" => ~item[cur].held

\* The part of the invariant about the scheduler's place in its code.
ControlInv == PointInv /\ CurInv /\ ProofInv /\ LocalInv /\ LaunchInv

ServiceInv ==
    /\ LeaseInv
    /\ ServiceTypeOK
    /\ \A i \in Items : ItemInv(i)
    /\ PointInv
    /\ TodoInv
    /\ CurInv
    /\ ProofInv
    /\ LocalInv
    /\ NoDetached
    /\ NoYield
    /\ CoverInv
    /\ LaunchInv

\* A lease dropped without its proof is dropped by a requeue of the restart pass.
ReleaseProvenOrStale ==
    [][\A i \in Items : item[i].held /\ ~item[i].held' =>
         \/ gpuOf(i) \in locks /\ ~Busy(gpuOf(i))
         \/ pc = "requeue" /\ pass = "restart" /\ ~proof /\ cur = i]_serviceVars

-------------------------------------------------------------------------------
(***************************************************************************)
(* Every step of the service is a transaction of the store, or none.       *)
(***************************************************************************)

\* A due termination signal.
LEMMA EscalationTransaction ==
    ASSUME NEW i \in Items, EscalateTermination(i, item[i].stage)
    PROVE  Next
<1>1. item[i].stage \in Stages
  BY DEF EscalateTermination, Stages
<1> QED
  BY <1>1 DEF Next, AttemptStep

\* What ServiceInv says of the item being handled.
LEMMA CurFacts ==
    ASSUME ServiceInv, pc \in Handling \cup Recovering \cup Dispatching
    PROVE  /\ cur \in Items
           /\ item[cur].segment \in Segments
           /\ projectOf[cur] \in Projects
           /\ files[cur].yield \in {"none", "ready", "failed"}
<1>1. cur \in Items
  BY DEF ServiceInv, PointInv
<1> QED
  BY <1>1, StoreAssumption DEF ServiceInv, ItemInv, ServiceTypeOK

LEMMA PassTransactions ==
    ASSUME ServiceInv, PassStep
    PROVE  Next \/ UNCHANGED storeVars
<1>1. todo \subseteq Items /\ \A i \in Items : item[i].segment \in Segments
  BY DEF ServiceInv, ServiceTypeOK, ItemInv
<1>2. ASSUME NEW i \in Items, VisitLocal(i)
      PROVE  Next \/ UNCHANGED storeVars
  BY <1>2, EscalationTransaction DEF VisitLocal, MaybeEscalate, NoStore, Next, HostStep
<1>3. ASSUME NEW i \in Items, FinishLocal(i) \/ VisitRestarted(i) \/ VisitPending(i)
      PROVE  UNCHANGED storeVars
  BY <1>3 DEF FinishLocal, VisitRestarted, VisitPending, NoStore
<1>4. ASSUME NEW i \in Items, VisitOrphan(i)
      PROVE  Next \/ UNCHANGED storeVars
  BY <1>4 DEF VisitOrphan, Next, WorktreeStep, NoStore
<1>5. CASE BeginIteration \/ LocalDone \/ RestartDone \/ PendingDone \/ OrphanDone
  BY <1>5 DEF BeginIteration, LocalDone, RestartDone, PendingDone, OrphanDone, NoStore
<1>6. CASE Reservations
  BY <1>6 DEF Reservations, Next, GpuStep
<1>7. CASE Dependencies
  BY <1>7 DEF Dependencies, Next, HostStep
<1> QED
  BY <1>2, <1>3, <1>4, <1>5, <1>6, <1>7 DEF PassStep

\* Telemetry and host locks cost at most a pause.
LEMMA IdleTransaction ==
    ASSUME NEW g, NEW next, RequireIdle(g, next)
    PROVE  PauseHost \/ UNCHANGED storeVars
BY DEF RequireIdle, NoStore

LEMMA FinishTransactions ==
    ASSUME ServiceInv, FinishStep
    PROVE  Next \/ UNCHANGED storeVars
<1>0. pc \in Handling
  BY DEF FinishStep, FinishStart, Finalize, Complete, FinalizeYield, Requeue,
       IsolateEnded, Decline, Reject, Isolation, Isolate, Fail, Quarantine, Release,
       Cleanup, Spoiled, At, Handling
<1>1. /\ cur \in Items
      /\ item[cur].segment \in Segments
      /\ projectOf[cur] \in Projects
      /\ files[cur].yield \in {"none", "ready", "failed"}
  BY <1>0, CurFacts
<1>2. PauseHost => Next
  BY DEF Next, HostStep
<1>3. QuarantineProject(projectOf[cur]) => Next
  BY <1>1 DEF Next, HostStep
<1>4. CASE FinishStart
  BY <1>4, <1>2, IdleTransaction DEF FinishStart, NoStore
<1>5. CASE Finalize \/ IsolateEnded \/ Isolation
  BY <1>5 DEF Finalize, IsolateEnded, Isolation, NoStore
<1>6. CASE Complete
  BY <1>6, <1>1 DEF Complete, NoStore, Next, AttemptStep
<1>7. CASE FinalizeYield
  BY <1>7, <1>1 DEF FinalizeYield, NoStore, Next, YieldStep
<1>8. CASE Requeue
  BY <1>8, <1>1 DEF Requeue, NoStore, Next, YieldStep
<1>9. CASE Decline \/ Isolate
  BY <1>9, <1>1 DEF Decline, Isolate, NoStore, Next, YieldStep
<1>10. CASE Reject \/ Fail
  BY <1>10, <1>1 DEF Reject, Fail, NoStore, Next, AttemptStep
<1>11. CASE Quarantine \/ Spoiled
  BY <1>11, <1>3 DEF Quarantine, Spoiled
<1>12. CASE Release
  <2>1. gpuOf(cur) \in Gpus
    BY <1>12 DEF ServiceInv, PointInv, Release, At, Handling
  <2>2. ReleaseGpuLease(cur, gpuOf(cur)) => Next
    BY <2>1, <1>1 DEF Next, AttemptStep
  <2> QED
    BY <2>2, <1>12, <1>2, IdleTransaction DEF Release, NoStore
<1>13. CASE Cleanup
  BY <1>13, <1>1, <1>3 DEF Cleanup, NoStore, Next, WorktreeStep
<1> QED
  BY <1>4, <1>5, <1>6, <1>7, <1>8, <1>9, <1>10, <1>11, <1>12, <1>13 DEF FinishStep

LEMMA RestartTransactions ==
    ASSUME ServiceInv, RestartStep
    PROVE  Next \/ UNCHANGED storeVars
<1>0. pc \in Recovering
  BY DEF RestartStep, Adopt, Adopted, Inspect, CheckAlive, Contended, At, Recovering
<1>1. cur \in Items /\ item[cur].segment \in Segments /\ projectOf[cur] \in Projects
  BY <1>0, CurFacts
<1>2. gpuOf(cur) \in Gpus
  BY <1>0 DEF ServiceInv, PointInv
<1>3. PauseHost => Next
  BY DEF Next, HostStep
<1>4. CASE Adopt
  <2>1. RecordLaunched(cur, item[cur].segment, gpuOf(cur)) => Next
    BY <1>1, <1>2 DEF Next, AttemptStep
  <2> QED
    BY <2>1, <1>3, <1>4 DEF Adopt, PauseAmbiguous
<1>5. CASE Adopted
  BY <1>5 DEF Adopted, NoStore
<1>6. CASE Inspect
  BY <1>6, <1>3, IdleTransaction DEF Inspect, NoStore
<1>7. CASE CheckAlive
  BY <1>7, <1>1, <1>3, EscalationTransaction
     DEF CheckAlive, MaybeEscalate, NoStore, PauseAmbiguous
<1>8. CASE Contended
  BY <1>8, <1>1 DEF Contended, Next, HostStep
<1> QED
  BY <1>4, <1>5, <1>6, <1>7, <1>8 DEF RestartStep

LEMMA DispatchTransactions ==
    ASSUME ServiceInv, DispatchStep
    PROVE  Next \/ UNCHANGED storeVars
<1>1. PauseHost => Next
  BY DEF Next, HostStep
<1>2. CASE BeginDispatch
  BY <1>2, <1>1 DEF BeginDispatch, NoStore
<1>3. CASE Offer
  BY <1>3, <1>1, StoreAssumption
     DEF Offer, NoStore, HeadCandidates, Next, HostStep
<1>4. CASE LockGpu \/ Spawn \/ Await \/ Stop \/ LaunchPause
  BY <1>4, <1>1 DEF LockGpu, Spawn, Await, Stop, LaunchPause, NoStore
<1>5. ASSUME pc \in Dispatching
      PROVE  /\ cur \in Items
             /\ item[cur].segment \in Segments
             /\ projectOf[cur] \in Projects
             /\ slot \in Gpus
  BY <1>5, CurFacts DEF ServiceInv, PointInv
<1> USE DEF Dispatching, Preparing, Launching, Discarding
<1>6. CASE Prepare \/ Unprepare \/ Discard
  BY <1>6, <1>5 DEF Prepare, Unprepare, Discard, At, NoStore, Next, WorktreeStep
<1>7. CASE Unprepared \/ Discarded
  BY <1>7, <1>5 DEF Unprepared, Discarded, Next, HostStep
<1>8. CASE ClaimItem \/ RecordLaunch \/ LaunchFailed
  BY <1>8, <1>5 DEF ClaimItem, RecordLaunch, LaunchFailed, At, NoStore, Next,
       AttemptStep
<1> QED
  BY <1>2, <1>3, <1>4, <1>6, <1>7, <1>8 DEF DispatchStep

\* The service does nothing to the store that is not one of its transactions.
LEMMA ServiceTransactions ==
    ASSUME ServiceInv, [ServiceNext]_serviceVars
    PROVE  [Next]_storeVars
<1>1. CASE UNCHANGED serviceVars
  BY <1>1 DEF serviceVars
<1>2. CASE StartScheduler \/ Resolved \/ Crash
  BY <1>2 DEF StartScheduler, Resolved, Crash, NoStore
<1>3. ASSUME NEW i \in Items, ResolveAbandoned(i)
      PROVE  Next
  <2>1. /\ StateOf(i) \in Active
        /\ ResolveAbandonedLaunch(i, gpuOf(i), item[i].launched)
    BY <1>3 DEF ResolveAbandoned, ResolveAbandonedLaunch
  <2>2. item[i] \in Row /\ RowFits(item[i])
    BY DEF ServiceInv, LeaseInv, RowInv, TypeOK
  <2>3. gpuOf(i) \in Gpus /\ item[i].launched \in BOOLEAN
    BY <2>1, <2>2 DEF gpuOf, Row, RowFits, LeaseFits, StateOf
  <2> QED
    BY <2>1, <2>3 DEF Next, AttemptStep
<1>4. ASSUME NEW i \in Items, ExecutorStep(i)
      PROVE  UNCHANGED storeVars
  BY <1>4 DEF ExecutorStep, ExecutorStarts, WorkEnters, WorkLeaves, JobYields,
       ExecutorPublishes, ExecutorLeaves, ExecutorDies, OnlyEnv
<1>5. ASSUME NEW g \in Gpus, ForeignLock(g)
      PROVE  UNCHANGED storeVars
  BY <1>5 DEF ForeignLock, OnlyEnv
<1>6. CASE OperatorCommand
  <2>1. \A i \in Items : item[i].segment \in Segments
    BY DEF ServiceInv, ItemInv
  <2> QED
    BY <1>6, <2>1 DEF OperatorCommand, Next, AttemptStep, YieldStep, OperatorStep,
         HostStep, GpuStep
<1> QED
  BY <1>1, <1>2, <1>3, <1>4, <1>5, <1>6, PassTransactions, FinishTransactions,
     RestartTransactions, DispatchTransactions DEF ServiceNext, SchedulerStep

-------------------------------------------------------------------------------
(***************************************************************************)
(* What the transactions of the service do to the rows.                    *)
(***************************************************************************)

Others(i) == \A j \in Items \ {i} : item'[j] = item[j]

\* The row keeps its place: GPU, segment, and the rows of the others.
SamePlace(i) ==
    /\ Others(i)
    /\ item'[i].gpu = item[i].gpu
    /\ item'[i].segment = item[i].segment
    /\ UNCHANGED requests

SameTreeAndLease(i) ==
    /\ SamePlace(i)
    /\ item'[i].tree = item[i].tree
    /\ item'[i].held = item[i].held

Ends(i) ==
    /\ SameTreeAndLease(i)
    /\ item[i].state \in Active
    /\ item'[i].state \in Ended

Launches(i) ==
    /\ SameTreeAndLease(i)
    /\ item[i].state \in {"starting", "terminating", "force_killing"}
    /\ item'[i].state = IF item[i].state = "starting" THEN "running"
                                                      ELSE item[i].state

Escalates(i) ==
    /\ SameTreeAndLease(i)
    /\ item[i].state = "terminating"
    /\ item'[i].state \in {"terminating", "force_killing"}

Drops(i) ==
    /\ SamePlace(i)
    /\ item'[i].tree = item[i].tree
    /\ item[i].held
    /\ ~item'[i].held
    /\ item'[i].state = item[i].state

SetsTree(i, tree) ==
    /\ SamePlace(i)
    /\ item'[i].held = item[i].held
    /\ item'[i].state = item[i].state
    /\ item'[i].tree = tree

Takes(i, g) ==
    /\ Others(i)
    /\ ~item[i].held
    /\ item[i].state = "queued"
    /\ item'[i].state = "starting"
    /\ item'[i].held
    /\ item'[i].gpu = g
    /\ item'[i].segment = item[i].segment
    /\ item'[i].tree = item[i].tree
    /\ UNCHANGED requests

Requeues(i) ==
    /\ Others(i)
    /\ item[i].held
    /\ item[i].state = "yielding"
    /\ item'[i].state = "queued"
    /\ ~item'[i].held
    /\ item'[i].gpu = item[i].gpu
    /\ item'[i].segment \in Segments
    /\ item'[i].tree = item[i].tree
    /\ UNCHANGED requests

\* A command of an operator, or the blocking of dependants: leases, segments and
\* worktrees stay, a pending item stays pending or is removed, a launched one is
\* asked to end or, once per segment, to yield.
CalmRow(i) ==
    /\ item'[i].gpu = item[i].gpu
    /\ item'[i].segment = item[i].segment
    /\ item'[i].tree = item[i].tree
    /\ item'[i].held = item[i].held
    /\ \/ item'[i].state = item[i].state
       \/ item[i].state \in Pending /\ item'[i].state \in Pending \cup {"removed"}
       \/ /\ item[i].state \in {"running", "yielding", "terminating"}
          /\ item'[i].state \in {"terminating", "force_killing"}
       \/ /\ item[i].state = "running"
          /\ item'[i].state = "yielding"
          /\ <<i, item[i].segment>> \notin requests
          /\ "yield" \in Commands

Calm == requests \subseteq requests' /\ \A i \in Items : CalmRow(i)

LEMMA PutOne ==
    ASSUME RowInv, NEW i \in Items, NEW row, item' = [item EXCEPT ![i] = row]
    PROVE  item'[i] = row /\ Others(i)
<1>1. item \in [Items -> Row]
  BY DEF RowInv, TypeOK
<1> QED
  BY <1>1 DEF Others

\* Every terminal outcome leaves lease, worktree and segment alone.
LEMMA EndEffect ==
    ASSUME RowInv, NEW i \in Items, NEW seg, NEW ok, NEW g, NEW id,
           \/ RecordExecutorCompletion(i, seg, ok)
           \/ RecordTerminationCompletion(i)
           \/ FailActiveItem(i)
           \/ IsolateContinuationFailure(i, TRUE)
           \/ ResolveAbandonedLaunch(i, g, id)
    PROVE  Ends(i)
<1>1. item[i] \in Row
  BY DEF RowInv, TypeOK
<1>2. PICK state \in Ended : item' = [item EXCEPT ![i] = [item[i] EXCEPT !.state = state]]
  <2>1. OutcomeOf(StateOf(i), IF ok THEN "succeeded" ELSE "failed") \in Ended
    BY DEF OutcomeOf, Ended
  <2>2. OutcomeOf(StateOf(i), "failed") \in Ended
    BY DEF OutcomeOf, Ended
  <2>3. "failed" \in Ended
    BY DEF Ended
  <2> QED
    BY <2>1, <2>2, <2>3 DEF RecordExecutorCompletion, RecordTerminationCompletion,
         FailActiveItem, EndWith, UpdateRow, IsolateContinuationFailure,
         ResolveAbandonedLaunch
<1>3. item[i].state \in Active /\ UNCHANGED requests
  BY DEF RecordExecutorCompletion, RecordTerminationCompletion, FailActiveItem,
       EndWith, UpdateRow, IsolateContinuationFailure, ResolveAbandonedLaunch,
       StateOf, Active, yieldVars
<1>4. item'[i] = [item[i] EXCEPT !.state = state] /\ Others(i)
  BY <1>2, PutOne
<1> QED
  BY <1>1, <1>3, <1>4 DEF Row, Ends, SameTreeAndLease, SamePlace

LEMMA LaunchEffect ==
    ASSUME RowInv, NEW i \in Items, NEW seg, NEW g, RecordLaunched(i, seg, g)
    PROVE  Launches(i)
<1>1. item[i] \in Row
  BY DEF RowInv, TypeOK
<1>2. item' = [item EXCEPT ![i] =
                 [item[i] EXCEPT !.state = IF @ = "starting" THEN "running" ELSE @,
                                 !.launched = TRUE]]
  BY DEF RecordLaunched, UpdateRow
<1>3. /\ item'[i] = [item[i] EXCEPT !.state = IF @ = "starting" THEN "running" ELSE @,
                                    !.launched = TRUE]
      /\ Others(i)
  BY <1>2, PutOne
<1>4. item[i].state \in {"starting", "terminating", "force_killing"} /\ UNCHANGED requests
  BY DEF RecordLaunched, UpdateRow, StateOf, yieldVars
<1> QED
  BY <1>1, <1>3, <1>4 DEF Row, Launches, SameTreeAndLease, SamePlace

LEMMA EscalateEffect ==
    ASSUME RowInv, NEW i \in Items, NEW stage, EscalateTermination(i, stage)
    PROVE  Escalates(i)
<1>1. item[i] \in Row
  BY DEF RowInv, TypeOK
<1> DEFINE row == IF stage = "interrupt"
                  THEN [item[i] EXCEPT !.stage = "terminate"]
                  ELSE [item[i] EXCEPT !.stage = "kill", !.state = "force_killing"]
<1>2. item'[i] = row /\ Others(i)
  <2>1. item' = [item EXCEPT ![i] = row]
    BY DEF EscalateTermination, UpdateRow
  <2> HIDE DEF row
  <2> QED
    BY <2>1, PutOne
<1>3. item[i].state = "terminating" /\ UNCHANGED requests
  BY DEF EscalateTermination, UpdateRow, StateOf, yieldVars
<1> QED
  BY <1>1, <1>2, <1>3 DEF Row, Escalates, SameTreeAndLease, SamePlace

\* Nonterminal isolation opens the circuit and keeps the row as it is.
LEMMA IsolateEffect ==
    ASSUME RowInv, NEW i \in Items, IsolateContinuationFailure(i, FALSE)
    PROVE  UNCHANGED <<item, requests>>
<1>1. item \in [Items -> Row]
  BY DEF RowInv, TypeOK
<1>2. /\ item' = [item EXCEPT ![i] = [item[i] EXCEPT !.state = "yielding"]]
      /\ item[i].state = "yielding"
      /\ UNCHANGED requests
  BY DEF IsolateContinuationFailure, StateOf, yieldVars
<1>3. [item[i] EXCEPT !.state = "yielding"] = item[i]
  BY <1>1, <1>2 DEF Row
<1> QED
  BY <1>1, <1>2, <1>3

LEMMA ReleaseEffect ==
    ASSUME RowInv, NEW i \in Items, NEW g, ReleaseGpuLease(i, g)
    PROVE  Drops(i) /\ item[i].state \notin Active
<1>1. item[i] \in Row
  BY DEF RowInv, TypeOK
<1>2. item' = [item EXCEPT ![i] = [item[i] EXCEPT !.held = FALSE, !.released = TRUE]]
  BY DEF ReleaseGpuLease, UpdateRow
<1>3. item'[i] = [item[i] EXCEPT !.held = FALSE, !.released = TRUE] /\ Others(i)
  BY <1>2, PutOne
<1>4. item[i].held /\ UNCHANGED requests /\ item[i].state \notin Active
  BY DEF ReleaseGpuLease, UpdateRow, StateOf, yieldVars
<1> QED
  BY <1>1, <1>3, <1>4, SMT DEF Row, Drops, SamePlace

LEMMA TreeEffect ==
    ASSUME RowInv, NEW i \in Items
    PROVE  /\ RecordWorktreePrepared(i) => SetsTree(i, "present")
           /\ RecordWorktreeCleanup(i, TRUE) => SetsTree(i, "removed")
           /\ RecordWorktreeCleanup(i, FALSE) => SetsTree(i, "failed")
<1>1. item[i] \in Row
  BY DEF RowInv, TypeOK
<1>2. ASSUME NEW tree, UpdateRow(i, [item[i] EXCEPT !.tree = tree])
      PROVE  SetsTree(i, tree)
  <2>1. item' = [item EXCEPT ![i] = [item[i] EXCEPT !.tree = tree]] /\ UNCHANGED requests
    BY <1>2 DEF UpdateRow, yieldVars
  <2>2. item'[i] = [item[i] EXCEPT !.tree = tree] /\ Others(i)
    BY <2>1, PutOne
  <2> QED
    BY <1>1, <2>1, <2>2, SMT DEF Row, SetsTree, SamePlace
<1> QED
  BY <1>2 DEF RecordWorktreePrepared, RecordWorktreeCleanup

LEMMA ClaimTakes ==
    ASSUME RowInv, NEW i \in Items, NEW g \in Gpus, Claim(i, g)
    PROVE  ~item[i].held /\ item'[i].held
<1>0. item \in [Items -> Row] /\ RowFits(item[i])
  BY DEF RowInv, TypeOK
<1>1. ~item[i].held
  BY <1>0 DEF Claim, Claimable, IsCandidate, StateOf, RowFits, LeaseFits,
       Active, Ended
<1>2. item'[i].held
  BY <1>0, SMT DEF Claim, UpdateRow, Row
<1> QED
  BY <1>1, <1>2

LEMMA ClaimEffect ==
    ASSUME RowInv, NEW i \in Items, NEW g \in Gpus, Claim(i, g)
    PROVE  Takes(i, g)
<1>1. item[i] \in Row
  BY DEF RowInv, TypeOK
<1> DEFINE row == [item[i] EXCEPT !.state = "starting", !.gpu = g, !.held = TRUE,
                                  !.released = FALSE, !.front = FALSE,
                                  !.launched = FALSE]
<1>2. item'[i] = row /\ Others(i)
  <2>1. item' = [item EXCEPT ![i] = row]
    BY DEF Claim, UpdateRow
  <2> HIDE DEF row
  <2> QED
    BY <2>1, PutOne
<1>3. item[i].state = "queued" /\ ~item[i].held /\ UNCHANGED requests
  BY ClaimTakes DEF Claim, Claimable, IsCandidate, UpdateRow, StateOf, yieldVars
<1> QED
  BY <1>1, <1>2, <1>3, SMT DEF Row, Takes

LEMMA RequeueEffect ==
    ASSUME RowInv, NEW i \in Items, item[i].segment \in Segments,
           RequeueReadyContinuation(i, item[i].segment)
    PROVE  Requeues(i)
<1>1. item[i] \in Row
  BY DEF RowInv, TypeOK
<1> DEFINE row == [item[i] EXCEPT !.state = "queued", !.segment = item[i].segment + 1,
                                  !.front = TRUE, !.held = FALSE,
                                  !.released = TRUE, !.launched = FALSE,
                                  !.stage = "none", !.yieldId = FALSE]
<1>2. item'[i] = row /\ Others(i)
  <2>1. item' = [item EXCEPT ![i] = row]
    BY DEF RequeueReadyContinuation, UpdateRow
  <2> HIDE DEF row
  <2> QED
    BY <2>1, PutOne
<1>3. /\ item[i].state = "yielding" /\ item[i].held /\ UNCHANGED requests
      /\ item[i].segment < MaxSegment
  BY DEF RequeueReadyContinuation, UpdateRow, StateOf, yieldVars
<1>4. item[i].segment + 1 \in Segments
  BY <1>3, StoreAssumption, SMT DEF Segments
<1> QED
  BY <1>1, <1>2, <1>3, <1>4, SMT DEF Row, Requeues

\* Blocking the dependants of unsuccessful items.
LEMMA DependencyEffect ==
    ASSUME RowInv, ReconcileFailedDependencies
    PROVE  Calm
<1>1. item \in [Items -> Row]
  BY DEF RowInv, TypeOK
<1>2. UNCHANGED requests
  BY DEF ReconcileFailedDependencies, yieldVars
<1>3. ASSUME NEW j \in Items
      PROVE  \/ item'[j] = item[j]
             \/ item[j].state = "queued" /\ item'[j] = [item[j] EXCEPT !.state = "blocked"]
  BY DEF ReconcileFailedDependencies, StateOf
<1>4. ASSUME NEW j \in Items
      PROVE  CalmRow(j)
  <2>1. item[j] \in Row
    BY <1>1
  <2> QED
    BY <2>1, <1>3 DEF CalmRow, Row, Pending
<1> QED
  BY <1>2, <1>4 DEF Calm

\* Only one row is written.
LEMMA OneCalmRow ==
    ASSUME NEW i \in Items, Others(i), CalmRow(i), requests \subseteq requests'
    PROVE  Calm
<1>1. ASSUME NEW j \in Items
      PROVE  CalmRow(j)
  BY DEF Others, CalmRow
<1> QED
  BY <1>1 DEF Calm

LEMMA CommandEffect ==
    ASSUME RowInv, OperatorCommand
    PROVE  Calm
<1>0. item \in [Items -> Row]
  BY DEF RowInv, TypeOK
<1>1. ASSUME NEW i \in Items, NEW force \in BOOLEAN, RequestTermination(i, force)
      PROVE  Calm
  <2> DEFINE state == IF force THEN "force_killing" ELSE "terminating"
             stage == IF force THEN "kill" ELSE "interrupt"
             row == [item[i] EXCEPT !.state = state, !.stage = stage]
  <2>1. item'[i] = row /\ Others(i)
    <3>1. item' = [item EXCEPT ![i] = row]
      BY <1>1 DEF RequestTermination, UpdateRow
    <3> HIDE DEF row
    <3> QED
      BY <3>1, PutOne
  <2>2. item[i].state \in {"running", "yielding", "terminating"} /\ UNCHANGED requests
    BY <1>1 DEF RequestTermination, UpdateRow, StateOf, yieldVars
  <2>3. CalmRow(i)
    <3>1. item[i] \in Row
      BY <1>0
    <3> QED
      BY <3>1, <2>1, <2>2 DEF CalmRow, Row
  <2> HIDE DEF row
  <2> QED
    BY <2>1, <2>2, <2>3, OneCalmRow
<1>2. ASSUME "yield" \in Commands, NEW i \in Items,
             RecordYieldRequest(i, item[i].segment)
      PROVE  Calm
  <2>1. item' = [item EXCEPT ![i] = [item[i] EXCEPT !.state = "yielding",
                                                   !.yieldId = TRUE]]
    BY <1>2 DEF RecordYieldRequest
  <2>2. /\ item'[i] = [item[i] EXCEPT !.state = "yielding", !.yieldId = TRUE]
        /\ Others(i)
    BY <2>1, PutOne
  <2>3. item[i].state = "running" /\ <<i, item[i].segment>> \notin requests
        /\ requests \subseteq requests'
    BY <1>2 DEF RecordYieldRequest, StateOf
  <2>4. CalmRow(i)
    <3>1. item[i] \in Row
      BY <1>0
    <3> QED
      BY <3>1, <1>2, <2>2, <2>3 DEF CalmRow, Row
  <2> QED
    BY <2>2, <2>3, <2>4, OneCalmRow
<1>3. ASSUME NEW i \in Items, HoldItem(i) \/ ReleaseItem(i)
      PROVE  Calm
  <2>1. PICK state \in Pending :
              item' = [item EXCEPT ![i] = [item[i] EXCEPT !.state = state]]
    BY <1>3 DEF HoldItem, ReleaseItem, MoveItem, UpdateRow, Pending
  <2>2. item'[i] = [item[i] EXCEPT !.state = state] /\ Others(i)
    BY <2>1, PutOne
  <2>3. item[i].state \in Pending /\ UNCHANGED requests
    BY <1>3 DEF HoldItem, ReleaseItem, MoveItem, UpdateRow, StateOf, Pending, yieldVars
  <2>4. CalmRow(i)
    <3>1. item[i] \in Row
      BY <1>0
    <3> QED
      BY <3>1, <2>2, <2>3 DEF CalmRow, Row, Pending
  <2> QED
    BY <2>2, <2>3, <2>4, OneCalmRow
<1>4. ASSUME NEW i \in Items, RemoveItem(i)
      PROVE  Calm
  <2>1. ASSUME NEW j \in Items
        PROVE  \/ item'[j] = item[j]
               \/ /\ item[j].state \in Pending
                  /\ \/ item'[j] = [item[j] EXCEPT !.state = "removed"]
                     \/ item'[j] = [item[j] EXCEPT !.state = "held"]
    BY <1>4 DEF RemoveItem, StateOf, Pending
  <2>2. UNCHANGED requests
    BY <1>4 DEF RemoveItem, yieldVars
  <2>3. ASSUME NEW j \in Items
        PROVE  CalmRow(j)
    <3>1. item[j] \in Row
      BY <1>0
    <3> QED
      BY <3>1, <2>1, ZenonT(40) DEF CalmRow, Row, Pending
  <2> QED
    BY <2>2, <2>3 DEF Calm
<1>5. ASSUME UNCHANGED <<item, requests>>
      PROVE  Calm
  BY <1>5 DEF Calm, CalmRow
<1>6. ASSUME NEW g \in Gpus, RequestReservation(g) \/ ReleaseReservation(g)
      PROVE  UNCHANGED <<item, requests>>
  BY <1>6 DEF RequestReservation, ReleaseReservation, yieldVars
<1>7. PauseHost \/ ResumeHost => UNCHANGED <<item, requests>>
  BY DEF PauseHost, ResumeHost, yieldVars
<1>8. ASSUME NEW p \in Projects, CloseProjectCircuit(p)
      PROVE  UNCHANGED <<item, requests>>
  BY <1>8 DEF CloseProjectCircuit, yieldVars
<1> QED
  BY <1>1, <1>2, <1>3, <1>4, <1>5, <1>6, <1>7, <1>8 DEF OperatorCommand

-------------------------------------------------------------------------------
(***************************************************************************)
(* Row changes that keep executors, evidence and passes in step.           *)
(***************************************************************************)

Unstarted == Pending \cup {"absent", "removed"}

\* No row goes back, no ended attempt becomes active, and a live executor keeps
\* an active row with a worktree.
Onward(i) ==
    /\ item'[i].segment = item[i].segment
    /\ item[i].gpu \in Gpus => item'[i].gpu \in Gpus
    /\ item[i].state \notin Active => item'[i].state \notin Active
    /\ item[i].state \in Unstarted \/ item'[i].state \notin Unstarted
    /\ ~item[i].held => ~item'[i].held
    /\ item'[i].state = "yielding" => item[i].state = "yielding" \/ "yield" \in Commands
    /\ exec[i] \in Live => (item[i].state \in Active => item'[i].state \in Active)
    /\ exec[i] \in Live => (item[i].tree \in {"present", "failed"} =>
                              item'[i].tree \in {"present", "failed"})

Steady == requests \subseteq requests' /\ \A i \in Items : Onward(i)

LEMMA SameSteady ==
    ASSUME UNCHANGED <<item, requests>>
    PROVE  Steady
BY DEF Steady, Onward

LEMMA OneSteady ==
    ASSUME NEW i \in Items, Others(i), Onward(i), UNCHANGED requests
    PROVE  Steady
<1>1. ASSUME NEW j \in Items
      PROVE  Onward(j)
  BY DEF Others, Onward
<1> QED
  BY <1>1 DEF Steady

LEMMA CalmSteady ==
    ASSUME Calm
    PROVE  Steady
<1>1. ASSUME NEW i \in Items
      PROVE  Onward(i)
  BY DEF Calm, CalmRow, Onward, Unstarted, Pending, Active
<1> QED
  BY <1>1 DEF Calm, Steady

LEMMA EffectSteady ==
    ASSUME NEW i \in Items
    PROVE  /\ Ends(i) /\ exec[i] \notin Live => Steady
           /\ Launches(i) \/ Escalates(i) \/ Drops(i) => Steady
           /\ SetsTree(i, "present") \/ SetsTree(i, "failed") => Steady
           /\ SetsTree(i, "removed") /\ exec[i] \notin Live => Steady
<1> USE DEF SameTreeAndLease, SamePlace, Onward
<1>1. Ends(i) /\ exec[i] \notin Live => Steady
  BY OneSteady DEF Ends, Ended, Active, Unstarted, Pending
<1>2. Launches(i) => Steady
  BY OneSteady DEF Launches, Active, Unstarted, Pending
<1>3. Escalates(i) => Steady
  BY OneSteady DEF Escalates, Active, Unstarted, Pending
<1>4. Drops(i) => Steady
  BY OneSteady DEF Drops
<1>5. SetsTree(i, "present") \/ SetsTree(i, "failed") => Steady
  BY OneSteady DEF SetsTree
<1>6. SetsTree(i, "removed") /\ exec[i] \notin Live => Steady
  BY OneSteady DEF SetsTree
<1> QED
  BY <1>1, <1>2, <1>3, <1>4, <1>5, <1>6

\* What follows from a steady step that touches no executor.
LEMMA SteadyItems ==
    ASSUME ServiceInv, Steady, UNCHANGED <<exec, files>>,
           \A i \in procs' : i \in procs \/ gpuOf(i) \in Gpus
    PROVE  /\ \A i \in Items : ItemInv(i)'
           /\ NoYield'
<1>1. ASSUME NEW i \in Items
      PROVE  ItemInv(i)'
  <2>1. ItemInv(i) /\ Onward(i) /\ requests \subseteq requests'
    BY DEF ServiceInv, Steady
  <2> QED
    BY <2>1 DEF ItemInv, Onward, Unstarted, StateOf, HasTree, gpuOf, Live
<1>2. NoYield'
  BY DEF ServiceInv, Steady, NoYield, Onward, StateOf
<1> QED
  BY <1>1, <1>2

LEMMA SteadyTodo ==
    ASSUME ServiceInv, Steady, todo' \subseteq todo, pass' = pass
    PROVE  TodoInv'
<1>1. todo \subseteq Items
  BY DEF ServiceInv, ServiceTypeOK
<1> QED
  BY <1>1 DEF ServiceInv, Steady, Onward, TodoInv, StateOf, gpuOf

-------------------------------------------------------------------------------
(***************************************************************************)
(* Ways on for the scheduler.                                              *)
(***************************************************************************)

\* From one point of handling an ended attempt to the next.
LEMMA HandlingMove ==
    ASSUME ServiceInv,
           pc \in Handling \ {"spoiled"},
           pc' \in Handling \ {"finish"},
           pc \in Closing => pc' \in Closing,
           UNCHANGED <<pass, todo, cur, proof>>,
           UNCHANGED <<exec, files, using, locks>>,
           item'[cur].gpu = item[cur].gpu,
           item'[cur].held => item[cur].held,
           item'[cur].state = "yielding" => item[cur].state = "yielding",
           pc = "finish" => item'[cur].state # "yielding",
           pc' = "requeue" => files[cur].yield = "ready",
           pc' = "cleanup" => ~item'[cur].held
    PROVE  ControlInv'
<1> USE DEF Handling, Closing, Recovering, Dispatching, Preparing, Launching,
        Discarding, Resting, Passes
<1>1. PointInv'
  BY DEF ServiceInv, PointInv, gpuOf
<1>2. CurInv'
  BY DEF ServiceInv, CurInv
<1>3. ProofInv'
  BY DEF ServiceInv, ProofInv, gpuOf, Busy
<1>4. LocalInv'
  BY DEF ServiceInv, LocalInv, StateOf
<1>5. LaunchInv'
  BY DEF LaunchInv
<1> QED
  BY <1>1, <1>2, <1>3, <1>4, <1>5 DEF ControlInv

\* To a pass, or to a point between passes: nothing is being handled there.
LEMMA IdlePointMove ==
    ASSUME ~proof', pass' \in Passes,
           \/ pc' \in Passes /\ pass' = pc'
           \/ pc' \in Resting /\ todo' = {}
    PROVE  ControlInv'
<1> USE DEF Handling, Closing, Recovering, Dispatching, Preparing, Launching,
        Discarding, Resting, Passes
<1>1. PointInv'
  BY DEF PointInv
<1>2. CurInv' /\ LocalInv' /\ LaunchInv'
  BY DEF CurInv, LocalInv, LaunchInv
<1>3. ProofInv'
  BY DEF ProofInv
<1> QED
  BY <1>1, <1>2, <1>3 DEF ControlInv

LEMMA DoneMove ==
    ASSUME ServiceInv, Done
    PROVE  ControlInv'
BY IdlePointMove DEF ServiceInv, PointInv, Done

\* Out of the scheduler process.
LEMMA ExitMove ==
    ASSUME Exit
    PROVE  ControlInv'
BY IdlePointMove DEF Exit, Resting, Passes

\* The idle test: on with a proof, or back to the pass.
LEMMA IdleMove ==
    ASSUME ServiceInv, NEW next \in {"finalize", "gate"}, cur \in Items,
           gpuOf(cur) \in Gpus, exec[cur] \notin Live,
           next = "finalize" => pass \in {"local", "restart"},
           RequireIdle(gpuOf(cur), next), UNCHANGED <<exec, files, using, slot>>
    PROVE  ControlInv'
<1> USE DEF Handling, Closing, Recovering, Dispatching, Preparing, Launching,
        Discarding, Resting, Passes
<1>1. CASE Done
  BY <1>1, DoneMove
<1>2. CASE /\ CanLock(gpuOf(cur)) /\ ~Busy(gpuOf(cur)) /\ Lock(gpuOf(cur))
           /\ proof' = TRUE /\ pc' = next
           /\ UNCHANGED <<pass, todo, seen, cur, procs>> /\ NoStore
  <2>1. item' = item
    BY <1>2 DEF NoStore, storeVars
  <2>2. PointInv'
    BY <1>2, <2>1 DEF ServiceInv, PointInv, gpuOf
  <2>3. CurInv'
    BY <1>2, <2>1 DEF CurInv
  <2>4. ProofInv'
    <3>1. gpuOf(cur) \in locks'
      BY <1>2 DEF CanLock, Lock
    <3> QED
      BY <3>1, <1>2, <2>1 DEF ProofInv, gpuOf, Busy
  <2>5. LocalInv' /\ LaunchInv'
    BY <1>2 DEF LocalInv, LaunchInv
  <2> QED
    BY <2>2, <2>3, <2>4, <2>5 DEF ControlInv
<1> QED
  BY <1>1, <1>2 DEF RequireIdle

\* Leases stay with every effect but the release.
LEMMA EffectLeases ==
    ASSUME NEW i \in Items, NEW tree,
           \/ UNCHANGED item
           \/ Ends(i) \/ Launches(i) \/ Escalates(i) \/ SetsTree(i, tree)
           \/ Calm
    PROVE  KeepLeases
BY DEF Ends, Launches, Escalates, SetsTree, SameTreeAndLease, SamePlace, Others, Calm,
     CalmRow, KeepLeases, SameLease

\* What a step of the scheduler must show to keep ServiceInv, if it starts and
\* stops no executor: its rows are steady, a lease goes only with the proof, and
\* the new control point has what it relies on.
Moved ==
    /\ ControlInv'
    /\ TodoInv'
    /\ Steady
    /\ KeepLeases \/ (Drops(cur) /\ proof /\ cur \in Items)

LEMMA QuietMoved ==
    ASSUME ServiceInv, ControlInv', UNCHANGED <<item, requests>>,
           \/ todo' = {}
           \/ todo' \subseteq todo /\ pass' = pass
    PROVE  Moved
<1>1. Steady
  BY SameSteady
<1>2. TodoInv'
  BY <1>1, SteadyTodo DEF TodoInv
<1>3. KeepLeases
  BY DEF KeepLeases, SameLease
<1> QED
  BY <1>1, <1>2, <1>3 DEF Moved

LEMMA EffectMoved ==
    ASSUME ServiceInv, ControlInv', todo' \subseteq todo, pass' = pass,
           NEW i \in Items,
           \/ exec[i] \notin Live /\ (Ends(i) \/ SetsTree(i, "removed"))
           \/ Launches(i) \/ Escalates(i)
           \/ SetsTree(i, "present") \/ SetsTree(i, "failed")
           \/ Drops(i) /\ proof /\ i = cur
    PROVE  Moved
<1>1. Steady
  BY EffectSteady
<1>2. TodoInv'
  BY <1>1, SteadyTodo
<1>3. KeepLeases \/ (Drops(cur) /\ proof /\ cur \in Items)
  BY EffectLeases
<1> QED
  BY <1>1, <1>2, <1>3 DEF Moved

-------------------------------------------------------------------------------
(***************************************************************************)
(* The handlers of ended attempts.                                         *)
(***************************************************************************)

\* On within the handling of cur, with its row as it is or ended.
LEMMA HandlingMoved ==
    ASSUME ServiceInv, NEW p \in Handling \ {"spoiled"}, NEW q \in Handling \ {"finish"},
           At(p), Goto(q), UNCHANGED locks, NoEnv,
           p \in Closing => q \in Closing,
           p = "finish" => item[cur].state # "yielding",
           q = "requeue" => files[cur].yield = "ready",
           q = "cleanup" => ~item[cur].held,
           \/ UNCHANGED <<item, requests>>
           \/ Ends(cur) /\ q # "cleanup"
    PROVE  Moved
<1>1. cur \in Items /\ exec[cur] \notin Live
  BY DEF At, ServiceInv, PointInv, CurInv
<1>2. /\ UNCHANGED <<pass, todo, cur, proof>>
      /\ UNCHANGED <<exec, files, using>>
      /\ pc = p /\ pc' = q
  BY DEF At, Goto, NoEnv, envVars
<1>3. /\ item'[cur].gpu = item[cur].gpu
      /\ item'[cur].held = item[cur].held
      /\ item'[cur].state = "yielding" => item[cur].state = "yielding"
      /\ item'[cur].state = item[cur].state \/ item'[cur].state # "yielding"
  BY DEF Ends, SameTreeAndLease, SamePlace, Ended
<1>4. ControlInv'
  BY <1>2, <1>3, HandlingMove
<1> QED
  BY <1>1, <1>2, <1>4, QuietMoved, EffectMoved

\* The end of an item.
LEMMA DoneMoved ==
    ASSUME ServiceInv, Done,
           \/ UNCHANGED <<item, requests>>
           \/ /\ cur \in Items
              /\ \/ exec[cur] \notin Live /\ SetsTree(cur, "removed")
                 \/ Escalates(cur)
    PROVE  Moved
<1>1. ControlInv'
  BY DoneMove
<1>2. UNCHANGED <<pass, todo>>
  BY DEF Done
<1> QED
  BY <1>1, <1>2, QuietMoved, EffectMoved

LEMMA ExitMoved ==
    ASSUME ServiceInv, Exit, NoStore
    PROVE  Moved
<1>1. UNCHANGED <<item, requests>> /\ todo' = {}
  BY DEF NoStore, storeVars, Exit
<1> QED
  BY <1>1, ExitMove, QuietMoved

LEMMA IdleMoved ==
    ASSUME ServiceInv, NEW p \in {"finish", "gate", "inspect"},
           NEW next \in {"finalize", "gate"}, At(p), exec[cur] \notin Live,
           p = "gate" => next = "gate",
           RequireIdle(gpuOf(cur), next), NoEnv
    PROVE  Moved
<1>1. /\ cur \in Items /\ gpuOf(cur) \in Gpus
      /\ next = "finalize" => pass \in {"local", "restart"}
  BY DEF At, ServiceInv, PointInv, Handling, Recovering, Closing
<1>2. UNCHANGED <<exec, files, using, slot>>
  BY DEF At, NoEnv, envVars
<1>3. ControlInv'
  BY <1>1, <1>2, IdleMove
<1>4. UNCHANGED <<item, requests, todo, pass>>
  BY DEF RequireIdle, NoStore, storeVars, PauseHost, yieldVars, Done
<1> QED
  BY <1>3, <1>4, QuietMoved

LEMMA FinishMoved ==
    ASSUME ServiceInv, FinishStep
    PROVE  Moved \/ Requeue
<1> USE DEF Handling, Closing
<1>0. RowInv
  BY DEF ServiceInv, LeaseInv
<1>1. pc \in Handling
  BY DEF FinishStep, FinishStart, Finalize, Complete, FinalizeYield, Requeue,
       IsolateEnded, Decline, Reject, Isolation, Isolate, Fail, Quarantine, Release,
       Cleanup, Spoiled, At
<1>2. cur \in Items /\ exec[cur] \notin Live
  BY <1>1 DEF ServiceInv, PointInv, CurInv
<1>3. NoStore => UNCHANGED <<item, requests>>
  BY DEF NoStore, storeVars
<1>4. ASSUME NEW p, QuarantineProject(p)
      PROVE  UNCHANGED <<item, requests>>
  BY <1>4 DEF QuarantineProject, yieldVars
<1>5. NoProc => UNCHANGED locks
  BY DEF NoProc, procVars
<1>6. CASE FinishStart
  <2>1. CASE StateOf(cur) = "yielding"
    BY <1>6, <2>1, <1>2, IdleMoved DEF FinishStart
  <2>2. CASE StateOf(cur) # "yielding"
    BY <1>6, <2>2, <1>3, <1>5, HandlingMoved DEF FinishStart, StateOf
  <2> QED
    BY <2>1, <2>2
<1>7. CASE Finalize
  BY <1>7, <1>3, <1>5, HandlingMoved DEF Finalize
<1>8. CASE Complete
  <2>1. ASSUME RecordExecutorCompletion(cur, item[cur].segment, files[cur].exit = "ok")
        PROVE  Ends(cur)
    BY <2>1, <1>0, <1>2, EndEffect
  <2> QED
    BY <1>8, <2>1, <1>3, <1>5, HandlingMoved DEF Complete
<1>9. CASE FinalizeYield
  <2>1. ASSUME IsolateContinuationFailure(cur, FALSE)
        PROVE  UNCHANGED <<item, requests>>
    BY <2>1, <1>0, <1>2, IsolateEffect
  <2>2. ASSUME NEW seg, NEW status, RecordYieldReceipt(cur, seg, status)
        PROVE  UNCHANGED <<item, requests>>
    BY <2>2 DEF RecordYieldReceipt
  <2>3. /\ At("yield") /\ NoProc /\ NoEnv
        /\ UNCHANGED <<item, requests>>
        /\ \/ Goto("gate")
           \/ Goto("isolateEnded")
           \/ Goto(IF files[cur].yield = "ready" THEN "requeue" ELSE "decline")
    BY <1>9, <2>1, <2>2, <1>3 DEF FinalizeYield
  <2> QED
    BY <2>3, <1>5, HandlingMoved
<1>10. CASE IsolateEnded
  BY <1>10, <1>3, <1>5, HandlingMoved DEF IsolateEnded
<1>11. ASSUME IsolateContinuationFailure(cur, TRUE)
       PROVE  Ends(cur)
  BY <1>11, <1>0, <1>2, EndEffect
<1>12. CASE Decline
  BY <1>12, <1>11, <1>3, <1>5, HandlingMoved DEF Decline
<1>13. CASE Reject
  <2>1. ASSUME RecordTerminationCompletion(cur)
        PROVE  Ends(cur)
    BY <2>1, <1>0, <1>2, EndEffect
  <2> QED
    BY <1>13, <2>1, <1>3, <1>5, HandlingMoved DEF Reject
<1>14. CASE Isolation
  <2>1. PICK q \in {"gate", "isolate", "fail"} : Goto(q)
    BY <1>14 DEF Isolation
  <2> QED
    BY <1>14, <2>1, <1>3, <1>5, HandlingMoved DEF Isolation
<1>15. CASE Isolate
  BY <1>15, <1>11, <1>3, <1>5, HandlingMoved, ExitMoved DEF Isolate
<1>16. CASE Fail
  <2>1. Ends(cur)
    BY <1>16, <1>0, <1>2, EndEffect DEF Fail
  <2> QED
    BY <1>16, <2>1, <1>5, HandlingMoved DEF Fail
<1>17. CASE Quarantine
  BY <1>17, <1>4, <1>5, HandlingMoved DEF Quarantine
<1>18. CASE Release
  <2>1. CASE RequireIdle(gpuOf(cur), "gate")
    BY <1>18, <2>1, <1>2, IdleMoved DEF Release
  <2>2. CASE proof /\ ReleaseGpuLease(cur, gpuOf(cur)) /\ Goto("cleanup") /\ NoProc
    <3>1. Drops(cur)
      BY <2>2, <1>0, <1>2, ReleaseEffect
    <3>2. ControlInv'
      BY <1>18, <2>2, <3>1, HandlingMove
         DEF Release, At, Goto, NoProc, procVars, NoEnv, envVars, Drops, SamePlace
    <3> QED
      BY <3>1, <3>2, <2>2, <1>2, EffectMoved DEF Goto
  <2>3. CASE ~item[cur].held /\ Goto("cleanup") /\ NoStore /\ NoProc
    BY <1>18, <2>3, <1>3, <1>5, HandlingMoved DEF Release
  <2>4. CASE Exit /\ NoStore
    BY <2>4, ExitMoved
  <2> QED
    BY <1>18, <2>1, <2>2, <2>3, <2>4 DEF Release
<1>19. CASE Cleanup
  <2>1. CASE RecordWorktreeCleanup(cur, TRUE) /\ Finished(gpuOf(cur))
    <3>1. SetsTree(cur, "removed")
      BY <2>1, <1>0, <1>2, TreeEffect
    <3> QED
      BY <2>1, <3>1, <1>2, DoneMoved DEF Finished
  <2>2. CASE RecordWorktreeCleanup(cur, FALSE) /\ Goto("spoiled") /\ NoProc
    <3>1. SetsTree(cur, "failed")
      BY <2>2, <1>0, <1>2, TreeEffect
    <3>2. ControlInv'
      BY <1>19, <2>2, <3>1, HandlingMove
         DEF Cleanup, At, Goto, NoProc, procVars, NoEnv, envVars, SetsTree, SamePlace
    <3> QED
      BY <3>1, <3>2, <2>2, <1>2, EffectMoved DEF Goto
  <2>3. CASE (QuarantineProject(projectOf[cur]) \/ NoStore) /\ Finished(gpuOf(cur))
    BY <2>3, <1>3, <1>4, DoneMoved DEF Finished
  <2> QED
    BY <1>19, <2>1, <2>2, <2>3 DEF Cleanup
<1>20. CASE Spoiled
  BY <1>20, <1>4, DoneMoved DEF Spoiled, Finished
<1> QED
  BY <1>6, <1>7, <1>8, <1>9, <1>10, <1>12, <1>13, <1>14, <1>15, <1>16, <1>17, <1>18,
     <1>19, <1>20 DEF FinishStep

-------------------------------------------------------------------------------
(***************************************************************************)
(* The passes.                                                             *)
(***************************************************************************)

\* Taking an item out of a pass.
LEMMA PickMove ==
    ASSUME ServiceInv, pc \in Passes, NEW i \in todo,
           NEW q \in {"finish", "inspect", "adopt", "gate", "spoiled"}, Pick(i, q),
           UNCHANGED <<exec, files, using, locks>>,
           item'[i].gpu = item[i].gpu,
           q \notin {"inspect", "adopt"} => exec[i] \notin Live,
           q # "spoiled" => gpuOf(i) \in Gpus,
           q = "finish" => pass = "local",
           q \in {"inspect", "adopt"} => pass = "restart",
           q \in Closing => pass # "local"
    PROVE  ControlInv'
<1> USE DEF Handling, Closing, Recovering, Dispatching, Preparing, Launching,
        Discarding, Resting, Passes
<1>1. /\ i \in Items /\ pc' = q /\ cur' = i /\ pass' = pass
      /\ pass \in Passes
      /\ ~proof'
  BY DEF ServiceInv, ServiceTypeOK, PointInv, Pick
<1>2. PointInv'
  BY <1>1 DEF PointInv, gpuOf
<1>3. CurInv' /\ LocalInv' /\ LaunchInv'
  BY <1>1 DEF CurInv, LocalInv, LaunchInv
<1>4. ProofInv'
  BY <1>1 DEF ProofInv
<1> QED
  BY <1>2, <1>3, <1>4 DEF ControlInv

LEMMA StartPassMoved ==
    ASSUME ServiceInv, NEW p \in Passes, NEW items, StartPass(p, items), NoStore,
           TodoInv'
    PROVE  Moved
<1>1. UNCHANGED <<item, requests>>
  BY DEF NoStore, storeVars
<1>2. ControlInv'
  BY IdlePointMove DEF StartPass
<1>3. Steady /\ KeepLeases
  BY <1>1, SameSteady DEF KeepLeases, SameLease
<1> QED
  BY <1>2, <1>3 DEF Moved

\* The lease of an active or ended attempt names a GPU.
LEMMA HeldGpu ==
    ASSUME ServiceInv, NEW i \in Items
    PROVE  /\ item[i].held => gpuOf(i) \in Gpus
           /\ StateOf(i) \in Active => item[i].held
           /\ item[i].held => StateOf(i) \in Active \cup Ended
BY DEF ServiceInv, LeaseInv, RowInv, RowFits, LeaseFits, gpuOf, StateOf

LEMMA VisitMoved ==
    ASSUME ServiceInv, NEW i \in Items,
           \/ VisitLocal(i) \/ FinishLocal(i) \/ VisitRestarted(i)
           \/ VisitPending(i) \/ VisitOrphan(i)
    PROVE  Moved
<1> USE DEF Passes, Closing
<1>0. RowInv /\ pass \in Passes /\ (pc \in Passes => pass = pc)
  BY DEF ServiceInv, LeaseInv, PointInv
<1>1. ~proof
  BY DEF ServiceInv, PointInv, Handling, VisitLocal, FinishLocal, VisitRestarted,
       VisitPending, VisitOrphan, At
<1>2. UNCHANGED <<exec, files, using, locks>>
  BY DEF VisitLocal, FinishLocal, VisitRestarted, VisitPending, VisitOrphan,
       NoProc, procVars, NoEnv, envVars
<1>3. /\ i \in todo /\ pass \in {"local", "restart", "pending"} => gpuOf(i) \in Gpus
      /\ i \in todo /\ pass \in {"pending", "orphan"} => StateOf(i) \notin Active
      /\ StateOf(i) \notin Active => exec[i] \notin Live
  BY DEF ServiceInv, TodoInv, ItemInv
<1>4. NoStore \/ PauseHost => UNCHANGED <<item, requests>>
  BY DEF NoStore, storeVars, PauseHost, yieldVars
<1>5. CASE VisitLocal(i)
  <2>1. pc' = "local" /\ pass' = "local" /\ ~proof' /\ todo' \subseteq todo
    BY <1>5, <1>0, <1>1 DEF VisitLocal, At
  <2>2. ControlInv'
    BY <2>1, IdlePointMove
  <2>3. pass' = pass
    BY <1>5 DEF VisitLocal
  <2>4. Escalates(i) \/ UNCHANGED <<item, requests>>
    BY <1>5, <1>0, <1>4, EscalateEffect DEF VisitLocal, MaybeEscalate
  <2> QED
    BY <2>1, <2>2, <2>3, <2>4, QuietMoved, EffectMoved
<1>6. CASE FinishLocal(i)
  <2>1. ControlInv'
    BY <1>6, <1>0, <1>2, <1>3, <1>4, PickMove DEF FinishLocal, At, Pick, Forked, Live
  <2> QED
    BY <1>6, <2>1, <1>4, QuietMoved DEF FinishLocal, Pick
<1>7. CASE VisitRestarted(i)
  <2>1. ControlInv'
    BY <1>7, <1>0, <1>2, <1>3, <1>4, PickMove DEF VisitRestarted, At, Pick
  <2> QED
    BY <1>7, <2>1, <1>4, QuietMoved DEF VisitRestarted, Pick
<1>8. CASE VisitPending(i)
  <2>1. ControlInv'
    BY <1>8, <1>0, <1>2, <1>3, <1>4, PickMove DEF VisitPending, At, Pick
  <2> QED
    BY <1>8, <2>1, <1>4, QuietMoved DEF VisitPending, Pick
<1>9. CASE VisitOrphan(i)
  <2>0. pc = "orphan" /\ pass = "orphan"
    BY <1>9, <1>0 DEF VisitOrphan, At
  <2>1. CASE /\ RecordWorktreeCleanup(i, TRUE) /\ i \in todo /\ todo' = todo \ {i}
             /\ UNCHANGED <<pc, pass, seen, cur, proof>>
    <3>1. SetsTree(i, "removed")
      BY <2>1, <1>0, TreeEffect
    <3>2. ControlInv'
      BY <2>0, <2>1, <1>1, IdlePointMove
    <3> QED
      BY <2>0, <2>1, <3>1, <3>2, <1>3, EffectMoved
  <2>2. CASE RecordWorktreeCleanup(i, FALSE) /\ Pick(i, "spoiled")
    <3>1. SetsTree(i, "failed")
      BY <2>2, <1>0, TreeEffect
    <3>2. ControlInv'
      BY <2>0, <2>2, <3>1, <1>2, <1>3, PickMove DEF Pick, SetsTree, SamePlace
    <3> QED
      BY <2>2, <3>1, <3>2, EffectMoved DEF Pick
  <2>3. CASE NoStore /\ Pick(i, "spoiled")
    <3>1. ControlInv'
      BY <2>0, <2>3, <1>2, <1>3, <1>4, PickMove DEF Pick
    <3> QED
      BY <2>3, <3>1, <1>4, QuietMoved DEF Pick
  <2> QED
    BY <1>9, <2>1, <2>2, <2>3 DEF VisitOrphan
<1> QED
  BY <1>5, <1>6, <1>7, <1>8, <1>9

LEMMA PassMoved ==
    ASSUME ServiceInv, PassStep
    PROVE  Moved
<1> USE DEF Passes
<1>0. RowInv /\ pass \in Passes /\ (pc \in Passes => pass = pc)
  BY DEF ServiceInv, LeaseInv, PointInv
<1>1. NoStore => UNCHANGED item
  BY DEF NoStore, storeVars
<1>2. CASE BeginIteration
  <2>1. TodoInv'
    BY <1>2, <1>1 DEF BeginIteration, StartPass, TodoInv, ServiceInv, ServiceTypeOK,
         ItemInv, gpuOf
  <2> QED
    BY <1>2, <2>1, StartPassMoved DEF BeginIteration
<1>3. CASE LocalDone
  <2>1. TodoInv'
    BY <1>3, <1>1, HeldGpu DEF LocalDone, StartPass, TodoInv, gpuOf
  <2> QED
    BY <1>3, <2>1, StartPassMoved DEF LocalDone
<1>4. CASE RestartDone
  <2>1. TodoInv'
    BY <1>4, <1>1, HeldGpu DEF RestartDone, StartPass, TodoInv, gpuOf, StateOf
  <2> QED
    BY <1>4, <2>1, StartPassMoved DEF RestartDone
<1>5. CASE PendingDone
  <2>1. TodoInv'
    BY <1>5, <1>1 DEF PendingDone, StartPass, TodoInv, StateOf
  <2> QED
    BY <1>5, <2>1, StartPassMoved DEF PendingDone
<1>6. CASE OrphanDone \/ Reservations \/ Dependencies
  <2>1. ~proof /\ todo = {}
    BY <1>6 DEF ServiceInv, PointInv, Handling, Resting, OrphanDone, Reservations,
         Dependencies, At
  <2>2. pc' \in Resting /\ UNCHANGED <<pass, todo, proof>>
    BY <1>6 DEF OrphanDone, Reservations, Dependencies, Goto, Resting
  <2>3. ControlInv'
    BY <2>1, <2>2, <1>0, IdlePointMove
  <2>4. Calm \/ UNCHANGED <<item, requests>>
    BY <1>6, <1>0, DependencyEffect DEF OrphanDone, Reservations, Dependencies,
         NoStore, storeVars, ReconcileReservations, yieldVars
  <2>5. CASE Calm
    <3>1. Steady /\ KeepLeases
      BY <2>5, CalmSteady DEF Calm, CalmRow, KeepLeases, SameLease
    <3> QED
      BY <3>1, <2>2, <2>3, SteadyTodo DEF Moved
  <2> QED
    BY <2>2, <2>3, <2>4, <2>5, QuietMoved
<1> QED
  BY <1>2, <1>3, <1>4, <1>5, <1>6, VisitMoved DEF PassStep

-------------------------------------------------------------------------------
(***************************************************************************)
(* Attempts of an earlier scheduler process.                               *)
(***************************************************************************)

LEMMA RecoveringMove ==
    ASSUME ServiceInv, pc \in Recovering,
           pc' \in Recovering \cup {"finalize"},
           UNCHANGED <<pass, todo, cur, proof>>, UNCHANGED exec,
           item'[cur].gpu = item[cur].gpu,
           pc' = "finalize" => exec[cur] \notin Live
    PROVE  ControlInv'
<1> USE DEF Handling, Closing, Recovering, Dispatching, Preparing, Launching,
        Discarding, Resting, Passes
<1>1. cur \in Items /\ gpuOf(cur) \in Gpus /\ pass = "restart" /\ ~proof
  BY DEF ServiceInv, PointInv
<1>2. PointInv'
  BY <1>1 DEF PointInv, gpuOf
<1>3. CurInv' /\ LocalInv' /\ LaunchInv'
  BY <1>1 DEF CurInv, LocalInv, LaunchInv
<1>4. ProofInv'
  BY <1>1 DEF ProofInv
<1> QED
  BY <1>2, <1>3, <1>4 DEF ControlInv

LEMMA RestartMoved ==
    ASSUME ServiceInv, RestartStep
    PROVE  Moved
<1> USE DEF Recovering
<1>0. RowInv /\ pc \in Recovering
  BY DEF ServiceInv, LeaseInv, RestartStep, Adopt, Adopted, Inspect, CheckAlive,
       Contended, At
<1>1. cur \in Items
  BY <1>0 DEF ServiceInv, PointInv
<1>2. NoStore \/ PauseHost => UNCHANGED <<item, requests>>
  BY DEF NoStore, storeVars, PauseHost, yieldVars
<1>3. NoEnv => UNCHANGED <<exec, files, using>>
  BY DEF NoEnv, envVars
<1>4. PauseAmbiguous => Moved
  BY <1>2, DoneMoved DEF PauseAmbiguous
<1>5. CASE Adopt
  <2>1. CASE /\ RecordLaunched(cur, item[cur].segment, gpuOf(cur))
             /\ Goto("adopted") /\ NoProc
    <3>1. Launches(cur)
      BY <2>1, <1>0, <1>1, LaunchEffect
    <3>2. ControlInv'
      BY <1>5, <2>1, <3>1, <1>0, <1>3, RecoveringMove
         DEF Adopt, Goto, Launches, SameTreeAndLease, SamePlace
    <3> QED
      BY <2>1, <3>1, <3>2, <1>1, EffectMoved DEF Goto
  <2> QED
    BY <1>5, <2>1, <1>4 DEF Adopt
<1>6. CASE Adopted
  <2>1. ControlInv'
    BY <1>6, <1>0, <1>2, <1>3, RecoveringMove DEF Adopted
  <2> QED
    BY <1>6, <2>1, <1>2, QuietMoved DEF Adopted
<1>7. CASE Inspect
  <2>1. files[cur].exit # "none" => exec[cur] \notin Live
    BY <1>1 DEF ServiceInv, ItemInv, Live
  <2>2. CASE files[cur].exit # "none" /\ RequireIdle(gpuOf(cur), "finalize")
    BY <1>7, <2>1, <2>2, IdleMoved DEF Inspect
  <2>3. CASE /\ Goto("alive") \/ (Goto("finalize") /\ files[cur].exit # "none")
             /\ NoStore
    <3>1. ControlInv'
      BY <1>7, <2>1, <2>3, <1>0, <1>2, <1>3, RecoveringMove DEF Inspect, Goto
    <3> QED
      BY <2>3, <3>1, <1>2, QuietMoved DEF Goto
  <2> QED
    BY <1>7, <2>2, <2>3 DEF Inspect
<1>8. CASE CheckAlive
  <2>1. CASE MaybeEscalate(cur) /\ Done
    BY <2>1, <1>0, <1>1, <1>2, EscalateEffect, DoneMoved DEF MaybeEscalate
  <2>2. CASE PauseHost /\ Goto("contended")
    <3>1. ControlInv'
      BY <1>8, <2>2, <1>0, <1>2, <1>3, RecoveringMove DEF CheckAlive, Goto
    <3> QED
      BY <2>2, <3>1, <1>2, QuietMoved DEF Goto
  <2> QED
    BY <1>8, <2>1, <2>2, <1>4 DEF CheckAlive
<1>9. CASE Contended
  BY <1>9, DoneMoved DEF Contended, QuarantineProject, yieldVars
<1> QED
  BY <1>5, <1>6, <1>7, <1>8, <1>9 DEF RestartStep

-------------------------------------------------------------------------------
(***************************************************************************)
(* Dispatch.                                                               *)
(***************************************************************************)

LEMMA DispatchMove ==
    ASSUME ServiceInv, pc \in Dispatching, pc' \in Dispatching,
           UNCHANGED <<pass, todo, cur, proof, slot>>, CurInv', LaunchInv'
    PROVE  ControlInv'
<1> USE DEF Handling, Closing, Recovering, Dispatching, Preparing, Launching,
        Discarding, Resting, Passes
<1>1. PointInv'
  BY DEF ServiceInv, PointInv
<1>2. LocalInv'
  BY DEF LocalInv
<1>3. ProofInv'
  <2>1. ~proof
    BY DEF ServiceInv, PointInv
  <2> QED
    BY <2>1 DEF ProofInv
<1> QED
  BY <1>1, <1>2, <1>3 DEF ControlInv

\* Back to the offer of the next GPU, or to sleep.
LEMMA NextGpuMove ==
    ASSUME ServiceInv, pc \in Dispatching \cup {"dispatch", "offer"},
           NextGpu \/ Sleep
    PROVE  ControlInv' /\ UNCHANGED <<todo, pass>>
<1> USE DEF Handling, Closing, Recovering, Dispatching, Preparing, Launching,
        Discarding, Resting, Passes
<1>1. ~proof /\ todo = {} /\ pass \in Passes
  BY DEF ServiceInv, PointInv
<1> QED
  BY <1>1, IdlePointMove, SMT DEF NextGpu, Sleep

LEMMA NextGpuMoved ==
    ASSUME ServiceInv, pc \in Dispatching \cup {"dispatch", "offer"},
           NextGpu \/ Sleep, NoStore \/ PauseHost
    PROVE  Moved
<1>1. UNCHANGED <<item, requests>>
  BY DEF NoStore, storeVars, PauseHost, yieldVars
<1> QED
  BY <1>1, NextGpuMove, QuietMoved

LEMMA OfferMoved ==
    ASSUME ServiceInv, BeginDispatch \/ Offer \/ LockGpu
    PROVE  Moved
<1> USE DEF Handling, Closing, Recovering, Dispatching, Preparing, Launching,
        Discarding, Resting, Passes
<1>1. ~proof /\ todo = {} /\ pass \in Passes
  BY DEF ServiceInv, PointInv, BeginDispatch, Offer, LockGpu
<1>2. NoStore \/ PauseHost => UNCHANGED <<item, requests>>
  BY DEF NoStore, storeVars, PauseHost, yieldVars
<1>3. ASSUME pc' = "offer", UNCHANGED <<pass, todo, proof>>, UNCHANGED <<item, requests>>
      PROVE  Moved
  <2>1. ControlInv'
    BY <1>1, <1>3, IdlePointMove
  <2> QED
    BY <1>3, <2>1, QuietMoved
<1>4. CASE BeginDispatch
  BY <1>4, <1>2, <1>3, NextGpuMoved DEF BeginDispatch
<1>5. CASE Offer
  <2>1. pc = "offer"
    BY <1>5 DEF Offer
  <2>2. CASE Sleep /\ NoStore
    BY <2>1, <2>2, NextGpuMoved
  <2>3. CASE /\ UNCHANGED <<pc, pass, todo, proof>>
             /\ UNCHANGED <<item, requests>>
    BY <2>1, <2>3, <1>3
  <2>4. ASSUME NEW g \in avail, NEW i \in HeadCandidates, cur' = i, slot' = g,
               pc' = "lock", NoStore, NoEnv, UNCHANGED <<pass, todo, seen, proof>>
        PROVE  Moved
    <3>1. i \in Items /\ g \in Gpus /\ StateOf(i) = "queued"
      BY DEF HeadCandidates, IsCandidate, ServiceInv, ServiceTypeOK
    <3>2. UNCHANGED <<item, requests>>
      BY <2>4, <1>2
    <3>3. PointInv' /\ LocalInv' /\ LaunchInv'
      BY <2>4, <3>1, <1>1 DEF PointInv, LocalInv, LaunchInv
    <3>4. CurInv'
      BY <2>4, <3>1, <3>2 DEF CurInv, StateOf, Pending
    <3>5. ProofInv'
      BY <2>4, <1>1 DEF ProofInv
    <3> QED
      BY <2>4, <3>2, <3>3, <3>4, <3>5, QuietMoved DEF ControlInv
  <2>5. ASSUME NEW i, PauseHost \/ QuarantineProject(projectOf[i])
        PROVE  UNCHANGED <<item, requests>>
    BY <2>5 DEF PauseHost, QuarantineProject, yieldVars
  <2> QED
    BY <1>5, <2>2, <2>3, <2>4, <2>5, <1>2 DEF Offer
<1>6. CASE LockGpu
  <2>1. CASE /\ UNCHANGED slot /\ Goto("prepare") /\ NoStore
    <3>1. UNCHANGED <<item, requests>>
      BY <2>1, <1>2
    <3>2. CurInv' /\ LaunchInv'
      BY <1>6, <2>1, <3>1 DEF LockGpu, ServiceInv, CurInv, LaunchInv, Goto, StateOf
    <3>3. ControlInv'
      BY <1>6, <2>1, <3>2, DispatchMove DEF LockGpu, Goto
    <3> QED
      BY <2>1, <3>1, <3>3, QuietMoved DEF Goto
  <2>2. CASE NextGpu /\ (NoStore \/ PauseHost)
    BY <1>6, <2>2, NextGpuMoved DEF LockGpu
  <2> QED
    BY <1>6, <2>1, <2>2 DEF LockGpu
<1> QED
  BY <1>4, <1>5, <1>6

\* Items being prepared have no executor and no lease.
LEMMA PreparingFacts ==
    ASSUME ServiceInv, pc \in Preparing
    PROVE  cur \in Items /\ exec[cur] = "none" /\ files[cur] = NoFiles
           /\ ~item[cur].held
<1>1. cur \in Items /\ StateOf(cur) \in Pending \cup {"removed"}
  BY DEF ServiceInv, PointInv, CurInv, Dispatching
<1>2. ItemInv(cur)
  BY <1>1 DEF ServiceInv
<1>3. item[cur].held => StateOf(cur) \in Active \cup Ended
  BY <1>1, HeldGpu
<1> QED
  BY <1>1, <1>2, <1>3 DEF ItemInv, Pending, Active, Ended

LEMMA PrepareMoved ==
    ASSUME ServiceInv, Prepare \/ Unprepare \/ Unprepared
    PROVE  Moved
<1> USE DEF Dispatching, Preparing
<1>0. RowInv
  BY DEF ServiceInv, LeaseInv
<1>1. /\ pc \in Preparing /\ cur \in Items /\ exec[cur] = "none"
      /\ StateOf(cur) \in Pending \cup {"removed"}
  BY PreparingFacts DEF ServiceInv, CurInv, Prepare, Unprepare, Unprepared, At
<1>2. UNCHANGED <<exec, files>>
  BY DEF Prepare, Unprepare, Unprepared, NoEnv, envVars
<1>3. NoStore => UNCHANGED <<item, requests>>
  BY DEF NoStore, storeVars
<1>4. ASSUME NEW q \in {"claim", "unprepare", "unprepared"}, Goto(q), UNCHANGED slot,
             item'[cur].state = item[cur].state,
             q = "claim" => item'[cur].tree \in {"present", "failed"}
      PROVE  ControlInv'
  <2>1. CurInv'
    BY <1>1, <1>2, <1>4 DEF Goto, CurInv, Handling, Discarding, Launching, StateOf,
         HasTree
  <2>2. LaunchInv'
    BY <1>4 DEF Goto, LaunchInv
  <2> QED
    BY <2>1, <2>2, <1>1, <1>4, DispatchMove DEF Goto
<1>5. CASE Prepare
  <2>1. CASE /\ RecordWorktreePrepared(cur) \/ (HasTree(cur) /\ NoStore)
             /\ Goto("claim") \/ Goto("unprepare")
    <3>1. SetsTree(cur, "present") \/ UNCHANGED <<item, requests>>
      BY <2>1, <1>0, <1>1, <1>3, TreeEffect
    <3>2. /\ item'[cur].state = item[cur].state
          /\ item'[cur].tree \in {"present", "failed"}
      <4>1. CASE RecordWorktreePrepared(cur)
        BY <4>1, <1>0, <1>1, TreeEffect DEF SetsTree
      <4>2. CASE HasTree(cur) /\ NoStore
        BY <4>2, <1>3 DEF HasTree
      <4> QED
        BY <2>1, <4>1, <4>2
    <3>3. ControlInv'
      BY <1>5, <2>1, <3>2, <1>4 DEF Prepare, At
    <3> QED
      BY <2>1, <3>1, <3>3, <1>1, QuietMoved, EffectMoved DEF Goto
  <2>2. CASE Goto("unprepared") /\ NoStore
    <3>1. ControlInv'
      BY <1>5, <2>2, <1>3, <1>4 DEF Prepare, At
    <3> QED
      BY <2>2, <3>1, <1>3, QuietMoved DEF Goto
  <2> QED
    BY <1>5, <2>1, <2>2 DEF Prepare
<1>6. CASE Unprepare
  <2>1. SetsTree(cur, "removed") \/ SetsTree(cur, "failed")
    BY <1>6, <1>0, <1>1, TreeEffect DEF Unprepare
  <2>2. ControlInv'
    BY <1>6, <2>1, <1>4 DEF Unprepare, At, SetsTree
  <2> QED
    BY <1>6, <2>1, <2>2, <1>1, EffectMoved DEF Unprepare, Goto, Live
<1>7. CASE Unprepared
  <2>1. ControlInv' /\ UNCHANGED <<todo, pass>>
    BY <1>7, <1>1, NextGpuMove DEF Unprepared
  <2>2. UNCHANGED <<item, requests>>
    BY <1>7 DEF Unprepared, QuarantineProject, yieldVars
  <2> QED
    BY <2>1, <2>2, QuietMoved
<1> QED
  BY <1>5, <1>6, <1>7

\* A launch on its way to its record, or given back.
LEMMA LaunchMoved ==
    ASSUME ServiceInv, DispatchStep,
           \/ ClaimItem /\ NoStore
           \/ Discard \/ Discarded
           \/ Spawn /\ UNCHANGED exec
           \/ Await
           \/ Stop /\ UNCHANGED <<exec, using>>
           \/ RecordLaunch \/ LaunchFailed \/ LaunchPause
    PROVE  Moved
<1> USE DEF Dispatching, Preparing, Launching, Discarding
<1>0. RowInv
  BY DEF ServiceInv, LeaseInv
<1>1. NoStore \/ PauseHost => UNCHANGED <<item, requests>>
  BY DEF NoStore, storeVars, PauseHost, yieldVars
<1>2. pc \in Dispatching => cur \in Items
  BY DEF ServiceInv, PointInv
<1>3. ASSUME NEW p \in Dispatching, NEW q \in {"record", "stop", "launchFailed",
                                               "launchPause", "discard", "discarded"},
             At(p), Goto(q), UNCHANGED <<exec, files>>,
             q \in {"record", "stop", "launchFailed"} =>
                p \in Launching /\ item'[cur].state = item[cur].state,
             q \in {"launchFailed", "launchPause", "discard", "discarded"} =>
                exec[cur] \notin Live,
             LaunchInv'
      PROVE  ControlInv'
  <2>1. CurInv'
    BY <1>3 DEF Goto, At, CurInv, ServiceInv, Handling, StateOf
  <2> QED
    BY <1>3, <2>1, DispatchMove DEF Goto, At
<1>4. CASE ClaimItem /\ NoStore
  <2>1. pc = "claim" /\ exec[cur] \notin Live /\ ~item[cur].held /\ cur \in Items
    BY <1>4, PreparingFacts DEF ClaimItem, At, Live
  <2>2. At("claim") /\ Goto("discard") /\ UNCHANGED <<exec, files>> /\ UNCHANGED item
    <3>1. ~Claim(cur, slot)
      <4> SUFFICES ASSUME Claim(cur, slot) PROVE FALSE
        OBVIOUS
      <4>1. slot \in Gpus
        BY <2>1 DEF ServiceInv, PointInv
      <4>2. item'[cur].held
        BY <4>1, <1>0, <2>1, ClaimTakes
      <4> QED
        BY <4>2, <2>1, <1>4, <1>1
    <3> QED
      BY <3>1, <1>4, <1>1 DEF ClaimItem, NoEnv, envVars
  <2>3. LaunchInv'
    BY <2>1, <2>2 DEF Goto, LaunchInv
  <2>4. ControlInv'
    BY <2>1, <2>2, <2>3, <1>3
  <2> QED
    BY <1>4, <2>2, <2>4, <1>1, QuietMoved DEF Goto
<1>5. CASE Discard
  <2>1. cur \in Items /\ exec[cur] \notin Live /\ pc = "discard"
    BY <1>5 DEF Discard, ServiceInv, PointInv, CurInv
  <2>2. CASE RecordWorktreeCleanup(cur, TRUE) /\ NextGpu
    <3>1. SetsTree(cur, "removed")
      BY <2>1, <2>2, <1>0, TreeEffect
    <3>2. ControlInv' /\ UNCHANGED <<todo, pass>>
      BY <2>1, <2>2, NextGpuMove
    <3> QED
      BY <2>1, <3>1, <3>2, EffectMoved
  <2>3. CASE RecordWorktreeCleanup(cur, FALSE) /\ Goto("discarded") /\ UNCHANGED slot
             /\ UNCHANGED avail
    <3>1. SetsTree(cur, "failed")
      BY <2>1, <2>3, <1>0, TreeEffect
    <3>2. LaunchInv'
      BY <2>3 DEF Goto, LaunchInv
    <3>3. ControlInv'
      BY <1>5, <2>1, <2>3, <3>2, <1>3 DEF Discard, At, NoEnv, envVars
    <3> QED
      BY <2>1, <2>3, <3>1, <3>3, EffectMoved DEF Goto
  <2> QED
    BY <1>5, <2>2, <2>3 DEF Discard
<1>6. CASE Discarded
  <2>1. ControlInv' /\ UNCHANGED <<todo, pass>>
    BY <1>6, NextGpuMove DEF Discarded
  <2>2. UNCHANGED <<item, requests>>
    BY <1>6 DEF Discarded, QuarantineProject, yieldVars
  <2> QED
    BY <2>1, <2>2, QuietMoved
<1>7. CASE Spawn /\ UNCHANGED exec
  <2>1. pc = "spawn" /\ exec[cur] = "none" /\ files[cur] = NoFiles /\ cur \in Items
    BY <1>7 DEF Spawn, At, ServiceInv, CurInv, PointInv
  <2>2. Goto("launchFailed") /\ "launch" \in Faults
    <3>1. exec # [exec EXCEPT ![cur] = "booting"]
      BY <2>1 DEF ServiceInv, ServiceTypeOK
    <3> QED
      BY <1>7, <2>1, <3>1, SMT DEF Spawn, NoFiles
  <2>3. LaunchInv'
    BY <2>2 DEF LaunchInv
  <2>4. UNCHANGED <<item, requests>>
    BY <1>7, <1>1 DEF Spawn
  <2>5. ControlInv'
    BY <1>7, <2>1, <2>2, <2>3, <2>4, <1>3 DEF Spawn, Live
  <2> QED
    BY <2>2, <2>4, <2>5, QuietMoved DEF Goto
<1>8. CASE Await
  <2>1. UNCHANGED <<item, requests>> /\ UNCHANGED <<exec, files>>
    BY <1>8, <1>1 DEF Await, NoEnv, envVars
  <2>2. PICK q \in {"record", "stop"} : Goto(q)
    BY <1>8 DEF Await
  <2>3. LaunchInv'
    BY <1>8, <2>1 DEF Await, At, Goto, LaunchInv, ServiceInv, Forked
  <2>4. ControlInv'
    BY <1>8, <2>1, <2>2, <2>3, <1>3 DEF Await
  <2> QED
    BY <2>1, <2>2, <2>4, QuietMoved DEF Goto
<1>9. CASE Stop /\ UNCHANGED <<exec, using>>
  <2>1. CASE Goto("launchFailed") /\ NoStore /\ exec' = [exec EXCEPT ![cur] = "gone"]
    <3>1. pc = "stop" /\ cur \in Items
      BY <1>9, <1>2 DEF Stop
    <3>2. exec[cur] = "gone"
      BY <1>9, <2>1, <3>1 DEF ServiceInv, ServiceTypeOK
    <3>3. LaunchInv'
      BY <3>1 DEF ServiceInv, LaunchInv
    <3>4. ControlInv'
      BY <1>9, <2>1, <3>1, <3>2, <3>3, <1>1, <1>3 DEF Stop, At, Live, NextGpu, Goto
    <3> QED
      BY <2>1, <3>4, <1>1, QuietMoved DEF Goto
  <2>2. CASE PauseHost /\ NextGpu
    BY <1>9, <2>2, NextGpuMoved DEF Stop
  <2> QED
    BY <1>9, <2>1, <2>2 DEF Stop
<1>10. CASE RecordLaunch
  <2>1. cur \in Items /\ pc = "record"
    BY <1>10, <1>2 DEF RecordLaunch
  <2>2. Launches(cur)
    BY <1>10, <2>1, <1>0, LaunchEffect DEF RecordLaunch
  <2>3. ControlInv' /\ UNCHANGED <<todo, pass>>
    BY <1>10, <2>1, NextGpuMove DEF RecordLaunch
  <2> QED
    BY <2>1, <2>2, <2>3, EffectMoved
<1>11. CASE LaunchFailed
  <2>1. cur \in Items /\ pc = "launchFailed" /\ exec[cur] \notin Live
    BY <1>11 DEF LaunchFailed, At, ServiceInv, PointInv, CurInv
  <2>2. Ends(cur)
    BY <1>11, <2>1, <1>0, EndEffect DEF LaunchFailed
  <2>3. LaunchInv'
    BY <2>1 DEF ServiceInv, LaunchInv
  <2>4. ControlInv'
    BY <1>11, <2>1, <2>3, <1>3 DEF LaunchFailed, NoEnv, envVars
  <2> QED
    BY <1>11, <2>1, <2>2, <2>4, EffectMoved DEF LaunchFailed, Goto
<1>12. CASE LaunchPause
  <2>1. cur \in Items /\ pc = "launchPause" /\ exec[cur] \notin Live
    BY <1>12 DEF LaunchPause, At, ServiceInv, PointInv, CurInv
  <2>2. LaunchInv'
    BY <2>1 DEF ServiceInv, LaunchInv
  <2>3. ControlInv'
    BY <1>12, <2>1, <2>2, <1>3 DEF LaunchPause, NoEnv, envVars
  <2> QED
    BY <1>12, <2>3, <1>1, QuietMoved DEF LaunchPause, Goto
<1> QED
  BY <1>4, <1>5, <1>6, <1>7, <1>8, <1>9, <1>10, <1>11, <1>12

-------------------------------------------------------------------------------
(***************************************************************************)
(* Types.                                                                  *)
(***************************************************************************)

AllPoints == Handling \cup Recovering \cup Dispatching \cup Resting \cup Passes

\* ServiceTypeOK in three parts: control, process and environment.
ControlType ==
    /\ pc \in AllPoints
    /\ pass \in Passes \cup {"dispatch"}
    /\ todo \subseteq Items
    /\ seen \in [Items -> States]
    /\ cur \in Items \cup {NoItem}
    /\ proof \in BOOLEAN
    /\ avail \subseteq Gpus
    /\ slot \in Gpus \cup {NoGpu}
ProcType ==
    /\ procs \subseteq Items
    /\ locks \subseteq Gpus
    /\ foreign \subseteq Gpus \ locks
EnvType ==
    /\ exec \in [Items -> {"none", "booting", "alive", "closing", "gone"}]
    /\ files \in [Items -> [launch : BOOLEAN, exit : {"none", "ok", "fail"},
                            yield : {"none", "ready", "failed"}]]
    /\ using \subseteq Items \X Gpus
    /\ crashes \in 0 .. MaxCrashes

LEMMA TypeParts == ServiceTypeOK <=> ControlType /\ ProcType /\ EnvType
<1> USE DEF AllPoints, Handling, Recovering, Dispatching, Preparing, Launching,
        Discarding, Resting, Passes
<1>1. ServiceTypeOK => ControlType
  BY SMT DEF ServiceTypeOK, ControlType
<1>2. ServiceTypeOK => ProcType /\ EnvType
  BY DEF ServiceTypeOK, ProcType, EnvType
<1>3. ControlType /\ ProcType /\ EnvType => ServiceTypeOK
  BY SMT DEF ServiceTypeOK, ControlType, ProcType, EnvType
<1> QED
  BY <1>1, <1>2, <1>3

LEMMA PartsTyped ==
    ASSUME ControlType', ProcType', EnvType'
    PROVE  ServiceTypeOK'
BY SMT DEF ServiceTypeOK, ControlType, ProcType, EnvType, AllPoints, Handling, Recovering,
     Dispatching, Preparing, Launching, Discarding, Resting, Passes

LEMMA GotoTyped ==
    ASSUME ControlType, NEW p \in AllPoints, Goto(p), UNCHANGED <<avail, slot>>
    PROVE  ControlType'
BY DEF ControlType, Goto

LEMMA DoneTyped ==
    ASSUME ControlType, Done, UNCHANGED <<avail, slot>>
    PROVE  ControlType'
BY DEF ControlType, Done, AllPoints, Resting

LEMMA PickTyped ==
    ASSUME ControlType, NEW i \in Items, NEW p \in AllPoints, Pick(i, p),
           UNCHANGED <<avail, slot>>
    PROVE  ControlType'
BY DEF ControlType, Pick

LEMMA StartPassTyped ==
    ASSUME RowInv, ControlType, NEW p \in Passes, NEW items \in SUBSET Items,
           StartPass(p, items), UNCHANGED <<avail, slot>>
    PROVE  ControlType'
<1>1. \A i \in Items : StateOf(i) \in States
  BY DEF RowInv, TypeOK, Row, StateOf
<1>2. seen' \in [Items -> States]
  BY <1>1 DEF StartPass, States
<1> QED
  BY <1>2 DEF ControlType, StartPass, AllPoints, Passes

LEMMA ExitTyped ==
    ASSUME ControlType, Exit, avail' \subseteq Gpus, slot' \in Gpus \cup {NoGpu}
    PROVE  ControlType'
BY DEF ControlType, Exit, AllPoints, Passes, Resting, States

LEMMA NextGpuTyped ==
    ASSUME ControlType, NextGpu \/ Sleep
    PROVE  ControlType'
BY DEF ControlType, NextGpu, Sleep, AllPoints, Resting

\* Host locks: taken when free, given back, or lost with the process.
LEMMA LockTyped ==
    ASSUME ProcType, UNCHANGED foreign, NEW g,
           \/ UNCHANGED <<procs, locks>>
           \/ g \in Gpus /\ Lock(g) /\ UNCHANGED procs
           \/ Unlock(g) /\ procs' \subseteq procs
           \/ Exit
    PROVE  ProcType'
BY DEF ProcType, Lock, Unlock, Exit

LEMMA FinishTyped ==
    ASSUME ServiceInv, FinishStep
    PROVE  ControlType' /\ ProcType'
<1> USE DEF AllPoints, Handling
<1>0. ControlType /\ ProcType
  BY TypeParts DEF ServiceInv
<1>1. UNCHANGED foreign
  BY DEF FinishStep, FinishStart, Finalize, Complete, FinalizeYield, Requeue,
       IsolateEnded, Decline, Reject, Isolation, Isolate, Fail, Quarantine, Release,
       Cleanup, Spoiled, NoEnv, envVars
<1>2. UNCHANGED <<avail, slot>>
  BY DEF FinishStep, FinishStart, Finalize, Complete, FinalizeYield, Requeue,
       IsolateEnded, Decline, Reject, Isolation, Isolate, Fail, Quarantine, Release,
       Cleanup, Spoiled, At
<1>3. NoProc => ProcType'
  BY <1>0, <1>1, LockTyped DEF NoProc, procVars
<1>4. ASSUME NEW q \in Handling, Goto(q)
      PROVE  ControlType'
  BY <1>0, <1>2, <1>4, GotoTyped
<1>5. ASSUME Exit
      PROVE  ControlType' /\ ProcType'
  BY <1>0, <1>1, <1>2, <1>5, ExitTyped, LockTyped DEF ControlType
<1>6. ASSUME NEW q \in Handling, pc \in {"finish", "gate"}, RequireIdle(gpuOf(cur), q)
      PROVE  ControlType' /\ ProcType'
  <2>1. gpuOf(cur) \in Gpus
    BY <1>6 DEF ServiceInv, PointInv
  <2>2. Lock(gpuOf(cur)) /\ UNCHANGED procs
    BY <1>6 DEF RequireIdle
  <2>3. ProcType'
    BY <1>0, <1>1, <2>1, <2>2, LockTyped
  <2>4. Done \/ (pc' = q /\ proof' = TRUE /\ UNCHANGED <<pass, todo, seen, cur>>)
    BY <1>6 DEF RequireIdle
  <2>5. ControlType'
    BY <1>0, <1>2, <2>4, DoneTyped DEF ControlType
  <2> QED
    BY <2>3, <2>5
<1>7. ASSUME NEW g, Finished(g)
      PROVE  ControlType' /\ ProcType'
  BY <1>0, <1>1, <1>2, <1>7, DoneTyped, LockTyped DEF Finished
<1>8. CASE FinishStart
  BY <1>8, <1>3, <1>4, <1>6 DEF FinishStart, At
<1>9. CASE Finalize \/ Complete \/ FinalizeYield
  BY <1>9, <1>3, <1>4 DEF Finalize, Complete, FinalizeYield
<1>10. CASE Requeue \/ IsolateEnded \/ Decline \/ Reject
  BY <1>10, <1>3, <1>4 DEF Requeue, IsolateEnded, Decline, Reject
<1>11. CASE Isolation
  <2>1. PICK q \in {"gate", "isolate", "fail"} : Goto(q)
    BY <1>11 DEF Isolation
  <2> QED
    BY <1>11, <2>1, <1>3, <1>4 DEF Isolation
<1>12. CASE Isolate \/ Fail \/ Quarantine
  BY <1>12, <1>3, <1>4, <1>5 DEF Isolate, Fail, Quarantine
<1>13. CASE Release
  BY <1>13, <1>3, <1>4, <1>5, <1>6 DEF Release, At
<1>14. CASE Cleanup
  BY <1>14, <1>3, <1>4, <1>7 DEF Cleanup
<1>15. CASE Spoiled
  BY <1>15, <1>0, <1>2, <1>3, <1>7, DoneTyped DEF Spoiled
<1> QED
  BY <1>8, <1>9, <1>10, <1>11, <1>12, <1>13, <1>14, <1>15 DEF FinishStep

LEMMA PassTyped ==
    ASSUME ServiceInv, PassStep
    PROVE  ControlType' /\ ProcType'
<1> USE DEF AllPoints, Handling, Recovering, Resting, Passes
<1>0. ControlType /\ ProcType /\ RowInv
  BY TypeParts DEF ServiceInv, LeaseInv
<1>1. UNCHANGED <<foreign, procs, locks, avail, slot>>
  BY DEF PassStep, VisitLocal, FinishLocal, VisitRestarted, VisitPending, VisitOrphan,
       BeginIteration, LocalDone, RestartDone, PendingDone, OrphanDone, Reservations,
       Dependencies, NoEnv, envVars, NoProc, procVars, At
<1>2. ProcType'
  BY <1>0, <1>1 DEF ProcType
<1>3. ASSUME NEW i \in Items, VisitLocal(i)
      PROVE  ControlType'
  BY <1>0, <1>1, <1>3, SMT DEF VisitLocal, ControlType
<1>4. ASSUME NEW i \in Items, FinishLocal(i) \/ VisitRestarted(i) \/ VisitPending(i)
      PROVE  ControlType'
  BY <1>0, <1>1, <1>4, PickTyped DEF FinishLocal, VisitRestarted, VisitPending
<1>5. ASSUME NEW i \in Items, VisitOrphan(i)
      PROVE  ControlType'
  <2>1. CASE Pick(i, "spoiled")
    BY <1>0, <1>1, <2>1, PickTyped
  <2>2. CASE todo' = todo \ {i} /\ UNCHANGED <<pc, pass, seen, cur, proof>>
    BY <1>0, <1>1, <2>2, ZenonT(40) DEF ControlType
  <2> QED
    BY <1>5, <2>1, <2>2 DEF VisitOrphan
<1>6. CASE BeginIteration
  BY <1>6, <1>0, <1>1, <1>2, StartPassTyped DEF BeginIteration, ProcType
<1>7. CASE LocalDone \/ RestartDone \/ PendingDone
  BY <1>7, <1>0, <1>1, <1>2, StartPassTyped DEF LocalDone, RestartDone, PendingDone
<1>8. CASE OrphanDone \/ Reservations \/ Dependencies
  BY <1>8, <1>0, <1>1, <1>2, GotoTyped DEF OrphanDone, Reservations, Dependencies
<1> QED
  BY <1>2, <1>3, <1>4, <1>5, <1>6, <1>7, <1>8 DEF PassStep

LEMMA RestartTyped ==
    ASSUME ServiceInv, RestartStep
    PROVE  ControlType' /\ ProcType'
<1> USE DEF AllPoints, Handling, Recovering
<1>0. ControlType /\ ProcType /\ RowInv
  BY TypeParts DEF ServiceInv, LeaseInv
<1>1. pc \in Recovering /\ UNCHANGED <<foreign, avail, slot>>
  BY DEF RestartStep, Adopt, Adopted, Inspect, CheckAlive, Contended, NoEnv, envVars, At
<1>2. cur \in Items /\ gpuOf(cur) \in Gpus
  BY <1>1 DEF ServiceInv, PointInv
<1>3. Lock(gpuOf(cur)) /\ UNCHANGED procs => ProcType'
  BY <1>0, <1>1, <1>2, LockTyped
<1>4. NoProc => ProcType'
  BY <1>0, <1>1, LockTyped DEF NoProc, procVars
<1>5. ASSUME NEW q \in Handling \cup Recovering, Goto(q)
      PROVE  ControlType'
  BY <1>0, <1>1, <1>5, GotoTyped
<1>6. Done => ControlType'
  BY <1>0, <1>1, DoneTyped
<1>7. CASE Adopt \/ CheckAlive \/ Contended
  BY <1>7, <1>3, <1>4, <1>5, <1>6 DEF Adopt, CheckAlive, Contended, PauseAmbiguous
<1>8. CASE Adopted
  <2>1. StateOf(cur) \in States
    BY <1>0, <1>2 DEF RowInv, TypeOK, Row, StateOf
  <2> QED
    BY <1>8, <2>1, <1>0, <1>1, <1>4 DEF Adopted, ControlType
<1>9. CASE Inspect
  <2>1. CASE RequireIdle(gpuOf(cur), "finalize")
    <3>1. /\ Lock(gpuOf(cur)) /\ UNCHANGED procs
          /\ Done \/ (pc' = "finalize" /\ proof' = TRUE
                      /\ UNCHANGED <<pass, todo, seen, cur>>)
      BY <2>1 DEF RequireIdle
    <3> QED
      BY <3>1, <1>0, <1>1, <1>3, <1>6 DEF ControlType
  <2> QED
    BY <1>9, <2>1, <1>4, <1>5 DEF Inspect
<1> QED
  BY <1>7, <1>8, <1>9 DEF RestartStep

LEMMA DispatchTyped ==
    ASSUME ServiceInv, DispatchStep
    PROVE  ControlType' /\ ProcType'
<1> USE DEF AllPoints, Dispatching, Preparing, Launching, Discarding, Resting
<1>0. ControlType /\ ProcType
  BY TypeParts DEF ServiceInv
<1>1. UNCHANGED foreign
  BY DEF DispatchStep, BeginDispatch, Offer, LockGpu, Prepare, Unprepare, Unprepared,
       ClaimItem, Discard, Discarded, Spawn, Await, Stop, RecordLaunch, LaunchFailed,
       LaunchPause, NoEnv, envVars
<1>2. NoProc => ProcType'
  BY <1>0, <1>1, LockTyped DEF NoProc, procVars
<1>3. ASSUME NEW q \in AllPoints, Goto(q), UNCHANGED <<avail, slot>>
      PROVE  ControlType'
  BY <1>0, <1>3, GotoTyped
<1>4. NextGpu \/ Sleep => ControlType'
  BY <1>0, NextGpuTyped
<1>5. Unlock(slot) /\ UNCHANGED procs => ProcType'
  BY <1>0, <1>1, LockTyped
<1>6. CASE BeginDispatch
  BY <1>6, <1>0, <1>2, <1>4 DEF BeginDispatch, ControlType
<1>7. CASE Offer
  <2>1. CASE Sleep
    BY <1>7, <2>1, <1>2, <1>4 DEF Offer
  <2>2. CASE /\ \E g \in avail : avail' = avail \ {g}
             /\ UNCHANGED <<pc, pass, todo, seen, cur, proof, slot>>
    BY <1>7, <2>2, <1>0, <1>2 DEF Offer, ControlType
  <2>3. CASE \E g \in avail, i \in HeadCandidates :
                /\ avail' = avail \ {g} /\ cur' = i /\ slot' = g /\ pc' = "lock"
                /\ UNCHANGED <<pass, todo, seen, proof>>
    BY <1>7, <2>3, <1>0, <1>2 DEF Offer, ControlType, HeadCandidates
  <2> QED
    BY <1>7, <2>1, <2>2, <2>3 DEF Offer
<1>8. CASE LockGpu
  <2>1. slot \in Gpus
    BY <1>8 DEF LockGpu, ServiceInv, PointInv
  <2>2. Lock(slot) /\ UNCHANGED procs => ProcType'
    BY <2>1, <1>0, <1>1, LockTyped
  <2>3. UNCHANGED <<procs, locks>> => ProcType'
    BY <1>0, <1>1, LockTyped
  <2> QED
    BY <1>8, <2>2, <2>3, <1>3, <1>4, <1>5 DEF LockGpu
<1>9. CASE Prepare \/ Unprepare \/ ClaimItem \/ Spawn \/ Await \/ LaunchFailed
           \/ LaunchPause
  BY <1>9, <1>2, <1>3 DEF Prepare, Unprepare, ClaimItem, Spawn, Await, LaunchFailed,
       LaunchPause, At
<1>10. CASE Unprepared \/ Discard \/ Discarded \/ Stop
  BY <1>10, <1>2, <1>3, <1>4, <1>5 DEF Unprepared, Discard, Discarded, Stop
<1>11. CASE RecordLaunch
  <2>1. cur \in Items
    BY <1>11 DEF RecordLaunch, ServiceInv, PointInv
  <2> QED
    BY <1>11, <2>1, <1>0, <1>1, <1>4 DEF RecordLaunch, ProcType
<1> QED
  BY <1>6, <1>7, <1>8, <1>9, <1>10, <1>11 DEF DispatchStep

-------------------------------------------------------------------------------
(***************************************************************************)
(* Executors, operators, and the steps that start or stop an executor.     *)
(***************************************************************************)

\* A steady step of the scheduler keeps the invariant.
LEMMA MovedInv ==
    ASSUME ServiceInv, LeaseInv', Moved, ControlType', ProcType',
           UNCHANGED <<exec, files, using>>, crashes' \in 0 .. MaxCrashes,
           \A i \in procs' : i \in procs \/ gpuOf(i) \in Gpus
    PROVE  ServiceInv'
<1>1. LeaseInv'
  OBVIOUS
<1>2. ServiceTypeOK'
  <2>1. EnvType'
    BY DEF ServiceInv, ServiceTypeOK, EnvType
  <2> QED
    BY <2>1, PartsTyped
<1>3. (\A i \in Items : ItemInv(i)') /\ NoYield'
  BY SteadyItems DEF Moved
<1>4. NoDetached'
  BY DEF ServiceInv, NoDetached
<1>5. ASSUME LeaseCoversWork
      PROVE  LeaseCoversWork'
  <2>1. CASE KeepLeases
    BY <1>5, <2>1 DEF LeaseCoversWork, KeepLeases, SameLease
  <2>2. CASE Drops(cur) /\ proof /\ cur \in Items
    <3>1. \A g \in Gpus : <<cur, g>> \notin using
      BY <1>5, <2>2 DEF LeaseCoversWork, ServiceInv, ProofInv, Busy, gpuOf, Drops
    <3> QED
      BY <1>5, <2>2, <3>1, ZenonT(40) DEF LeaseCoversWork, Drops, SamePlace, Others
  <2> QED
    BY <2>1, <2>2 DEF Moved
<1>6. CoverInv'
  BY <1>5 DEF ServiceInv, CoverInv
<1> QED
  BY <1>1, <1>2, <1>3, <1>4, <1>6 DEF ServiceInv, Moved, ControlInv

\* An operator's command finds the scheduler anywhere: what it relies on stays.
LEMMA CommandInv ==
    ASSUME ServiceInv, LeaseInv', OperatorCommand
    PROVE  ServiceInv'
<1>0. Calm /\ UNCHANGED <<control, procVars, envVars>>
  BY CommandEffect DEF ServiceInv, LeaseInv, OperatorCommand
<1>1. /\ UNCHANGED <<pc, pass, todo, seen, cur, proof, avail, slot>>
      /\ UNCHANGED <<procs, locks, exec, files, using, foreign, crashes>>
  BY <1>0 DEF control, procVars, envVars
<1>2. Steady /\ KeepLeases /\ TodoInv'
  BY <1>0, <1>1, CalmSteady, SteadyTodo DEF Calm, CalmRow, KeepLeases, SameLease
<1>3. ASSUME cur \in Items
      PROVE  CalmRow(cur)
  BY <1>0, <1>3 DEF Calm
<1> USE DEF Handling, Closing, Recovering, Dispatching, Preparing, Launching,
        Discarding, Resting, Passes
<1>4. pc \in Handling \cup Recovering \cup Dispatching => cur \in Items
  BY DEF ServiceInv, PointInv
<1>5. PointInv'
  BY <1>1, <1>3, <1>4, ZenonT(40) DEF ServiceInv, PointInv, CalmRow, gpuOf
<1>6. CurInv'
  BY <1>1, <1>3, <1>4, ZenonT(40) DEF ServiceInv, CurInv, CalmRow, StateOf, HasTree, Pending
<1>7. ProofInv'
  <2>1. proof => cur \in Items
    BY <1>4 DEF ServiceInv, PointInv
  <2> QED
    BY <1>1, <1>3, <2>1 DEF ServiceInv, ProofInv, CalmRow, gpuOf, Busy
<1>8. LocalInv'
  <2>1. pc \in Handling /\ files[cur].yield # "none" =>
          <<cur, item[cur].segment>> \in requests
    BY <1>4 DEF ServiceInv, ItemInv
  <2>2. ASSUME pc \in Handling, item'[cur].state = "yielding"
        PROVE  \/ item[cur].state = "yielding"
               \/ <<cur, item[cur].segment>> \notin requests
    BY <1>3, <1>4, <2>2 DEF CalmRow, Pending
  <2> HIDE DEF Handling
  <2> QED
    BY <1>1, <2>1, <2>2 DEF ServiceInv, LocalInv, StateOf
<1>9. LaunchInv'
  BY <1>1, <1>3, <1>4 DEF ServiceInv, LaunchInv, CalmRow
<1>10. Moved
  BY <1>2, <1>5, <1>6, <1>7, <1>8, <1>9 DEF Moved, ControlInv
<1>11. ControlType' /\ ProcType'
  <2>1. ControlType /\ ProcType
    BY TypeParts DEF ServiceInv
  <2> QED
    BY <2>1, <1>1 DEF ControlType, ProcType
<1>12. crashes' \in 0 .. MaxCrashes
  BY <1>1 DEF ServiceInv, ServiceTypeOK
<1> QED
  BY <1>1, <1>10, <1>11, <1>12, MovedInv

\* The resolution of an abandoned launch ends a row without executor, under the
\* host lock of an idle GPU.
LEMMA ResolveInv ==
    ASSUME ServiceInv, LeaseInv', NEW i \in Items, ResolveAbandoned(i)
    PROVE  ServiceInv'
<1> USE DEF Handling, Closing, Recovering, Dispatching, Preparing, Launching,
        Discarding, Resting, Passes
<1>0. /\ pc = "down" /\ todo = {} /\ exec[i] \notin Live
      /\ pc' = "gate" /\ pass' = "resolve" /\ cur' = i /\ proof'
      /\ UNCHANGED <<todo, seen, procs, avail, slot>>
      /\ UNCHANGED <<exec, files, using, foreign, crashes>>
  BY DEF ResolveAbandoned, At, ServiceInv, PointInv, Forked, Live, NoEnv, envVars
<1>1. /\ ResolveAbandonedLaunch(i, gpuOf(i), item[i].launched)
      /\ CanLock(gpuOf(i)) /\ ~Busy(gpuOf(i)) /\ Lock(gpuOf(i))
      /\ StateOf(i) \in Active
  BY DEF ResolveAbandoned, ResolveAbandonedLaunch
<1>2. gpuOf(i) \in Gpus
  BY <1>1, HeldGpu
<1>3. Ends(i)
  <2>1. RowInv
    BY DEF ServiceInv, LeaseInv
  <2> QED
    BY <2>1, <1>1, EndEffect
<1>4. item'[i].gpu = item[i].gpu
  BY <1>3 DEF Ends, SameTreeAndLease, SamePlace
<1>5. Steady /\ KeepLeases
  BY <1>0, <1>3, EffectSteady, EffectLeases
<1>6. TodoInv'
  BY <1>0 DEF TodoInv
<1>7. PointInv'
  BY <1>0, <1>2, <1>4 DEF PointInv, gpuOf
<1>8. CurInv' /\ LocalInv' /\ LaunchInv'
  BY <1>0 DEF CurInv, LocalInv, LaunchInv
<1>9. ProofInv'
  BY <1>0, <1>1, <1>4 DEF ProofInv, gpuOf, CanLock, Lock, Busy
<1>10. Moved
  BY <1>5, <1>6, <1>7, <1>8, <1>9 DEF Moved, ControlInv
<1>11. ControlType' /\ ProcType'
  <2>1. ControlType /\ ProcType
    BY TypeParts DEF ServiceInv
  <2>2. ControlType'
    BY <2>1, <1>0 DEF ControlType, AllPoints
  <2>3. ProcType'
    BY <2>1, <1>0, <1>1, <1>2, LockTyped
  <2> QED
    BY <2>2, <2>3
<1>12. crashes' \in 0 .. MaxCrashes
  BY <1>0 DEF ServiceInv, ServiceTypeOK
<1> QED
  BY <1>0, <1>10, <1>11, <1>12, MovedInv

\* How an executor, its job and its evidence may move on by themselves.
Advances(i) ==
    /\ exec'[i] \in Live => exec[i] \in Live
    /\ exec[i] = "none" => exec'[i] = "none" /\ files'[i] = files[i]
    /\ files'[i].exit # "none" => exec'[i] \in {"closing", "gone"}
    /\ files[i].yield # "none" => files'[i].yield = files[i].yield
    /\ files'[i].yield # files[i].yield =>
         exec[i] = "alive" /\ <<i, item[i].segment>> \in requests
    /\ files[i].launch => files'[i].launch
    /\ exec[i] = "booting" => \/ exec'[i] = "booting"
                              \/ files'[i].launch
                              \/ "die" \in Faults
                              \/ StateOf(i) = "force_killing"

LEMMA AdvancesInv ==
    ASSUME ServiceInv, UNCHANGED storeVars, UNCHANGED control, UNCHANGED procVars,
           \A i \in Items : Advances(i)
    PROVE  /\ \A i \in Items : ItemInv(i)'
           /\ PointInv' /\ TodoInv' /\ CurInv' /\ LocalInv' /\ LaunchInv' /\ NoYield'
<1>0. /\ UNCHANGED <<item, requests, pc, pass, todo, cur, proof, slot, procs>>
  BY DEF storeVars, control, procVars
<1>1. ASSUME NEW i \in Items
      PROVE  ItemInv(i)'
  <2>1. ItemInv(i) /\ Advances(i)
    BY DEF ServiceInv
  <2> QED
    BY <2>1, <1>0 DEF ItemInv, Advances, StateOf, HasTree, gpuOf, Live
<1>2. PointInv'
  BY <1>0 DEF ServiceInv, PointInv, gpuOf
<1>3. TodoInv' /\ NoYield'
  BY <1>0 DEF ServiceInv, TodoInv, NoYield, gpuOf, StateOf
<1>4. pc \in Handling \cup Recovering \cup Dispatching => cur \in Items /\ Advances(cur)
  BY DEF ServiceInv, PointInv
<1> USE DEF Handling, Recovering, Dispatching, Preparing, Launching, Discarding
<1>5. CurInv'
  BY <1>0, <1>4 DEF ServiceInv, CurInv, Advances, StateOf, HasTree
<1>6. LocalInv'
  <2>1. pc \in Handling => exec[cur] # "alive"
    BY DEF ServiceInv, CurInv, Live
  <2>2. pc \in Handling => files'[cur].yield = files[cur].yield
    BY <2>1, <1>4 DEF Advances
  <2> HIDE DEF Handling
  <2> QED
    BY <1>0, <2>2 DEF ServiceInv, LocalInv, StateOf
<1>7. LaunchInv'
  <2>1. pc = "await" => StateOf(cur) = "starting"
    BY DEF ServiceInv, CurInv
  <2> QED
    BY <1>0, <1>4, <2>1 DEF ServiceInv, LaunchInv, Advances
<1> QED
  BY <1>1, <1>2, <1>3, <1>5, <1>6, <1>7

\* What an executor's own step does.
LEMMA ExecutorEffect ==
    ASSUME ServiceInv, NEW i \in Items, ExecutorStep(i)
    PROVE  /\ EnvType'
           /\ \A j \in Items : Advances(j)
           /\ \A u \in using' : u \in using \/ (exec[i] = "alive" /\ u = <<i, gpuOf(i)>>)
           /\ NoDetached'
<1>0. /\ exec \in [Items -> {"none", "booting", "alive", "closing", "gone"}]
      /\ files \in [Items -> [launch : BOOLEAN, exit : {"none", "ok", "fail"},
                              yield : {"none", "ready", "failed"}]]
      /\ using \subseteq Items \X Gpus
      /\ crashes \in 0 .. MaxCrashes
  BY DEF ServiceInv, ServiceTypeOK
<1>1. \A j \in Items : ItemInv(j)
  BY DEF ServiceInv
<1>2. NoDetached
  BY DEF ServiceInv
<1>3. UNCHANGED <<item, requests, crashes>>
  BY DEF ExecutorStep, ExecutorStarts, WorkEnters, WorkLeaves, JobYields,
       ExecutorPublishes, ExecutorLeaves, ExecutorDies, OnlyEnv, storeVars
<1> USE DEF EnvType, Live
<1>4. CASE ExecutorStarts(i)
  <2>1. /\ exec[i] = "booting"
        /\ exec' = [exec EXCEPT ![i] = "alive"]
        /\ files' = [files EXCEPT ![i].launch = TRUE]
        /\ using' = using
    BY <1>4 DEF ExecutorStarts
  <2>2. files' = [files EXCEPT ![i] = [files[i] EXCEPT !.launch = TRUE]]
    BY <2>1
  <2>3. EnvType'
    BY <2>1, <2>2, <1>0, <1>3
  <2>4. \A j \in Items : Advances(j)
    BY <2>1, <2>2, <1>0, <1>1, SMT DEF Advances, ItemInv
  <2>5. NoDetached'
    BY <2>1, <1>0, <1>2 DEF NoDetached
  <2> QED
    BY <2>1, <2>3, <2>4, <2>5
<1>5. CASE WorkEnters(i)
  <2>1. /\ exec[i] = "alive" /\ UNCHANGED <<exec, files>>
        /\ using' = using \cup {<<i, gpuOf(i)>>}
    BY <1>5 DEF WorkEnters
  <2>2. gpuOf(i) \in Gpus
    <3>1. StateOf(i) \in Active
      BY <2>1, <1>1 DEF ItemInv
    <3> QED
      BY <3>1, HeldGpu
  <2>3. EnvType'
    BY <2>1, <2>2, <1>0, <1>3, SMT
  <2>4. \A j \in Items : Advances(j)
    BY <2>1, <1>1 DEF Advances, ItemInv
  <2>5. NoDetached'
    BY <2>1, <1>2 DEF NoDetached
  <2> QED
    BY <2>1, <2>3, <2>4, <2>5
<1>6. ASSUME NEW g \in Gpus, WorkLeaves(i, g)
      PROVE  /\ EnvType'
             /\ \A j \in Items : Advances(j)
             /\ \A u \in using' : u \in using
             /\ NoDetached'
  <2>1. UNCHANGED <<exec, files>> /\ using' \subseteq using
    BY <1>6 DEF WorkLeaves
  <2>2. EnvType'
    BY <2>1, <1>0, <1>3
  <2>3. \A j \in Items : Advances(j)
    BY <2>1, <1>1 DEF Advances, ItemInv
  <2>4. NoDetached'
    BY <2>1, <1>2 DEF NoDetached
  <2> QED
    BY <2>1, <2>2, <2>3, <2>4
<1>7. ASSUME NEW status \in {"ready", "failed"}, JobYields(i, status)
      PROVE  /\ EnvType'
             /\ \A j \in Items : Advances(j)
             /\ \A u \in using' : u \in using
             /\ NoDetached'
  <2>1. /\ exec[i] = "alive" /\ <<i, item[i].segment>> \in requests
        /\ files[i].yield = "none"
        /\ files' = [files EXCEPT ![i].yield = status]
        /\ UNCHANGED <<exec, using>>
    BY <1>7 DEF JobYields
  <2>2. files' = [files EXCEPT ![i] = [files[i] EXCEPT !.yield = status]]
    BY <2>1
  <2>3. EnvType'
    BY <2>1, <2>2, <1>0, <1>3, SMT
  <2>4. \A j \in Items : Advances(j)
    BY <2>1, <2>2, <1>0, <1>1, SMT DEF Advances, ItemInv
  <2>5. NoDetached'
    BY <2>1, <1>2 DEF NoDetached
  <2> QED
    BY <2>1, <2>3, <2>4, <2>5
<1>8. ASSUME JobWorkEnds(i)
      PROVE  /\ using' \subseteq using
             /\ "detached" \notin Faults => \A g \in Gpus : <<i, g>> \notin using'
  BY <1>8 DEF JobWorkEnds
<1>9. ASSUME NEW rc \in {"ok", "fail"}, ExecutorPublishes(i, rc)
      PROVE  /\ EnvType'
             /\ \A j \in Items : Advances(j)
             /\ \A u \in using' : u \in using
             /\ NoDetached'
  <2>1. /\ exec[i] = "alive"
        /\ exec' = [exec EXCEPT ![i] = "closing"]
        /\ files' = [files EXCEPT ![i].exit = rc]
        /\ JobWorkEnds(i)
    BY <1>9 DEF ExecutorPublishes
  <2>2. files' = [files EXCEPT ![i] = [files[i] EXCEPT !.exit = rc]]
    BY <2>1
  <2>3. EnvType'
    BY <2>1, <2>2, <1>0, <1>3, <1>8, SMT
  <2>4. \A j \in Items : Advances(j)
    BY <2>1, <2>2, <1>0, <1>1, SMT DEF Advances, ItemInv
  <2>5. NoDetached'
    BY <2>1, <1>0, <1>2, <1>8 DEF NoDetached
  <2> QED
    BY <2>1, <2>3, <2>4, <2>5, <1>8
<1>10. CASE ExecutorLeaves(i)
  <2>1. /\ exec[i] = "closing"
        /\ exec' = [exec EXCEPT ![i] = "gone"]
        /\ UNCHANGED <<files, using>>
    BY <1>10 DEF ExecutorLeaves
  <2>2. EnvType'
    BY <2>1, <1>0, <1>3
  <2>3. \A j \in Items : Advances(j)
    BY <2>1, <1>0, <1>1 DEF Advances, ItemInv
  <2>4. NoDetached'
    BY <2>1, <1>0, <1>2 DEF NoDetached
  <2> QED
    BY <2>1, <2>2, <2>3, <2>4
<1>11. CASE ExecutorDies(i)
  <2>1. /\ exec[i] \in Live
        /\ "die" \in Faults \/ StateOf(i) = "force_killing"
        /\ exec' = [exec EXCEPT ![i] = "gone"]
        /\ JobWorkEnds(i)
        /\ UNCHANGED files
    BY <1>11 DEF ExecutorDies
  <2>2. EnvType'
    BY <2>1, <1>0, <1>3, <1>8
  <2>3. \A j \in Items : Advances(j)
    BY <2>1, <1>0, <1>1 DEF Advances, ItemInv
  <2>4. NoDetached'
    BY <2>1, <1>0, <1>2, <1>8 DEF NoDetached
  <2> QED
    BY <2>1, <2>2, <2>3, <2>4, <1>8
<1> QED
  BY <1>4, <1>5, <1>6, <1>7, <1>9, <1>10, <1>11 DEF ExecutorStep

LEMMA ExecutorInv ==
    ASSUME ServiceInv, LeaseInv', NEW i \in Items, ExecutorStep(i)
    PROVE  ServiceInv'
<1>0. UNCHANGED <<storeVars, control, procVars, foreign>>
  BY DEF ExecutorStep, ExecutorStarts, WorkEnters, WorkLeaves, JobYields,
       ExecutorPublishes, ExecutorLeaves, ExecutorDies, OnlyEnv
<1>1. LeaseInv'
  OBVIOUS
<1>2. /\ EnvType' /\ NoDetached'
      /\ \A j \in Items : Advances(j)
      /\ \A u \in using' : u \in using \/ (exec[i] = "alive" /\ u = <<i, gpuOf(i)>>)
  BY ExecutorEffect
<1>3. /\ \A j \in Items : ItemInv(j)'
      /\ PointInv' /\ TodoInv' /\ CurInv' /\ LocalInv' /\ LaunchInv' /\ NoYield'
  BY <1>0, <1>2, AdvancesInv
<1>4. ServiceTypeOK'
  <2>1. ControlType /\ ProcType
    BY TypeParts DEF ServiceInv
  <2>2. ControlType' /\ ProcType'
    BY <2>1, <1>0 DEF ControlType, ProcType, control, procVars
  <2> QED
    BY <2>2, <1>2, PartsTyped
<1>5. exec[i] = "alive" => item[i].held
  <2>1. exec[i] = "alive" => StateOf(i) \in Active
    BY DEF ServiceInv, ItemInv, Live
  <2> QED
    BY <2>1, HeldGpu
<1>6. ProofInv'
  <2> SUFFICES ASSUME proof, item[cur].held
               PROVE  gpuOf(cur) \in locks /\ ~\E j \in Items : <<j, gpuOf(cur)>> \in using'
    BY <1>0 DEF ProofInv, storeVars, control, procVars, gpuOf, Busy
  <2>1. cur \in Items /\ exec[cur] # "alive"
    BY DEF ServiceInv, PointInv, CurInv, Live
  <2>2. gpuOf(cur) \in locks /\ ~Busy(gpuOf(cur))
    BY DEF ServiceInv, ProofInv
  <2>3. exec[i] = "alive" => gpuOf(i) # gpuOf(cur)
    BY <2>1, <1>5 DEF ServiceInv, LeaseInv, OneLeasePerGpu, gpuOf
  <2> QED
    BY <2>2, <2>3, <1>2 DEF Busy
<1>7. CoverInv'
  <2>1. ASSUME LeaseCoversWork, NEW j \in Items, NEW g \in Gpus, <<j, g>> \in using'
        PROVE  item[j].held /\ item[j].gpu = g
    BY <2>1, <1>2, <1>5 DEF LeaseCoversWork, gpuOf
  <2>2. item' = item
    BY <1>0 DEF storeVars
  <2> QED
    BY <2>1, <2>2 DEF ServiceInv, CoverInv, LeaseCoversWork
<1> QED
  BY <1>1, <1>2, <1>3, <1>4, <1>6, <1>7 DEF ServiceInv

\* A requeue without idle proof is one of the restart pass: in the local pass
\* the ready answer came before the proof.
LEMMA RequeueIsProven ==
    ASSUME ServiceInv, pc = "requeue", StateOf(cur) = "yielding", ~proof
    PROVE  pass = "restart"
<1>1. pass \in {"local", "restart"}
  BY DEF ServiceInv, PointInv, Handling, Closing
<1> QED
  BY <1>1 DEF ServiceInv, CurInv, LocalInv, Handling

\* The requeue gives up lease, executor and evidence of the segment together.
LEMMA RequeueInv ==
    ASSUME ServiceInv, LeaseInv', Requeue,
           RequeueReadyContinuation(cur, item[cur].segment),
           exec' = [exec EXCEPT ![cur] = "none"],
           files' = [files EXCEPT ![cur] = NoFiles]
    PROVE  ServiceInv'
<1> USE DEF Handling, Closing, Recovering, Dispatching, Preparing, Launching,
        Discarding, Resting, Passes
<1>0. /\ pc = "requeue" /\ cur \in Items /\ exec[cur] \notin Live
      /\ gpuOf(cur) \in Gpus /\ item[cur].segment \in Segments /\ RowInv
  BY DEF Requeue, At, ServiceInv, PointInv, CurInv, ItemInv, LeaseInv
<1>1. /\ exec'[cur] = "none" /\ files'[cur] = NoFiles
      /\ \A i \in Items \ {cur} : exec'[i] = exec[i] /\ files'[i] = files[i]
  BY <1>0, SMT DEF ServiceInv, ServiceTypeOK
<1>2. Requeues(cur)
  BY <1>0, RequeueEffect
<1>3. /\ pc' = "gate" /\ UNCHANGED <<pass, todo, seen, cur, proof, avail, slot>>
      /\ UNCHANGED <<procs, locks, using, foreign, crashes>>
  BY DEF Requeue, At, Goto, NoProc, procVars
<1>4. LeaseInv'
  OBVIOUS
<1>5. ServiceTypeOK'
  BY <1>0, <1>3 DEF ServiceInv, ServiceTypeOK, NoFiles
<1>6. ASSUME NEW i \in Items
      PROVE  ItemInv(i)'
  <2>1. CASE i = cur
    <3>1. exec'[i] = "none" /\ files'[i] = NoFiles
      BY <2>1, <1>1
    <3>2. NoFiles.exit = "none" /\ NoFiles.yield = "none"
      BY DEF NoFiles
    <3>3. item'[i].segment \in Segments
      BY <2>1, <1>0, <1>2 DEF Requeues
    <3>4. i \in procs' => gpuOf(i)' \in Gpus
      BY <2>1, <1>0, <1>2, <1>3 DEF Requeues, gpuOf, ServiceInv, ItemInv
    <3> QED
      BY <3>1, <3>2, <3>3, <3>4 DEF ItemInv, Live
  <2>2. CASE i # cur
    <3>1. exec'[i] = exec[i] /\ files'[i] = files[i] /\ item'[i] = item[i]
      BY <2>2, <1>1, <1>2 DEF Requeues, Others
    <3>2. ItemInv(i) /\ requests' = requests /\ procs' = procs
      BY <1>2, <1>3 DEF ServiceInv, Requeues
    <3> QED
      BY <3>1, <3>2 DEF ItemInv, StateOf, HasTree, gpuOf
  <2> QED
    BY <2>1, <2>2
<1>7. NoYield'
  BY <1>2 DEF ServiceInv, NoYield, StateOf, Requeues, Others
<1>8. PointInv'
  BY <1>0, <1>2, <1>3 DEF ServiceInv, PointInv, Requeues, gpuOf
<1>9. TodoInv'
  <2>1. todo \subseteq Items
    BY DEF ServiceInv, ServiceTypeOK
  <2>2. ASSUME NEW i \in todo
        PROVE  /\ item'[i].gpu = item[i].gpu
               /\ item[i].state \notin Active => item'[i].state \notin Active
               /\ ~item[i].held => ~item'[i].held
    BY <1>2, <2>1 DEF Requeues, Others, Active
  <2> QED
    BY <1>3, <2>2 DEF ServiceInv, TodoInv, StateOf, gpuOf
<1>10. CurInv'
  BY <1>1, <1>3 DEF CurInv, Live
<1>11. ProofInv' /\ LocalInv' /\ LaunchInv'
  BY <1>2, <1>3 DEF ProofInv, LocalInv, LaunchInv, Requeues, StateOf
<1>12. NoDetached'
  BY <1>0, <1>1, <1>3 DEF ServiceInv, NoDetached, Live
<1>13. CoverInv'
  <2> SUFFICES ASSUME "detached" \notin Faults \/ "yield" \notin Commands
               PROVE  LeaseCoversWork'
    BY DEF CoverInv
  <2>1. LeaseCoversWork /\ item[cur].held /\ item[cur].state = "yielding"
    BY <1>2 DEF ServiceInv, CoverInv, Requeues
  <2>2. "detached" \notin Faults
    BY <1>0, <2>1 DEF ServiceInv, NoYield, StateOf
  <2>3. \A g \in Gpus : <<cur, g>> \notin using
    BY <1>0, <2>2 DEF ServiceInv, NoDetached, Live
  <2> QED
    BY <2>1, <2>3, <1>2, <1>3 DEF LeaseCoversWork, Requeues, Others
<1> QED
  BY <1>4, <1>5, <1>6, <1>7, <1>8, <1>9, <1>10, <1>11, <1>12, <1>13 DEF ServiceInv

LEMMA ClaimInv ==
    ASSUME ServiceInv, LeaseInv', ClaimItem, Claim(cur, slot), Goto("spawn")
    PROVE  ServiceInv'
<1> USE DEF Handling, Closing, Recovering, Dispatching, Preparing, Launching,
        Discarding, Resting, Passes
<1>0. /\ pc = "claim" /\ cur \in Items /\ slot \in Gpus /\ todo = {} /\ RowInv
      /\ exec[cur] = "none" /\ files[cur] = NoFiles /\ HasTree(cur) /\ ~proof
  BY PreparingFacts DEF ClaimItem, At, ServiceInv, PointInv, CurInv, LeaseInv
<1>2. Takes(cur, slot)
  BY <1>0, ClaimEffect
<1>3. /\ pc' = "spawn" /\ UNCHANGED <<pass, todo, seen, cur, proof, avail, slot>>
      /\ UNCHANGED <<procs, locks, exec, files, using, foreign, crashes>>
  BY DEF ClaimItem, At, Goto, NoProc, procVars, NoEnv, envVars
<1>4. LeaseInv'
  OBVIOUS
<1>5. ServiceTypeOK'
  BY <1>0, <1>3 DEF ServiceInv, ServiceTypeOK
<1>6. ASSUME NEW i \in Items
      PROVE  ItemInv(i)'
  <2>0. ItemInv(i)
    BY DEF ServiceInv
  <2>1. CASE i = cur
    BY <2>0, <2>1, <1>0, <1>2, <1>3
    DEF ItemInv, Takes, NoFiles, Live, gpuOf, StateOf,
         Pending
  <2>2. CASE i # cur
    <3>1. item'[i] = item[i] /\ requests' = requests
      BY <2>2, <1>2 DEF Takes, Others
    <3> QED
      BY <2>0, <3>1, <1>3 DEF ItemInv, StateOf, HasTree, gpuOf
  <2> QED
    BY <2>1, <2>2
<1>7. NoYield'
  BY <1>2 DEF ServiceInv, NoYield, StateOf, Takes, Others
<1>8. PointInv' /\ TodoInv'
  BY <1>0, <1>3 DEF ServiceInv, PointInv, TodoInv
<1>9. CurInv'
  BY <1>0, <1>2, <1>3 DEF CurInv, Takes, StateOf, HasTree
<1>10. ProofInv' /\ LocalInv' /\ LaunchInv'
  BY <1>0, <1>3 DEF ProofInv, LocalInv, LaunchInv
<1>11. NoDetached'
  BY <1>3 DEF ServiceInv, NoDetached
<1>12. CoverInv'
  <2>1. ASSUME LeaseCoversWork
        PROVE  LeaseCoversWork'
    BY <2>1, <1>2, <1>3, ZenonT(40) DEF LeaseCoversWork, Takes, Others
  <2> QED
    BY <2>1 DEF ServiceInv, CoverInv
<1> QED
  BY <1>4, <1>5, <1>6, <1>7, <1>8, <1>9, <1>10, <1>11, <1>12 DEF ServiceInv

\* The fork of an executor, and the end of its group after a failed launch.
LEMMA ForkInv ==
    ASSUME ServiceInv, LeaseInv', NoStore, UNCHANGED <<avail, slot>>,
           \/ /\ Spawn /\ Goto("await")
              /\ exec' = [exec EXCEPT ![cur] = "booting"]
           \/ /\ Stop /\ Goto("launchFailed")
              /\ exec' = [exec EXCEPT ![cur] = "gone"]
              /\ JobWorkEnds(cur)
    PROVE  ServiceInv'
<1> USE DEF Handling, Closing, Recovering, Dispatching, Preparing, Launching,
        Discarding, Resting, Passes
<1>0. /\ pc \in {"spawn", "stop"} /\ cur \in Items /\ slot \in Gpus /\ todo = {}
      /\ ~proof /\ StateOf(cur) = "starting"
      /\ pc = "spawn" => exec[cur] = "none" /\ files[cur] = NoFiles /\ HasTree(cur)
  BY DEF Spawn, Stop, At, ServiceInv, PointInv, CurInv
<1>1. \/ /\ pc = "spawn" /\ pc' = "await"
         /\ exec' = [exec EXCEPT ![cur] = "booting"]
         /\ using' = using
      \/ /\ pc = "stop" /\ pc' = "launchFailed"
         /\ exec' = [exec EXCEPT ![cur] = "gone"]
         /\ JobWorkEnds(cur)
  BY DEF Spawn, Stop, At, Goto
<1>2. /\ UNCHANGED <<pass, todo, seen, cur, proof, avail, slot>>
      /\ UNCHANGED <<procs, locks, files, foreign, crashes>>
  BY DEF Spawn, Stop, Goto, NoProc, procVars
<1>3. UNCHANGED <<item, requests>>
  BY DEF NoStore, storeVars
<1>4. /\ using' \subseteq using
      /\ pc = "stop" /\ "detached" \notin Faults => \A g \in Gpus : <<cur, g>> \notin using'
  BY <1>0, <1>1 DEF JobWorkEnds
<1>5. /\ exec'[cur] = IF pc = "spawn" THEN "booting" ELSE "gone"
      /\ \A i \in Items \ {cur} : exec'[i] = exec[i]
  BY <1>0, <1>1 DEF ServiceInv, ServiceTypeOK
<1>6. LeaseInv'
  OBVIOUS
<1>7. ServiceTypeOK'
  BY <1>0, <1>1, <1>2, <1>4, ZenonT(40) DEF ServiceInv, ServiceTypeOK
<1>8. ASSUME NEW i \in Items
      PROVE  ItemInv(i)'
  <2>0. ItemInv(i)
    BY DEF ServiceInv
  <2>1. CASE i = cur
    <3>1. StateOf(i) \in Active /\ StateOf(i) \notin Pending \cup {"absent", "removed"}
      BY <2>1, <1>0 DEF Active, Pending
    <3>2. pc = "spawn" => HasTree(i) /\ files[i].exit = "none"
      <4>1. pc = "spawn" => HasTree(i) /\ files[i] = NoFiles
        BY <2>1, <1>0
      <4> QED
        BY <4>1, SMT DEF NoFiles
    <3> QED
      BY <2>0, <2>1, <3>1, <3>2, <1>0, <1>2, <1>3, <1>5
         DEF ItemInv, Live, gpuOf, StateOf, HasTree
  <2>2. CASE i # cur
    BY <2>0, <2>2, <1>2, <1>3, <1>5 DEF ItemInv, StateOf, HasTree, gpuOf
  <2> QED
    BY <2>1, <2>2
<1>9. NoYield'
  BY <1>3 DEF ServiceInv, NoYield, StateOf
<1>10. PointInv' /\ TodoInv'
  BY <1>0, <1>1, <1>2 DEF ServiceInv, PointInv, TodoInv
<1>11. CurInv'
  BY <1>0, <1>1, <1>2, <1>3, <1>5 DEF CurInv, StateOf, Live
<1>12. ProofInv' /\ LocalInv'
  BY <1>0, <1>1, <1>2 DEF ProofInv, LocalInv
<1>13. LaunchInv'
  BY <1>0, <1>1, <1>2, <1>5 DEF ServiceInv, LaunchInv
<1>14. NoDetached'
  BY <1>0, <1>4, <1>5 DEF ServiceInv, NoDetached
<1>15. CoverInv'
  BY <1>3, <1>4 DEF ServiceInv, CoverInv, LeaseCoversWork
<1> QED
  BY <1>6, <1>7, <1>8, <1>9, <1>10, <1>11, <1>12, <1>13, <1>14, <1>15 DEF ServiceInv

LEMMA ForeignInv ==
    ASSUME ServiceInv, LeaseInv', NEW g \in Gpus, ForeignLock(g)
    PROVE  ServiceInv'
<1>0. /\ UNCHANGED storeVars
      /\ UNCHANGED <<pc, pass, todo, seen, cur, proof, avail, slot>>
      /\ UNCHANGED <<procs, locks, exec, files, using, crashes>>
  BY DEF ForeignLock, OnlyEnv, control, procVars
<1>1. LeaseInv'
  OBVIOUS
<1>2. UNCHANGED <<item, requests>>
  BY <1>0 DEF storeVars
<1>3. ServiceTypeOK'
  <2>1. foreign' \subseteq Gpus \ locks
    BY DEF ForeignLock, ServiceInv, ServiceTypeOK
  <2>2. ControlType /\ ProcType /\ EnvType
    BY TypeParts DEF ServiceInv
  <2>3. ControlType' /\ EnvType'
    BY <1>0, <2>2 DEF ControlType, EnvType
  <2>4. ProcType'
    BY <1>0, <2>1, <2>2 DEF ProcType
  <2> QED
    BY <2>3, <2>4, PartsTyped
<1>4. (\A i \in Items : ItemInv(i)') /\ TodoInv' /\ NoYield'
  BY <1>0, <1>2 DEF ServiceInv, ItemInv, TodoInv, NoYield, StateOf, HasTree, gpuOf
<1>5. PointInv'
  BY <1>0, <1>2 DEF ServiceInv, PointInv, gpuOf
<1>8. CurInv'
  BY <1>0, <1>2 DEF ServiceInv, CurInv, StateOf, HasTree, gpuOf
<1>6. ProofInv' /\ LocalInv' /\ LaunchInv'
  BY <1>0, <1>2 DEF ServiceInv, ProofInv, LocalInv, LaunchInv, StateOf, gpuOf, Busy
<1>7. NoDetached' /\ CoverInv'
  BY <1>0, <1>2 DEF ServiceInv, NoDetached, CoverInv, LeaseCoversWork
<1> QED
  BY <1>1, <1>3, <1>4, <1>5, <1>6, <1>7, <1>8 DEF ServiceInv

-------------------------------------------------------------------------------
(***************************************************************************)
(* The inductive invariant.                                                *)
(***************************************************************************)

LEMMA SchedulerInv ==
    ASSUME ServiceInv, LeaseInv', SchedulerStep \/ Crash
    PROVE  ServiceInv'
<1>0. crashes \in 0 .. MaxCrashes /\ MaxCrashes \in Nat
  BY ServiceAssumption DEF ServiceInv, ServiceTypeOK
<1>1. CASE PassStep
  <2>1. UNCHANGED <<exec, files, using, crashes, procs>>
    BY <1>1 DEF PassStep, VisitLocal, FinishLocal, VisitRestarted, VisitPending,
         VisitOrphan, BeginIteration, LocalDone, RestartDone, PendingDone, OrphanDone,
         Reservations, Dependencies, NoEnv, envVars, NoProc, procVars
  <2> QED
    BY <1>0, <1>1, <2>1, PassMoved, PassTyped, MovedInv
<1>2. CASE FinishStep
  <2>1. CASE /\ Requeue
             /\ RequeueReadyContinuation(cur, item[cur].segment)
             /\ exec' = [exec EXCEPT ![cur] = "none"]
             /\ files' = [files EXCEPT ![cur] = NoFiles]
    BY <2>1, RequeueInv
  <2>2. CASE /\ Requeue /\ NoStore /\ Goto("gate")
             /\ UNCHANGED <<exec, files>>
    <3>1. /\ UNCHANGED <<item, requests, locks, procs, crashes, using>>
          /\ At("requeue") /\ NoEnv
      BY <2>2 DEF Requeue, NoStore, storeVars, NoProc, procVars, NoEnv, envVars
    <3>2. Moved
      BY <2>2, <3>1, HandlingMoved DEF Handling, Closing
    <3> QED
      BY <1>0, <1>2, <2>2, <3>1, <3>2, FinishTyped, MovedInv
  <2>3. CASE ~Requeue
    <3>1. /\ UNCHANGED <<exec, files, using, crashes>>
          /\ procs' \subseteq procs
      BY <1>2, <2>3 DEF FinishStep, FinishStart, Finalize, Complete, FinalizeYield,
           IsolateEnded, Decline, Reject, Isolation, Isolate, Fail, Quarantine,
           Release, Cleanup, Spoiled, NoEnv, envVars, NoProc, procVars, RequireIdle,
           Exit, Finished
    <3> QED
      BY <1>0, <1>2, <2>3, <3>1, FinishMoved, FinishTyped, MovedInv
  <2> QED
    BY <2>1, <2>2, <2>3 DEF Requeue
<1>3. CASE RestartStep
  <2>1. UNCHANGED <<exec, files, using, crashes, procs>>
    BY <1>3 DEF RestartStep, Adopt, Adopted, Inspect, CheckAlive, Contended, NoEnv,
         envVars, NoProc, procVars, RequireIdle, PauseAmbiguous
  <2> QED
    BY <1>0, <1>3, <2>1, RestartMoved, RestartTyped, MovedInv
<1>4. CASE DispatchStep
  <2>1. ControlType' /\ ProcType'
    BY <1>4, DispatchTyped
  <2>2. ASSUME Moved, UNCHANGED <<exec, files, using, crashes>>,
               \A i \in procs' : i \in procs \/ gpuOf(i) \in Gpus
        PROVE  ServiceInv'
    BY <1>0, <2>1, <2>2, MovedInv
  <2>3. NoEnv => UNCHANGED <<exec, files, using, crashes>>
    BY DEF NoEnv, envVars
  <2>4. NoProc => UNCHANGED procs
    BY DEF NoProc, procVars
  <2>5. CASE BeginDispatch \/ Offer \/ LockGpu
    <3>1. NoEnv /\ UNCHANGED procs
      BY <2>5, <2>4 DEF BeginDispatch, Offer, LockGpu
    <3> QED
      BY <2>2, <2>3, <2>5, <3>1, OfferMoved
  <2>6. CASE Prepare \/ Unprepare \/ Unprepared
    <3>1. NoEnv /\ UNCHANGED procs
      BY <2>6, <2>4 DEF Prepare, Unprepare, Unprepared
    <3> QED
      BY <2>2, <2>3, <2>6, <3>1, PrepareMoved
  <2>7. CASE ClaimItem
    <3>1. NoEnv /\ UNCHANGED procs
      BY <2>7, <2>4 DEF ClaimItem
    <3>2. CASE Claim(cur, slot) /\ Goto("spawn")
      BY <2>7, <3>2, ClaimInv
    <3>3. CASE NoStore
      BY <1>4, <2>2, <2>3, <2>7, <3>1, <3>3, LaunchMoved
    <3> QED
      BY <2>7, <3>2, <3>3 DEF ClaimItem
  <2>8. CASE Discard \/ Discarded \/ Await \/ LaunchFailed \/ LaunchPause
    <3>1. NoEnv /\ UNCHANGED procs
      BY <2>8, <2>4 DEF Discard, Discarded, Await, LaunchFailed, LaunchPause
    <3> QED
      BY <1>4, <2>2, <2>3, <2>8, <3>1, LaunchMoved
  <2>9. CASE Spawn
    <3>1. CASE Goto("await") /\ exec' = [exec EXCEPT ![cur] = "booting"]
      BY <2>9, <3>1, ForkInv DEF Spawn, At
    <3>2. CASE UNCHANGED exec
      BY <1>4, <2>2, <2>4, <2>9, <3>2, LaunchMoved DEF Spawn
    <3> QED
      BY <2>9, <3>1, <3>2 DEF Spawn
  <2>10. CASE Stop
    <3>1. CASE /\ Goto("launchFailed") /\ exec' = [exec EXCEPT ![cur] = "gone"]
               /\ JobWorkEnds(cur) /\ UNCHANGED <<avail, slot>> /\ NoStore
      BY <2>10, <3>1, ForkInv
    <3>2. CASE UNCHANGED <<exec, using>>
      BY <1>4, <2>2, <2>4, <2>10, <3>2, LaunchMoved DEF Stop
    <3> QED
      BY <2>10, <3>1, <3>2 DEF Stop
  <2>11. CASE RecordLaunch
    <3>1. NoEnv /\ procs' = procs \cup {cur}
      BY <2>11 DEF RecordLaunch
    <3>2. cur \in Items /\ StateOf(cur) \in Active
      BY <2>11
      DEF RecordLaunch, ServiceInv, PointInv, CurInv, Dispatching, Launching,
           Active
    <3>3. gpuOf(cur) \in Gpus
      BY <3>2, HeldGpu
    <3> QED
      BY <1>4, <2>2, <2>3, <2>11, <3>1, <3>3, LaunchMoved
  <2> QED
    BY <1>4, <2>5, <2>6, <2>7, <2>8, <2>9, <2>10, <2>11 DEF DispatchStep
<1>5. CASE StartScheduler
  <2>1. /\ UNCHANGED <<item, requests, exec, files, using, crashes, procs, locks, foreign>>
        /\ pc = "down" /\ pc' = "sleep"
        /\ UNCHANGED <<pass, todo, seen, cur, proof, avail, slot>>
    BY <1>5 DEF StartScheduler, At, Goto, NoStore, storeVars, NoProc, procVars, NoEnv,
         envVars
  <2>2. ~proof /\ todo = {} /\ pass \in Passes
    BY <2>1 DEF ServiceInv, PointInv, Handling, Resting
  <2>3. ControlInv'
    BY <2>1, <2>2, IdlePointMove DEF Resting
  <2>4. Moved
    BY <2>1, <2>3, QuietMoved
  <2>5. ControlType /\ ProcType
    BY TypeParts DEF ServiceInv
  <2>6. ControlType' /\ ProcType'
    BY <2>1, <2>5 DEF ControlType, ProcType, AllPoints, Resting
  <2> QED
    BY <1>0, <2>1, <2>4, <2>6, MovedInv
<1>6. CASE Resolved \/ Crash
  <2>1. /\ Exit /\ NoStore /\ UNCHANGED <<exec, files, using, foreign>>
        /\ crashes' = crashes \/ (crashes < MaxCrashes /\ crashes' = crashes + 1)
        /\ \/ UNCHANGED <<avail, slot>>
           \/ avail' = {} /\ slot' = NoGpu
    BY <1>6 DEF Resolved, Crash, At, NoEnv, envVars
  <2>2. Moved
    BY <2>1, ExitMoved
  <2>3. ControlType /\ ProcType
    BY TypeParts DEF ServiceInv
  <2>4. avail' \subseteq Gpus /\ slot' \in Gpus \cup {NoGpu}
    BY <2>1, <2>3 DEF ControlType
  <2>5. ControlType' /\ ProcType'
    BY <2>1, <2>3, <2>4, ExitTyped, LockTyped
  <2>6. procs' = {} /\ crashes' \in 0 .. MaxCrashes
    BY <1>0, <2>1, SMT DEF Exit
  <2> QED
    BY <2>1, <2>2, <2>5, <2>6, MovedInv
<1> QED
  BY <1>1, <1>2, <1>3, <1>4, <1>5, <1>6 DEF SchedulerStep

\* The leases are the store's: its transactions preserve LeaseInv.
LEMMA ServiceStepInv ==
    ASSUME ServiceInv, LeaseInv', [ServiceNext]_serviceVars
    PROVE  ServiceInv'
<1>2. CASE UNCHANGED serviceVars
  <2>1. /\ UNCHANGED <<item, requests>>
        /\ UNCHANGED <<pc, pass, todo, seen, cur, proof, avail, slot>>
        /\ UNCHANGED <<procs, locks, exec, files, using, foreign, crashes>>
    BY <1>2 DEF serviceVars, storeVars, control, procVars, envVars
  <2>3. ServiceTypeOK'
    <3>1. ControlType /\ ProcType /\ EnvType
      BY TypeParts DEF ServiceInv
    <3>2. ControlType' /\ ProcType' /\ EnvType'
      BY <2>1, <3>1 DEF ControlType, ProcType, EnvType
    <3> QED
      BY <3>2, PartsTyped
  <2>4. (\A i \in Items : ItemInv(i)') /\ TodoInv' /\ NoYield'
    BY <2>1 DEF ServiceInv, ItemInv, TodoInv, NoYield, StateOf, HasTree, gpuOf
  <2>5. PointInv'
    BY <2>1 DEF ServiceInv, PointInv, gpuOf
  <2>8. CurInv'
    BY <2>1 DEF ServiceInv, CurInv, StateOf, HasTree, gpuOf
  <2>6. ProofInv' /\ LocalInv' /\ LaunchInv'
    BY <2>1 DEF ServiceInv, ProofInv, LocalInv, LaunchInv, StateOf, gpuOf, Busy
  <2>7. NoDetached' /\ CoverInv'
    BY <2>1 DEF ServiceInv, NoDetached, CoverInv, LeaseCoversWork
  <2> QED
    BY <2>3, <2>4, <2>5, <2>6, <2>7, <2>8 DEF ServiceInv
<1> QED
  BY <1>2, SchedulerInv, ResolveInv, ExecutorInv, ForeignInv, CommandInv
     DEF ServiceNext

LEMMA ServiceInitInv == ServiceInit => ServiceInv
<1> SUFFICES ASSUME ServiceInit
             PROVE  ServiceInv
  OBVIOUS
<1>1. ASSUME NEW prio \in Priorities
      PROVE  /\ [NewRow(prio) EXCEPT !.state = "queued"] \in Row
             /\ RowFits([NewRow(prio) EXCEPT !.state = "queued"])
  <2> DEFINE new == NewRow(prio)
             row == [new EXCEPT !.state = "queued"]
  <2>0. new \in Row
    BY StoreAssumption, SMTT(20) DEF NewRow, Row, States, Stages, Trees, Pending, Active, Ended
  <2>1. /\ new.state = "absent" /\ new.gpu = NoGpu /\ ~new.held
        /\ ~new.released /\ ~new.launched /\ new.stage = "none" /\ ~new.yieldId
        /\ new.tree = "none"
    BY DEF NewRow
  <2> HIDE DEF new
  <2>2. /\ row \in Row /\ row.state = "queued" /\ row.gpu = NoGpu /\ ~row.held
        /\ ~row.released /\ ~row.launched /\ row.stage = "none" /\ ~row.yieldId
        /\ row.tree = "none"
    BY <2>0, <2>1 DEF Row, States, Pending
  <2> HIDE DEF row
  <2>3. RowFits(row)
    BY <2>2 DEF RowFits, LeaseFits, StageFits, IdentityFits, Pending, Active, Ended
  <2> QED
    BY <2>2, <2>3 DEF row, new
<1>2. \A i \in Items : \E prio \in Priorities :
         item[i] = [NewRow(prio) EXCEPT !.state = "queued"]
  BY DEF ServiceInit
<1>3. item \in [Items -> Row] /\ \A i \in Items : RowFits(item[i])
  <2>1. \A i \in Items : item[i] \in Row /\ RowFits(item[i])
    BY <1>1, <1>2
  <2> QED
    BY <2>1 DEF ServiceInit
<1>4. RowInv
  BY <1>3 DEF ServiceInit, RowInv, TypeOK, Lifecycles, Allowance
<1>5. \A i \in Items : /\ item[i].state = "queued" /\ ~item[i].held
                       /\ item[i].segment = 1
  BY <1>2, ZenonT(40) DEF NewRow
<1>6. LeaseInv
  BY <1>4, <1>5 DEF ServiceInit, LeaseInv, OneLeasePerGpu, ReservedGpuIsFree, HeldOn
<1>7. ServiceTypeOK
  <2>1. ControlType
    BY DEF ServiceInit, ControlType, AllPoints, Resting, Passes, States
  <2>2. ProcType /\ EnvType
    BY ServiceAssumption, SMT DEF ServiceInit, ProcType, EnvType, NoFiles
  <2> QED
    BY <2>1, <2>2, TypeParts
<1>8. \A i \in Items : ItemInv(i)
  BY <1>5, StoreAssumption, SMT DEF ServiceInit, ItemInv, Segments, NoFiles, Live
<1>9. PointInv /\ TodoInv /\ CurInv /\ LaunchInv
  <2>1. pc = "down" /\ pass = "local" /\ todo = {} /\ ~proof
    BY DEF ServiceInit
  <2>2. pc \notin Handling \cup Recovering \cup Dispatching \cup Passes
    BY <2>1 DEF Handling, Closing, Recovering, Dispatching, Preparing, Launching,
         Discarding, Passes
  <2>3. pc \notin Preparing \cup Launching \cup Discarding
    BY <2>1 DEF Preparing, Launching, Discarding
  <2>4. PointInv
    BY <2>1, <2>2 DEF PointInv, Passes
  <2>5. TodoInv
    BY <2>1 DEF TodoInv
  <2>6. CurInv /\ LaunchInv
    BY <2>1, <2>2, <2>3 DEF CurInv, LaunchInv
  <2> QED
    BY <2>4, <2>5, <2>6
<1>10. ProofInv /\ LocalInv
  BY DEF ServiceInit, ProofInv, LocalInv, Handling
<1>11. NoDetached /\ NoYield /\ CoverInv
  BY <1>5 DEF ServiceInit, NoDetached, NoYield, CoverInv, LeaseCoversWork, StateOf
<1> QED
  BY <1>6, <1>7, <1>8, <1>9, <1>10, <1>11 DEF ServiceInv

-------------------------------------------------------------------------------
(***************************************************************************)
(* Launches.                                                               *)
(***************************************************************************)

LEMMA ExecutorLaunch ==
    ASSUME ServiceInv, NEW i \in Items, ExecutorStep(i), NEW j \in Items,
           exec'[j] = "booting"
    PROVE  exec[j] = "booting"
<1>1. exec \in [Items -> {"none", "booting", "alive", "closing", "gone"}]
  BY DEF ServiceInv, ServiceTypeOK
<1>2. PICK e \in {"alive", "closing", "gone"} :
         exec' = exec \/ exec' = [exec EXCEPT ![i] = e]
  BY DEF ExecutorStep, ExecutorStarts, WorkEnters, WorkLeaves, JobYields,
       ExecutorPublishes, ExecutorLeaves, ExecutorDies
<1> QED
  BY <1>1, <1>2

LEMMA LaunchSteps ==
    ASSUME ServiceInv, [ServiceNext]_serviceVars, NEW i \in Items,
           exec'[i] = "booting", exec[i] # "booting"
    PROVE  exec[i] = "none"
<1>1. exec \in [Items -> {"none", "booting", "alive", "closing", "gone"}]
  BY DEF ServiceInv, ServiceTypeOK
<1>2. CASE Spawn
  <2>1. exec' = exec \/ exec' = [exec EXCEPT ![cur] = "booting"]
    BY <1>2 DEF Spawn
  <2>2. cur \in Items /\ exec[cur] = "none"
    BY <1>2 DEF Spawn, At, ServiceInv, PointInv, CurInv, Dispatching, Launching
  <2> QED
    BY <1>1, <2>1, <2>2
<1>3. CASE Stop \/ Requeue
  BY <1>1, <1>3 DEF Stop, Requeue
<1>4. CASE ~Spawn /\ ~Stop /\ ~Requeue /\ (SchedulerStep \/ Crash)
  <2>1. NoEnv => UNCHANGED exec
    BY DEF NoEnv, envVars
  <2>2. PassStep \/ RestartStep => NoEnv
    BY DEF PassStep, VisitLocal, FinishLocal, VisitRestarted, VisitPending, VisitOrphan,
         BeginIteration, LocalDone, RestartDone, PendingDone, OrphanDone, Reservations,
         Dependencies, RestartStep, Adopt, Adopted, Inspect, CheckAlive, Contended
  <2>3. FinishStep => NoEnv
    BY <1>4 DEF FinishStep, FinishStart, Finalize, Complete, FinalizeYield,
         IsolateEnded, Decline, Reject, Isolation, Isolate, Fail, Quarantine, Release,
         Cleanup, Spoiled
  <2>4. DispatchStep => NoEnv
    BY <1>4 DEF DispatchStep, BeginDispatch, Offer, LockGpu, Prepare, Unprepare,
         Unprepared, ClaimItem, Discard, Discarded, Await, RecordLaunch, LaunchFailed,
         LaunchPause
  <2>5. StartScheduler \/ Resolved => NoEnv
    BY DEF StartScheduler, Resolved
  <2>6. UNCHANGED exec
    BY <1>4, <2>1, <2>2, <2>3, <2>4, <2>5 DEF SchedulerStep, Crash
  <2> QED
    BY <2>6
<1>5. ASSUME NEW j \in Items, ResolveAbandoned(j)
      PROVE  UNCHANGED exec
  BY <1>5 DEF ResolveAbandoned, NoEnv, envVars
<1>6. ASSUME NEW g \in Gpus, ForeignLock(g)
      PROVE  UNCHANGED exec
  BY <1>6 DEF ForeignLock
<1>7. OperatorCommand \/ UNCHANGED serviceVars => UNCHANGED exec
  BY DEF OperatorCommand, serviceVars, NoEnv, envVars
<1>8. ASSUME NEW j \in Items, ExecutorStep(j)
      PROVE  FALSE
  BY <1>8, ExecutorLaunch
<1> QED
  BY <1>2, <1>3, <1>4, <1>5, <1>6, <1>7, <1>8 DEF ServiceNext

-------------------------------------------------------------------------------
(***************************************************************************)
(* Releases.                                                               *)
(***************************************************************************)

\* No step but the requeue of cur drops a lease without the idle proof.
LEMMA DropSteps ==
    ASSUME ServiceInv, [ServiceNext]_serviceVars, NEW i \in Items,
           item[i].held, ~item'[i].held
    PROVE  \/ proof /\ cur = i
           \/ Requeue /\ Requeues(cur) /\ cur = i
<1>0. RowInv /\ item[i] \in Row
  BY DEF ServiceInv, LeaseInv, RowInv, TypeOK
<1>1. ASSUME Moved
      PROVE  proof /\ cur = i
  BY <1>1 DEF Moved, KeepLeases, SameLease, Drops, SamePlace, Others
<1>2. ~UNCHANGED item /\ ~KeepLeases
  BY DEF KeepLeases, SameLease
<1>3. ~NoStore
  BY <1>2 DEF NoStore, storeVars
<1>4. CASE PassStep \/ RestartStep
  BY <1>1, <1>4, PassMoved, RestartMoved
<1>5. CASE FinishStep
  <2>1. CASE Requeue
    <3>1. /\ cur \in Items /\ item[cur].segment \in Segments
      BY <2>1, CurFacts DEF Requeue, At, Handling
    <3>2. Requeues(cur)
      BY <1>0, <1>3, <2>1, <3>1, RequeueEffect DEF Requeue
    <3> QED
      BY <2>1, <3>2 DEF Requeues, Others
  <2> QED
    BY <1>1, <1>5, <2>1, FinishMoved
<1>6. CASE DispatchStep
  <2>1. CASE ClaimItem
    <3>1. cur \in Items /\ slot \in Gpus
      BY <2>1 DEF ClaimItem, At, ServiceInv, PointInv, Dispatching, Preparing
    <3>2. Takes(cur, slot)
      BY <1>0, <1>3, <2>1, <3>1, ClaimEffect DEF ClaimItem
    <3> QED
      BY <3>2 DEF Takes, Others
  <2>2. CASE Spawn
    BY <1>3, <2>2 DEF Spawn
  <2>3. CASE Stop
    BY <1>2, <1>3, <2>3 DEF Stop, PauseHost
  <2>4. CASE ~ClaimItem /\ ~Spawn /\ ~Stop
    BY <1>1, <1>6, <2>4, OfferMoved, PrepareMoved, LaunchMoved DEF DispatchStep
  <2> QED
    BY <2>1, <2>2, <2>3, <2>4
<1>7. CASE StartScheduler \/ Resolved \/ Crash
  BY <1>3, <1>7 DEF StartScheduler, Resolved, Crash
<1>8. ASSUME NEW j \in Items, ResolveAbandoned(j)
      PROVE  FALSE
  <2>1. Ends(j)
    BY <1>0, <1>8, EndEffect DEF ResolveAbandoned
  <2> QED
    BY <1>2, <2>1, EffectLeases
<1>9. ASSUME NEW j \in Items, ExecutorStep(j)
      PROVE  FALSE
  BY <1>3, <1>9 DEF NoStore, ExecutorStep, ExecutorStarts, WorkEnters, WorkLeaves,
       JobYields, ExecutorPublishes, ExecutorLeaves, ExecutorDies, OnlyEnv
<1>10. ASSUME NEW g \in Gpus, ForeignLock(g)
       PROVE  FALSE
  BY <1>3, <1>10 DEF NoStore, ForeignLock, OnlyEnv
<1>11. CASE OperatorCommand
  BY <1>0, <1>2, <1>11, CommandEffect, EffectLeases
<1>12. CASE UNCHANGED serviceVars
  BY <1>3, <1>12 DEF serviceVars, NoStore
<1> QED
  BY <1>4, <1>5, <1>6, <1>7, <1>8, <1>9, <1>10, <1>11, <1>12
     DEF ServiceNext, SchedulerStep

LEMMA ReleaseSteps ==
    ASSUME ServiceInv, [ServiceNext]_serviceVars, NEW i \in Items,
           item[i].held, ~item'[i].held
    PROVE  \/ gpuOf(i) \in locks /\ ~Busy(gpuOf(i))
           \/ /\ pc = "requeue" /\ pass = "restart" /\ ~proof /\ cur = i
              /\ StateOf(i) = "yielding"
<1>1. \/ proof /\ cur = i
      \/ Requeue /\ Requeues(cur) /\ cur = i
  BY DropSteps
<1>2. CASE proof /\ cur = i
  BY <1>2 DEF ServiceInv, ProofInv
<1>3. CASE Requeue /\ Requeues(cur) /\ cur = i /\ ~proof
  <2>1. pc = "requeue" /\ StateOf(cur) = "yielding"
    BY <1>3 DEF Requeue, At, Requeues, StateOf
  <2>2. pass = "restart"
    BY <1>3, <2>1, RequeueIsProven
  <2> QED
    BY <1>3, <2>1, <2>2
<1> QED
  BY <1>1, <1>2, <1>3

-------------------------------------------------------------------------------
(***************************************************************************)
(* Worktrees are removed after the release.                                *)
(***************************************************************************)

TreesKept == \A i \in Items : item'[i].tree = item[i].tree

\* Every transaction but the two of a worktree keeps the trees.
LEMMA EffectTrees ==
    ASSUME RowInv, NEW i \in Items, NEW g,
           \/ UNCHANGED item
           \/ Ends(i) \/ Launches(i) \/ Escalates(i) \/ Drops(i) \/ Takes(i, g)
           \/ Requeues(i) \/ Calm
    PROVE  TreesKept
BY DEF Ends, Launches, Escalates, Drops, Takes, Requeues, SameTreeAndLease, SamePlace,
     Others, Calm, CalmRow, TreesKept

LEMMA QuietTrees ==
    ASSUME NEW p, NEW j, NEW seg, NEW status, NEW due,
           \/ NoStore \/ PauseHost \/ QuarantineProject(p)
           \/ RecordYieldReceipt(j, seg, status) \/ ReconcileReservations(due)
    PROVE  TreesKept
BY DEF NoStore, storeVars, PauseHost, QuarantineProject, RecordYieldReceipt,
     ReconcileReservations, TreesKept

LEMMA CleanedOne ==
    ASSUME RowInv, NEW j \in Items, NEW ok \in BOOLEAN, RecordWorktreeCleanup(j, ok),
           NEW i \in Items, item'[i].tree # item[i].tree
    PROVE  i = j
BY TreeEffect DEF SetsTree, SamePlace, Others

LEMMA PassTrees ==
    ASSUME ServiceInv, PassStep, NEW i \in Items, item'[i].tree # item[i].tree
    PROVE  ~item[i].held
<1>0. RowInv
  BY DEF ServiceInv, LeaseInv
<1>1. ~TreesKept
  BY DEF TreesKept
<1>2. ASSUME NEW j \in Items, VisitLocal(j)
      PROVE  FALSE
  <2>1. EscalateTermination(j, item[j].stage) => TreesKept
    BY <1>0, EscalateEffect, EffectTrees
  <2> QED
    BY <1>1, <1>2, <2>1, QuietTrees DEF VisitLocal, MaybeEscalate
<1>3. ASSUME NEW j \in Items, FinishLocal(j) \/ VisitRestarted(j) \/ VisitPending(j)
      PROVE  FALSE
  BY <1>1, <1>3, QuietTrees DEF FinishLocal, VisitRestarted, VisitPending
<1>4. ASSUME NEW j \in Items, VisitOrphan(j)
      PROVE  ~item[i].held
  <2>1. j \in todo /\ pass = "orphan"
    BY <1>4 DEF VisitOrphan, Pick, At, ServiceInv, PointInv, Passes
  <2>2. ~item[j].held
    BY <2>1 DEF ServiceInv, TodoInv
  <2>3. i = j
    BY <1>0, <1>1, <1>4, CleanedOne, QuietTrees DEF VisitOrphan
  <2> QED
    BY <2>2, <2>3
<1>5. CASE BeginIteration \/ LocalDone \/ RestartDone \/ PendingDone \/ OrphanDone
           \/ Reservations
  BY <1>1, <1>5, QuietTrees DEF BeginIteration, LocalDone, RestartDone, PendingDone,
       OrphanDone, Reservations
<1>6. CASE Dependencies
  BY <1>0, <1>1, <1>6, DependencyEffect, EffectTrees DEF Dependencies
<1> QED
  BY <1>2, <1>3, <1>4, <1>5, <1>6 DEF PassStep

LEMMA FinishTrees ==
    ASSUME ServiceInv, FinishStep, NEW i \in Items, item'[i].tree # item[i].tree
    PROVE  ~item[i].held
<1>0. RowInv
  BY DEF ServiceInv, LeaseInv
<1>1. ~TreesKept
  BY DEF TreesKept
<1>2. cur \in Items /\ item[cur].segment \in Segments
  BY CurFacts
  DEF FinishStep, FinishStart, Finalize, Complete, FinalizeYield, Requeue,
       IsolateEnded, Decline, Reject, Isolation, Isolate, Fail, Quarantine, Release,
       Cleanup, Spoiled, At, Handling
<1>3. /\ ~RecordExecutorCompletion(cur, item[cur].segment, files[cur].exit = "ok")
      /\ ~RecordTerminationCompletion(cur) /\ ~FailActiveItem(cur)
      /\ ~IsolateContinuationFailure(cur, TRUE)
  BY <1>0, <1>1, <1>2, EndEffect, EffectTrees
<1>4. ~IsolateContinuationFailure(cur, FALSE)
  BY <1>0, <1>1, <1>2, IsolateEffect, EffectTrees
<1>5. ~ReleaseGpuLease(cur, gpuOf(cur))
  BY <1>0, <1>1, <1>2, ReleaseEffect, EffectTrees
<1>6. ~RequeueReadyContinuation(cur, item[cur].segment)
  BY <1>0, <1>1, <1>2, RequeueEffect, EffectTrees
<1>7. ~NoStore /\ ~PauseHost /\ ~QuarantineProject(projectOf[cur])
  BY <1>1, QuietTrees
<1>8. \A next : ~RequireIdle(gpuOf(cur), next)
  BY <1>7 DEF RequireIdle
<1>9. CASE FinalizeYield
  <2>1. \A seg, status : ~RecordYieldReceipt(cur, seg, status)
    BY <1>1, QuietTrees
  <2> QED
    BY <1>4, <1>7, <1>9, <2>1 DEF FinalizeYield
<1>10. CASE Cleanup
  <2>1. ~item[cur].held
    BY <1>10 DEF Cleanup, At, ServiceInv, CurInv
  <2>2. \E ok \in BOOLEAN : RecordWorktreeCleanup(cur, ok)
    BY <1>7, <1>10 DEF Cleanup
  <2> QED
    BY <1>0, <1>2, <2>1, <2>2, CleanedOne
<1>11. CASE FinishStart \/ Finalize \/ Complete \/ Requeue \/ IsolateEnded
            \/ Decline \/ Reject
  BY <1>3, <1>6, <1>7, <1>8, <1>11 DEF FinishStart, Finalize, Complete, Requeue,
       IsolateEnded, Decline, Reject
<1>12. CASE Isolation \/ Isolate \/ Fail \/ Quarantine \/ Release \/ Spoiled
  BY <1>3, <1>5, <1>7, <1>8, <1>12 DEF Isolation, Isolate, Fail, Quarantine, Release,
       Spoiled
<1> QED
  BY <1>9, <1>10, <1>11, <1>12 DEF FinishStep

LEMMA RestartTrees ==
    ASSUME ServiceInv, RestartStep
    PROVE  TreesKept
<1>0. RowInv
  BY DEF ServiceInv, LeaseInv
<1>1. cur \in Items
  BY CurFacts DEF RestartStep, Adopt, Adopted, Inspect, CheckAlive, Contended, At,
       Recovering
<1>2. /\ RecordLaunched(cur, item[cur].segment, gpuOf(cur)) => TreesKept
      /\ EscalateTermination(cur, item[cur].stage) => TreesKept
  BY <1>0, <1>1, LaunchEffect, EscalateEffect, EffectTrees
<1>3. NoStore \/ PauseHost \/ QuarantineProject(projectOf[cur]) => TreesKept
  BY QuietTrees
<1> QED
  BY <1>2, <1>3 DEF RestartStep, Adopt, Adopted, Inspect, CheckAlive, Contended,
       PauseAmbiguous, RequireIdle, MaybeEscalate

\* The exception is the discard after a failed launch.
LEMMA DispatchTrees ==
    ASSUME ServiceInv, DispatchStep, NEW i \in Items, item'[i].tree = "removed",
           item[i].tree # "removed"
    PROVE  ~item[i].held \/ (pc = "discard" /\ cur = i)
<1>0. RowInv
  BY DEF ServiceInv, LeaseInv
<1>1. ~TreesKept
  BY DEF TreesKept
<1>2. \A p : ~NoStore /\ ~PauseHost /\ ~QuarantineProject(p)
  BY <1>1, QuietTrees
<1>3. ASSUME pc \in Dispatching
      PROVE  cur \in Items /\ slot \in Gpus
  BY <1>3 DEF ServiceInv, PointInv
<1> USE DEF Dispatching, Preparing, Launching, Discarding
<1>4. CASE BeginDispatch \/ Offer \/ LockGpu \/ Unprepared \/ Discarded
  BY <1>2, <1>4 DEF BeginDispatch, Offer, LockGpu, Unprepared, Discarded
<1>5. CASE Spawn \/ Await \/ Stop \/ LaunchPause
  BY <1>2, <1>5 DEF Spawn, Await, Stop, LaunchPause
<1>6. CASE Prepare
  <2>1. RecordWorktreePrepared(cur) /\ cur \in Items
    BY <1>2, <1>3, <1>6 DEF Prepare, At
  <2>2. SetsTree(cur, "present")
    BY <1>0, <2>1, TreeEffect
  <2> QED
    BY <2>1, <2>2 DEF SetsTree, SamePlace, Others
<1>7. CASE Unprepare
  <2>1. cur \in Items /\ ~item[cur].held
    BY <1>7, PreparingFacts DEF Unprepare, At
  <2> QED
    BY <1>0, <1>7, <2>1, CleanedOne DEF Unprepare
<1>8. CASE Discard
  <2>1. cur \in Items /\ pc = "discard"
    BY <1>3, <1>8 DEF Discard
  <2> QED
    BY <1>0, <1>8, <2>1, CleanedOne DEF Discard
<1>9. CASE ClaimItem
  <2>1. cur \in Items /\ slot \in Gpus /\ Claim(cur, slot)
    BY <1>2, <1>3, <1>9 DEF ClaimItem, At
  <2> QED
    BY <1>0, <1>1, <2>1, ClaimEffect, EffectTrees
<1>10. CASE RecordLaunch
  <2>1. cur \in Items /\ RecordLaunched(cur, item[cur].segment, slot)
    BY <1>3, <1>10 DEF RecordLaunch
  <2> QED
    BY <1>0, <1>1, <2>1, LaunchEffect, EffectTrees
<1>11. CASE LaunchFailed
  <2>1. cur \in Items /\ FailActiveItem(cur)
    BY <1>3, <1>11 DEF LaunchFailed, At
  <2> QED
    BY <1>0, <1>1, <2>1, EndEffect, EffectTrees
<1> QED
  BY <1>4, <1>5, <1>6, <1>7, <1>8, <1>9, <1>10, <1>11 DEF DispatchStep

LEMMA RemovalSteps ==
    ASSUME ServiceInv, [ServiceNext]_serviceVars, NEW i \in Items,
           item'[i].tree = "removed", item[i].tree # "removed"
    PROVE  ~item[i].held \/ (pc = "discard" /\ cur = i)
<1>0. RowInv
  BY DEF ServiceInv, LeaseInv
<1>1. ~TreesKept
  BY DEF TreesKept
<1>2. ~NoStore
  BY <1>1, QuietTrees
<1>3. CASE PassStep \/ FinishStep \/ RestartStep \/ DispatchStep
  BY <1>1, <1>3, PassTrees, FinishTrees, RestartTrees, DispatchTrees
<1>4. CASE StartScheduler \/ Resolved \/ Crash
  BY <1>2, <1>4 DEF StartScheduler, Resolved, Crash
<1>5. ASSUME NEW j \in Items, ResolveAbandoned(j)
      PROVE  FALSE
  <2>1. Ends(j)
    BY <1>0, <1>5, EndEffect DEF ResolveAbandoned
  <2> QED
    BY <1>0, <1>1, <2>1, EffectTrees
<1>6. ASSUME NEW j \in Items, ExecutorStep(j)
      PROVE  FALSE
  BY <1>2, <1>6 DEF NoStore, ExecutorStep, ExecutorStarts, WorkEnters, WorkLeaves,
       JobYields, ExecutorPublishes, ExecutorLeaves, ExecutorDies, OnlyEnv
<1>7. ASSUME NEW g \in Gpus, ForeignLock(g)
      PROVE  FALSE
  BY <1>2, <1>7 DEF NoStore, ForeignLock, OnlyEnv
<1>8. CASE OperatorCommand
  BY <1>0, <1>1, <1>8, CommandEffect, EffectTrees
<1>9. CASE UNCHANGED serviceVars
  BY <1>2, <1>9 DEF serviceVars, NoStore
<1> QED
  BY <1>3, <1>4, <1>5, <1>6, <1>7, <1>8, <1>9 DEF ServiceNext, SchedulerStep

===============================================================================
