---------------------------- MODULE ServiceTheorems ----------------------------
(***************************************************************************)
(* What holds of the running service: the theorems that follow from the    *)
(* invariant of ServiceProofs and from what QueueStoreProofs shows of the  *)
(* store's transactions.                                                   *)
(***************************************************************************)
EXTENDS ServiceProofs, QueueStoreProofs

\* The invariant that the theorems about the service share.
LEMMA ServiceInvariance == ServiceSpec => []ServiceInv
<1>1. ServiceInv /\ [ServiceNext]_serviceVars => ServiceInv'
  <2> SUFFICES ASSUME ServiceInv, [ServiceNext]_serviceVars
               PROVE  ServiceInv'
    OBVIOUS
  <2>1. LeaseInv'
    <3>1. LeaseInv /\ [Next]_storeVars
      BY ServiceTransactions DEF ServiceInv
    <3> QED
      BY <3>1, StepKeepsLeases
  <2> QED
    BY <2>1, ServiceStepInv
<1> QED
  BY <1>1, ServiceInitInv, PTL DEF ServiceSpec

\* Every variable of the scheduler service keeps its type.
THEOREM ServiceTypes == ServiceSpec => []ServiceTypeOK
<1>1. ServiceInv => ServiceTypeOK
  BY DEF ServiceInv
<1> QED
  BY <1>1, ServiceInvariance, PTL

\* Every step of the scheduler process, of its executors and of the operators is
\* one transaction of the queue store or leaves the store alone: what the store
\* promises of a step, it promises of the running service.
THEOREM ServiceUsesStore == ServiceSpec => [][Next]_storeVars
BY ServiceInvariance, ServiceTransactions, PTL DEF ServiceSpec

\* GPU ownership in the running service: no GPU carries two runtime leases and a
\* reserved GPU carries none (GpuIsExclusive), although the scheduler's passes
\* interleave with operators, executors, crashes and restarts.
THEOREM ServiceLeaseSafety == ServiceSpec => []GpuIsExclusive
<1>1. ServiceInv => GpuIsExclusive
  BY DEF ServiceInv, LeaseInv, GpuIsExclusive
<1> QED
  BY <1>1, ServiceInvariance, PTL

\* A process that may still run the job belongs to an active row with its
\* worktree (_dispatch_one, _reconcile_restarted_processes).
THEOREM LiveExecutor == ServiceSpec => []LiveExecutorIsActive
<1>1. ServiceInv => LiveExecutorIsActive
  BY Zenon DEF ServiceInv, ItemInv, Live, LiveExecutorIsActive
<1> QED
  BY <1>1, ServiceInvariance, PTL

\* No two executors that may still run a job were given the same GPU, across
\* launch failures, crashes and restarts.
THEOREM OneExecutor == ServiceSpec => []OneExecutorPerGpu
<1>1. ASSUME ServiceInv
      PROVE  OneExecutorPerGpu
  <2> SUFFICES ASSUME NEW i \in Items, NEW j \in Items,
                      exec[i] \in Live, exec[j] \in Live, gpuOf(i) = gpuOf(j)
               PROVE  i = j
    BY DEF OneExecutorPerGpu, Live
  <2>1. StateOf(i) \in Active /\ StateOf(j) \in Active
    BY <1>1, Zenon DEF ServiceInv, ItemInv
  <2>2. item[i].held /\ item[j].held
    BY <1>1, <2>1, HeldGpu
  <2> QED
    BY <1>1, <2>2 DEF ServiceInv, LeaseInv, OneLeasePerGpu, gpuOf
<1> QED
  BY <1>1, ServiceInvariance, PTL

\* Work on a GPU belongs to the item with the GPU's lease, unless work detaches
\* from its executor and attempts are asked to yield: then the restart pass may
\* requeue without the idle proof, which the run stale_snapshot shows.
THEOREM WorkIsCovered ==
    ASSUME "detached" \notin Faults \/ "yield" \notin Commands
    PROVE  ServiceSpec => []LeaseCoversWork
<1>1. ServiceInv => LeaseCoversWork
  BY DEF ServiceInv, CoverInv
<1> QED
  BY <1>1, ServiceInvariance, PTL

\* The store's action properties in the running service: an outcome is final, a
\* requested termination is never overtaken by a receipt or a yield, and a lease
\* outlives its attempt.
THEOREM ServiceFinality ==
    ServiceSpec => OutcomeIsFinal /\ TerminationWins /\ LeaseOutlivesAttempt
<1>1. ServiceInv => RowInv
  BY DEF ServiceInv, LeaseInv
<1> QED
  BY <1>1, ServiceInvariance, ServiceUsesStore, OutcomeSteps, TerminationSteps,
     LeaseSteps, PTL DEF OutcomeIsFinal, TerminationWins, LeaseOutlivesAttempt

\* A segment gets at most one executor, across crashes, restarts and late launch
\* receipts (launch_prepared_attempt, _recover_durable_launch_identity).
THEOREM LaunchedOnce == ServiceSpec => SegmentLaunchedOnce
<1>1. ServiceInv /\ [ServiceNext]_serviceVars =>
        [\A i \in Items : exec'[i] = "booting" /\ exec[i] # "booting" =>
           exec[i] = "none"]_serviceVars
  BY LaunchSteps
<1> QED
  BY <1>1, ServiceInvariance, PTL DEF ServiceSpec, SegmentLaunchedOnce

\* A runtime lease goes only with current idle telemetry under the host GPU lock
\* (_require_current_idle_gpu), whichever pass, process or operator drops it and
\* whatever happened since the proof, with the one exception of a requeue by the
\* restart pass, which may act on the state it read before a yield request.
THEOREM ReleasesProven == ServiceSpec => ReleaseProvenOrStale
<1>1. ServiceInv /\ [ServiceNext]_serviceVars =>
        [\A i \in Items : item[i].held /\ ~item[i].held' =>
           \/ gpuOf(i) \in locks /\ ~Busy(gpuOf(i))
           \/ pc = "requeue" /\ pass = "restart" /\ ~proof /\ cur = i]_serviceVars
  BY ReleaseSteps
<1> QED
  BY <1>1, ServiceInvariance, PTL DEF ServiceSpec, ReleaseProvenOrStale

\* Where no attempt is asked to yield, ReleaseIsProven holds without exception.
THEOREM ReleasesProvenWithoutYields ==
    ASSUME "yield" \notin Commands
    PROVE  ServiceSpec => ReleaseIsProven
<1>1. ServiceInv /\ [ServiceNext]_serviceVars =>
        [\A i \in Items : item[i].held /\ ~item[i].held' =>
           gpuOf(i) \in locks /\ ~Busy(gpuOf(i))]_serviceVars
  BY ReleaseSteps DEF ServiceInv, NoYield
<1> QED
  BY <1>1, ServiceInvariance, PTL DEF ServiceSpec, ReleaseIsProven

\* The removal of a worktree is recorded only after the runtime lease was
\* released (ADR 0011), unless a launch fails: then _dispatch_one discards the
\* worktree of an attempt that still holds its lease, which the run
\* launch_failure shows.
THEOREM RemovalFollowsRelease ==
    ASSUME "launch" \notin Faults, "die" \notin Faults
    PROVE  ServiceSpec => CleanupFollowsRelease
<1>1. ServiceInv /\ [ServiceNext]_serviceVars =>
        [\A i \in Items : item[i].tree # "removed" /\ item[i].tree' = "removed" =>
           ~item[i].held]_serviceVars
  BY RemovalSteps DEF ServiceInv, LaunchInv
<1> QED
  BY <1>1, ServiceInvariance, PTL DEF ServiceSpec, CleanupFollowsRelease
================================================================================
