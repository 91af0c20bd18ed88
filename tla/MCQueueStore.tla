----------------------------- MODULE MCQueueStore -----------------------------
(* Instances of QueueStore.  The whole next-state relation is checked for one *)
(* item; the transactions that make items, GPUs and reservations interact are *)
(* checked for three items on two GPUs.                                       *)
EXTENDS QueueStore, TLC

CONSTANTS g1, g2, p1

MCOneProject == [i \in Items |-> p1]
MCNoDependencies == [i \in Items |-> {}]
\* Item 2 depends on item 1; the others stand alone.
MCPair == [i \in Items |-> IF i = 2 THEN {1} ELSE {}]

\* Attempts that end well or badly, without termination and worktrees.
PlainAttempt(i) ==
    \/ \E g \in Gpus : \/ Claim(i, g)
                       \/ RecordLaunched(i, 1, g)
                       \/ ReleaseGpuLease(i, g)
    \/ \E ok \in BOOLEAN : RecordExecutorCompletion(i, 1, ok)

\* Dependencies, leases, reservations and continuations of several items.
SharedNext ==
    \/ \E i \in Items : \/ OperatorStep(i)
                        \/ PlainAttempt(i)
                        \/ RecordYieldRequest(i, 1)
                        \/ RecordYieldReceipt(i, 1, "ready")
                        \/ RequeueReadyContinuation(i, 1)
    \/ ReconcileFailedDependencies
    \/ GpuStep

MCGpuSymmetry == Permutations(Gpus)

SharedSpec == Init /\ [][SharedNext]_storeVars
===============================================================================
