--------------------------- MODULE SchedulerService ---------------------------
(***************************************************************************)
(* The foreground scheduler (V5SchedulerService.run_iteration) working on  *)
(* the durable store, one database transaction per step, while executors,  *)
(* GPU work, operators and other host processes act between its steps.     *)
(* The scheduler may crash between any two steps: its executors go on, its *)
(* host GPU locks and its in-memory process table are lost.                *)
(*                                                                         *)
(* Faults and Commands select the disturbances an instance admits.         *)
(***************************************************************************)
EXTENDS QueueStore

CONSTANTS
    NoItem,      \* "no item" for the local variable cur
    Faults,      \* crash, foreign, telemetry, detached, die, evidence, launch,
                 \* prepare, dirty, disk
    Commands,    \* terminate, yield, reserve, pause, close, edit, abandon
    MaxCrashes   \* bound on scheduler crashes

ASSUME ServiceAssumption ==
    /\ NoItem \notin Items
    /\ MaxCrashes \in Nat

VARIABLES
    pc,       \* control point of the process that holds scheduler.lock
    pass,     \* reconciliation pass it is in
    todo,     \* items that pass has still to visit
    seen,     \* states read when the pass started (active_attempts)
    cur,      \* item being handled
    proof,    \* whether current idle telemetry was obtained for cur
    avail,    \* GPUs still to be offered in this dispatch pass
    slot,     \* GPU being offered
    procs,    \* self.processes: attempts launched by this scheduler process
    locks,    \* self.gpu_locks: host GPU locks it holds
    exec,     \* executor process of each item's current segment
    files,    \* evidence files of each item's current segment
    using,    \* <<item, GPU>>: scientific work visible to GPU telemetry
    foreign,  \* GPUs whose host lock another process holds
    crashes   \* number of scheduler crashes so far

control == <<pc, pass, todo, seen, cur, proof, avail, slot>>
procVars == <<procs, locks>>
envVars == <<exec, files, using, foreign, crashes>>
serviceVars == <<storeVars, control, procVars, envVars>>

NoFiles == [launch |-> FALSE, exit |-> "none", yield |-> "none"]

ServiceTypeOK ==
    /\ pc \in {"down", "sleep", "local", "finish", "finalize", "complete",
               "yield", "requeue", "isolateEnded", "decline", "reject",
               "isolation", "isolate", "fail", "quarantine", "gate", "cleanup",
               "spoiled", "restart", "adopt", "adopted", "inspect", "alive",
               "contended", "pending", "orphan", "reservations",
               "dependencies", "dispatch", "offer", "lock", "prepare", "claim",
               "unprepare", "unprepared", "discard", "discarded", "spawn",
               "await", "stop", "record", "launchFailed", "launchPause", "resolve"}
    /\ pass \in {"local", "restart", "pending", "orphan", "dispatch", "resolve"}
    /\ todo \subseteq Items
    /\ seen \in [Items -> States]
    /\ cur \in Items \cup {NoItem}
    /\ proof \in BOOLEAN
    /\ avail \subseteq Gpus
    /\ slot \in Gpus \cup {NoGpu}
    /\ procs \subseteq Items
    /\ locks \subseteq Gpus
    /\ exec \in [Items -> {"none", "booting", "alive", "closing", "gone"}]
    /\ files \in [Items -> [launch : BOOLEAN, exit : {"none", "ok", "fail"},
                            yield : {"none", "ready", "failed"}]]
    /\ using \subseteq Items \X Gpus
    /\ foreign \subseteq Gpus \ locks
    /\ crashes \in 0 .. MaxCrashes

-------------------------------------------------------------------------------
(* Control                                                                 *)

At(p) == pc = p /\ UNCHANGED <<avail, slot>>

Goto(p) == pc' = p /\ UNCHANGED <<pass, todo, seen, cur, proof>>

\* On to the next item of the pass.
Done == /\ pc' = pass
        /\ cur' = NoItem
        /\ proof' = FALSE
        /\ UNCHANGED <<pass, todo, seen>>

\* Take item i out of the pass.
Pick(i, p) == /\ i \in todo
              /\ todo' = todo \ {i}
              /\ cur' = i
              /\ pc' = p
              /\ UNCHANGED <<pass, seen, proof>>

\* Start a pass over the given items, reading their states.
StartPass(p, items) ==
    /\ pc' = p
    /\ pass' = p
    /\ todo' = items
    /\ seen' = [i \in Items |-> IF i \in items THEN StateOf(i) ELSE "absent"]
    /\ cur' = NoItem
    /\ proof' = FALSE

NoStore == UNCHANGED storeVars
NoProc == UNCHANGED procVars
NoEnv == UNCHANGED envVars

\* An exception nobody catches ends the scheduler process: run()'s finally
\* clause closes every lock.
Exit ==
    /\ pc' = "down"
    /\ pass' = "local"
    /\ todo' = {}
    /\ seen' = [i \in Items |-> "absent"]
    /\ cur' = NoItem
    /\ proof' = FALSE
    /\ procs' = {}
    /\ locks' = {}

\* Mutant: a lock another process holds is taken for granted.
LockAnyway(g) == locks' = locks \cup {g}

\* Host GPU locks are per process: one already held is simply kept.
CanLock(g) == g \notin foreign
Lock(g) == locks' = locks \cup ({g} \ foreign)
Unlock(g) == locks' = locks \ {g}
Forked(i) == exec[i] \in {"booting", "alive", "closing"}
Busy(g) == \E i \in Items : <<i, g>> \in using
gpuOf(i) == item[i].gpu

\* Mutant: the executor's end is taken as proof that the GPU is idle.
RequireLocked(g, next) ==
    /\ CanLock(g)
    /\ Lock(g)
    /\ proof' = TRUE
    /\ pc' = next
    /\ UNCHANGED <<pass, todo, seen, cur, procs>>
    /\ NoStore

\* Detached work survives its executor.
JobWorkEnds(i) ==
    \/ using' = {u \in using : u[1] # i}
    \/ "detached" \in Faults /\ UNCHANGED using

\* _require_current_idle_gpu under the host GPU lock: an idle observation goes
\* on to next, a busy one gives up for this iteration, missing lock or
\* telemetry pauses the host.
RequireIdle(g, next) ==
    \/ /\ CanLock(g)
       /\ ~Busy(g)
       /\ Lock(g)
       /\ proof' = TRUE
       /\ pc' = next
       /\ UNCHANGED <<pass, todo, seen, cur, procs>>
       /\ NoStore
    \/ /\ CanLock(g)
       /\ Busy(g)
       /\ Lock(g)
       /\ Done
       /\ UNCHANGED procs
       /\ NoStore
    \/ /\ ~CanLock(g) \/ "telemetry" \in Faults
       /\ PauseHost
       /\ Lock(g)
       /\ Done
       /\ UNCHANGED procs

\* _reconcile_termination_action: the stage's grace period may be over.  One
\* that raises, because the evidence or the signal is refused, pauses the host.
MaybeEscalate(i) ==
    \/ NoStore
    \/ seen[i] = "terminating" /\ EscalateTermination(i, item[i].stage)
    \/ /\ "evidence" \in Faults
       /\ seen[i] \in {"terminating", "force_killing"}
       /\ PauseHost

-------------------------------------------------------------------------------
(* Reconciling the attempts this scheduler process launched                *)

BeginIteration ==
    /\ At("sleep")
    /\ StartPass("local", procs)
    /\ NoStore /\ NoProc /\ NoEnv

\* A running executor may be due for the next termination signal.
VisitLocal(i) ==
    /\ At("local")
    /\ i \in todo
    /\ Forked(i)
    /\ todo' = todo \ {i}
    /\ MaybeEscalate(i)
    /\ UNCHANGED <<pc, pass, seen, cur, proof>>
    /\ NoProc /\ NoEnv

\* The executor exited: _finish_local_process.
FinishLocal(i) ==
    /\ At("local")
    /\ ~Forked(i)
    /\ Pick(i, "finish")
    /\ NoStore /\ NoProc /\ NoEnv

\* Mutant: a yield is finalized like any other end.
FinishUnproven ==
    /\ At("finish")
    /\ Goto("finalize")
    /\ NoStore /\ NoProc /\ NoEnv

\* A yielding attempt needs the idle proof before its evidence is finalized.
FinishStart ==
    /\ At("finish")
    /\ \/ /\ StateOf(cur) = "yielding"
          /\ RequireIdle(gpuOf(cur), "finalize")
       \/ /\ StateOf(cur) # "yielding"
          /\ Goto("finalize")
          /\ NoStore /\ NoProc
    /\ NoEnv

LocalDone ==
    /\ At("local")
    /\ todo = {}
    /\ StartPass("restart", {i \in Items \ procs : StateOf(i) \in Active})
    /\ NoStore /\ NoProc /\ NoEnv

-------------------------------------------------------------------------------
(* _finalize_authenticated_receipt and the handlers around it              *)

\* Receipt and state are read; they select the path.
Finalize ==
    /\ At("finalize")
    /\ \/ /\ files[cur].exit = "none" \/ "evidence" \in Faults
          /\ Goto(IF pass = "local" THEN "reject" ELSE "isolation")
       \/ /\ files[cur].exit # "none"
          /\ Goto(IF StateOf(cur) = "yielding" THEN "yield" ELSE "complete")
    /\ NoStore /\ NoProc /\ NoEnv

\* record_executor_completion, or its refusal in a state that changed since.
Complete ==
    /\ At("complete")
    /\ \/ /\ RecordExecutorCompletion(cur, item[cur].segment,
                                      files[cur].exit = "ok")
          /\ Goto("gate")
       \/ /\ StateOf(cur) \notin Active \ {"yielding"}
          /\ Goto(IF pass = "local" THEN "reject" ELSE "isolation")
          /\ NoStore
    /\ NoProc /\ NoEnv

\* recover_pending, then finalize_manual_yield up to the recorded receipt.
FinalizeYield ==
    /\ At("yield")
    /\ LET seg == item[cur].segment
           status == files[cur].yield
       IN \/ /\ StateOf(cur) # "yielding"
             /\ Goto("gate")
             /\ NoStore
          \/ /\ status = "none" \/ "evidence" \in Faults
             /\ IsolateContinuationFailure(cur, FALSE)
             /\ Goto("isolateEnded")
          \/ /\ StateOf(cur) = "yielding"
             /\ status # "none"
             /\ \/ RecordYieldReceipt(cur, seg, status)
                \/ <<cur, seg, status>> \in receipts /\ NoStore
             /\ Goto(IF status = "ready" THEN "requeue" ELSE "decline")
    /\ NoProc /\ NoEnv

\* requeue_ready_continuation: the segment advances, and with it the executor
\* and the evidence files the item refers to.  A state that changed since makes
\* the compare-and-swap fail, which isolates nothing and is swallowed.
Requeue ==
    /\ At("requeue")
    /\ \/ /\ RequeueReadyContinuation(cur, item[cur].segment)
          /\ exec' = [exec EXCEPT ![cur] = "none"]
          /\ files' = [files EXCEPT ![cur] = NoFiles]
          /\ Goto("gate")
       \/ /\ StateOf(cur) # "yielding"
          /\ Goto("gate")
          /\ NoStore
          /\ UNCHANGED <<exec, files>>
    /\ UNCHANGED <<using, foreign, crashes>>
    /\ NoProc

\* The handler of V5ContinuationError reads the state again.
IsolateEnded ==
    /\ At("isolateEnded")
    /\ Goto(IF StateOf(cur) = "yielding" THEN "decline" ELSE "gate")
    /\ NoStore /\ NoProc /\ NoEnv

\* Terminal isolation of a declined or rejected continuation.
Decline ==
    /\ At("decline")
    /\ \/ /\ IsolateContinuationFailure(cur, TRUE)
          /\ Goto("gate")
       \/ /\ StateOf(cur) # "yielding"
          /\ Goto(IF pass = "local" THEN "reject" ELSE "isolation")
          /\ NoStore
    /\ NoProc /\ NoEnv

\* The exception handler of _finish_local_process.
Reject ==
    /\ At("reject")
    /\ \/ /\ StateOf(cur) \in Ended
          /\ Goto("gate")
          /\ NoStore
       \/ /\ files[cur].exit = "none"
          /\ RecordTerminationCompletion(cur)
          /\ Goto("gate")
       \/ /\ StateOf(cur) \notin Ended
          /\ files[cur].exit = "none" =>
                StateOf(cur) \notin {"terminating", "force_killing"}
          /\ Goto("isolation")
          /\ NoStore
    /\ NoProc /\ NoEnv

\* _isolate_terminal_evidence_failure: the state it reads selects the transition.
Isolation ==
    /\ At("isolation")
    /\ Goto(CASE StateOf(cur) \notin Active -> "gate"
              [] StateOf(cur) = "yielding" -> "isolate"
              [] OTHER -> "fail")
    /\ NoStore /\ NoProc /\ NoEnv

\* A refused isolation is caught by nobody.
Isolate ==
    /\ At("isolate")
    /\ \/ /\ IsolateContinuationFailure(cur, TRUE)
          /\ Goto("gate")
          /\ NoProc
       \/ /\ StateOf(cur) # "yielding"
          /\ Exit
          /\ NoStore
    /\ NoEnv

Fail ==
    /\ At("fail")
    /\ FailActiveItem(cur)
    /\ Goto("quarantine")
    /\ NoProc /\ NoEnv

Quarantine ==
    /\ At("quarantine")
    /\ QuarantineProject(projectOf[cur])
    /\ Goto("gate")
    /\ NoProc /\ NoEnv

\* Mutant: cleanup comes first.
ReleaseLast ==
    /\ At("gate")
    /\ Goto("cleanup")
    /\ NoStore /\ NoProc /\ NoEnv

\* The lease goes only with idle telemetry; a lease already gone is accepted,
\* an attempt that is active after all raises to the top.
Release ==
    /\ At("gate")
    /\ \/ /\ ~proof
          /\ RequireIdle(gpuOf(cur), "gate")
       \/ /\ proof
          /\ ReleaseGpuLease(cur, gpuOf(cur))
          /\ Goto("cleanup")
          /\ NoProc
       \/ /\ proof
          /\ StateOf(cur) \notin Active
          /\ ~item[cur].held
          /\ Goto("cleanup")
          /\ NoStore /\ NoProc
       \/ /\ proof
          /\ StateOf(cur) \in Active
          /\ Exit
          /\ NoStore
    /\ NoEnv

\* The end of an item: host lock closed, process table entry dropped.
Finished(g) ==
    /\ Unlock(g)
    /\ procs' = IF pass = "local" THEN procs \ {cur} ELSE procs
    /\ Done

HasTree(i) == item[i].tree \in {"present", "failed"}

\* Worktree removal and its record.  The pending pass insists on a recorded,
\* unremoved worktree; the others repeat a removal harmlessly.  A recovered
\* attempt whose context was rejected is left to the orphan pass.
Cleanup ==
    /\ At("cleanup")
    /\ \/ /\ HasTree(cur)
          /\ RecordWorktreeCleanup(cur, TRUE)
          /\ Finished(gpuOf(cur))
       \/ /\ HasTree(cur)
          /\ "dirty" \in Faults
          /\ RecordWorktreeCleanup(cur, FALSE)
          /\ Goto("spoiled")
          /\ NoProc
       \/ /\ ~HasTree(cur)
          /\ IF pass = "pending" THEN QuarantineProject(projectOf[cur])
                                ELSE NoStore
          /\ Finished(gpuOf(cur))
       \/ /\ pass = "restart"
          /\ "evidence" \in Faults
          /\ NoStore
          /\ Finished(gpuOf(cur))
    /\ NoEnv

Spoiled ==
    /\ At("spoiled")
    /\ QuarantineProject(projectOf[cur])
    /\ IF pass = "orphan" THEN Done /\ NoProc ELSE Finished(gpuOf(cur))
    /\ NoEnv

-------------------------------------------------------------------------------
(* Reconciling attempts of an earlier scheduler process                    *)

VisitRestarted(i) ==
    /\ At("restart")
    /\ Pick(i, IF item[i].launched THEN "inspect" ELSE "adopt")
    /\ NoStore /\ NoProc /\ NoEnv

\* _pause_ambiguous_launch: keep the GPU locked if it can be locked.
PauseAmbiguous ==
    /\ PauseHost
    /\ Lock(gpuOf(cur))
    /\ UNCHANGED procs
    /\ Done

\* Mutant: an attempt without a launch receipt is launched again.
AdoptRelaunch ==
    /\ At("adopt")
    /\ ~files[cur].launch
    /\ exec' = [exec EXCEPT ![cur] = "booting"]
    /\ Done
    /\ UNCHANGED <<files, using, foreign, crashes>>
    /\ NoStore /\ NoProc

\* _recover_durable_launch_identity
Adopt ==
    /\ At("adopt")
    /\ \/ /\ files[cur].launch
          /\ RecordLaunched(cur, item[cur].segment, gpuOf(cur))
          /\ Goto("adopted")
          /\ NoProc
       \/ /\ ~files[cur].launch \/ "evidence" \in Faults
          /\ PauseAmbiguous
    /\ NoEnv

\* The refreshed row replaces the snapshot.
Adopted ==
    /\ At("adopted")
    /\ seen' = [seen EXCEPT ![cur] = StateOf(cur)]
    /\ pc' = "inspect"
    /\ UNCHANGED <<pass, todo, cur, proof>>
    /\ NoStore /\ NoProc /\ NoEnv

\* Mutant: only liveness of the recorded process is looked at.
InspectAliveOnly ==
    /\ At("inspect")
    /\ Goto("alive")
    /\ NoStore /\ NoProc /\ NoEnv

\* The snapshot state decides whether the idle proof comes first.
Inspect ==
    /\ At("inspect")
    /\ \/ /\ files[cur].exit # "none"
          /\ seen[cur] = "yielding"
          /\ RequireIdle(gpuOf(cur), "finalize")
       \/ /\ files[cur].exit # "none"
          /\ seen[cur] # "yielding"
          /\ Goto("finalize")
          /\ NoStore /\ NoProc
       \/ /\ files[cur].exit = "none"
          /\ Goto("alive")
          /\ NoStore /\ NoProc
    /\ NoEnv

\* No exit receipt was there: is the recorded process alive?
CheckAlive ==
    /\ At("alive")
    /\ \/ /\ Forked(cur)
          /\ CanLock(gpuOf(cur))
          /\ Lock(gpuOf(cur))
          /\ UNCHANGED procs
          /\ MaybeEscalate(cur)
          /\ Done
       \/ /\ Forked(cur)
          /\ ~CanLock(gpuOf(cur))
          /\ PauseHost
          /\ Goto("contended")
          /\ NoProc
       \/ /\ ~Forked(cur)
          /\ PauseAmbiguous
    /\ NoEnv

Contended ==
    /\ At("contended")
    /\ QuarantineProject(projectOf[cur])
    /\ Done
    /\ NoProc /\ NoEnv

\* Mutant: leases of ended attempts are left to whoever ended them.
RestartDoneNoPending ==
    /\ At("restart")
    /\ todo = {}
    /\ StartPass("pending", {})
    /\ NoStore /\ NoProc /\ NoEnv

RestartDone ==
    /\ At("restart")
    /\ todo = {}
    /\ StartPass("pending", {i \in Items : StateOf(i) \notin Active
                                           /\ item[i].held})
    /\ NoStore /\ NoProc /\ NoEnv

-------------------------------------------------------------------------------
(* Leases of ended attempts, orphaned worktrees, reservations, dependencies *)

VisitPending(i) ==
    /\ At("pending")
    /\ Pick(i, "gate")
    /\ NoStore /\ NoProc /\ NoEnv

PendingDone ==
    /\ At("pending")
    /\ todo = {}
    /\ StartPass("orphan", {i \in Items : /\ StateOf(i) \notin Active
                                          /\ ~item[i].held
                                          /\ HasTree(i)})
    /\ NoStore /\ NoProc /\ NoEnv

\* A refused cleanup, and evidence that does not authenticate, quarantine the
\* Project.
VisitOrphan(i) ==
    /\ At("orphan")
    /\ \/ /\ RecordWorktreeCleanup(i, TRUE)
          /\ i \in todo
          /\ todo' = todo \ {i}
          /\ UNCHANGED <<pc, pass, seen, cur, proof>>
       \/ /\ "dirty" \in Faults
          /\ RecordWorktreeCleanup(i, FALSE)
          /\ Pick(i, "spoiled")
       \/ /\ "evidence" \in Faults
          /\ NoStore
          /\ Pick(i, "spoiled")
    /\ NoProc /\ NoEnv

OrphanDone ==
    /\ At("orphan")
    /\ todo = {}
    /\ Goto("reservations")
    /\ NoStore /\ NoProc /\ NoEnv

Reservations ==
    /\ At("reservations")
    /\ \E due \in SUBSET Gpus : ReconcileReservations(due)
    /\ Goto("dependencies")
    /\ NoProc /\ NoEnv

Dependencies ==
    /\ At("dependencies")
    /\ ReconcileFailedDependencies
    /\ Goto("dispatch")
    /\ NoProc /\ NoEnv

-------------------------------------------------------------------------------
(* Dispatch                                                                *)

Sleep == /\ pc' = "sleep"
         /\ cur' = NoItem
         /\ avail' = {}
         /\ slot' = NoGpu
         /\ UNCHANGED <<pass, todo, seen, proof>>

\* On to the next available GPU.
NextGpu == /\ pc' = "offer"
           /\ cur' = NoItem
           /\ slot' = NoGpu
           /\ UNCHANGED <<pass, todo, seen, proof, avail>>

\* A pause or an unexpired poll interval skips dispatch; missing telemetry
\* pauses; otherwise _available_gpus.
BeginDispatch ==
    /\ pc = "dispatch"
    /\ \/ Sleep /\ NoStore
       \/ "telemetry" \in Faults /\ PauseHost /\ Sleep
       \/ /\ ~paused
          /\ avail' = {g \in Gpus : /\ Dispatchable(g)
                                    /\ HeldOn(g) = {}
                                    /\ reservation[g] = "none"
                                    /\ ~Busy(g)}
          /\ pc' = "offer"
          /\ UNCHANGED <<pass, todo, seen, cur, proof, slot>>
          /\ NoStore
    /\ NoProc /\ NoEnv

\* The head candidate is offered the next GPU unless a disk is full.
Offer ==
    /\ pc = "offer"
    /\ \/ /\ avail = {} \/ paused
          /\ Sleep
          /\ NoStore
       \/ /\ ~paused
          /\ HeadCandidates = {}
          /\ \E g \in avail : avail' = avail \ {g}
          /\ UNCHANGED <<pc, pass, todo, seen, cur, proof, slot>>
          /\ NoStore
       \/ \E g \in avail, i \in HeadCandidates :
             /\ avail' = avail \ {g}
             /\ \/ /\ cur' = i
                   /\ slot' = g
                   /\ pc' = "lock"
                   /\ NoStore
                \/ /\ "disk" \in Faults
                   /\ PauseHost \/ QuarantineProject(projectOf[i])
                   /\ UNCHANGED <<pc, cur, slot>>
             /\ UNCHANGED <<pass, todo, seen, proof>>
    /\ NoProc /\ NoEnv

\* Telemetry is read again under the host GPU lock.
LockGpu ==
    /\ pc = "lock"
    /\ \/ /\ CanLock(slot)
          /\ ~Busy(slot)
          /\ Lock(slot)
          /\ UNCHANGED <<procs, avail, slot>>
          /\ Goto("prepare")
          /\ NoStore
       \/ /\ ~CanLock(slot) \/ Busy(slot)
          /\ NextGpu
          /\ UNCHANGED procs
          /\ IF CanLock(slot) THEN Unlock(slot) ELSE UNCHANGED locks
          /\ NoStore
       \/ /\ "telemetry" \in Faults
          /\ CanLock(slot)
          /\ PauseHost
          /\ NextGpu
          /\ UNCHANGED procs
          /\ Unlock(slot)
    /\ NoEnv

\* _prepare_dispatch: the worktree and its record.  It may fail before the
\* record, or after it (and then removes the worktree again).
Prepare ==
    /\ At("prepare")
    /\ \/ /\ \/ RecordWorktreePrepared(cur)
             \/ HasTree(cur) /\ NoStore
          /\ Goto("claim") \/ ("prepare" \in Faults /\ Goto("unprepare"))
       \/ /\ "prepare" \in Faults
          /\ Goto("unprepared")
          /\ NoStore
    /\ NoProc /\ NoEnv

Unprepare ==
    /\ At("unprepare")
    /\ \/ RecordWorktreeCleanup(cur, TRUE)
       \/ "dirty" \in Faults /\ RecordWorktreeCleanup(cur, FALSE)
    /\ Goto("unprepared")
    /\ NoProc /\ NoEnv

Unprepared ==
    /\ pc = "unprepared"
    /\ QuarantineProject(projectOf[cur])
    /\ Unlock(slot)
    /\ UNCHANGED procs
    /\ NextGpu
    /\ NoEnv

\* Every predicate is tested again by the claim itself.
ClaimItem ==
    /\ At("claim")
    /\ \/ Claim(cur, slot) /\ Goto("spawn")
       \/ ~Claimable(cur, slot) /\ Goto("discard") /\ NoStore
    /\ NoProc /\ NoEnv

\* Give the worktree and the host lock back after a lost claim or a failed
\* launch.
Discard ==
    /\ pc = "discard"
    /\ \/ /\ RecordWorktreeCleanup(cur, TRUE)
          /\ Unlock(slot)
          /\ UNCHANGED procs
          /\ NextGpu
       \/ /\ "dirty" \in Faults
          /\ RecordWorktreeCleanup(cur, FALSE)
          /\ Goto("discarded")
          /\ NoProc
          /\ UNCHANGED <<avail, slot>>
    /\ NoEnv

Discarded ==
    /\ pc = "discarded"
    /\ QuarantineProject(projectOf[cur])
    /\ Unlock(slot)
    /\ UNCHANGED procs
    /\ NextGpu
    /\ NoEnv

\* launch_prepared_attempt forks the executor, unless the fork fails or the
\* segment already has evidence.
Spawn ==
    /\ At("spawn")
    /\ \/ /\ ~files[cur].launch
          /\ files[cur].exit = "none"
          /\ exec' = [exec EXCEPT ![cur] = "booting"]
          /\ Goto("await")
       \/ /\ files[cur].launch \/ files[cur].exit # "none" \/ "launch" \in Faults
          /\ Goto("launchFailed")
          /\ UNCHANGED exec
    /\ UNCHANGED <<files, using, foreign, crashes>>
    /\ NoStore /\ NoProc

\* Mutant: a failed launch is recorded without stopping the process group.
AwaitUnstopped ==
    /\ At("await")
    /\ Goto(IF files[cur].launch THEN "record" ELSE "launchFailed")
    /\ NoStore /\ NoProc /\ NoEnv

\* The launch receipt appears and is read, or the wait is given up.
Await ==
    /\ At("await")
    /\ \/ /\ files[cur].launch
          /\ Goto("record")
       \/ /\ "launch" \in Faults \/ (~files[cur].launch /\ ~Forked(cur))
          /\ Goto("stop")
    /\ NoStore /\ NoProc /\ NoEnv

\* _stop_failed_launch_group: meanwhile the executor may have gone on.  Its
\* group is killed and proved absent, or its absence cannot be proved.
Stop ==
    /\ pc = "stop"
    /\ \/ /\ exec' = [exec EXCEPT ![cur] = "gone"]
          /\ JobWorkEnds(cur)
          /\ Goto("launchFailed")
          /\ UNCHANGED <<avail, slot>>
          /\ NoStore
       \/ /\ "launch" \in Faults
          /\ PauseHost
          /\ NextGpu
          /\ UNCHANGED <<exec, using>>
    /\ UNCHANGED <<files, foreign, crashes>>
    /\ NoProc

RecordLaunch ==
    /\ pc = "record"
    /\ RecordLaunched(cur, item[cur].segment, slot)
    /\ procs' = procs \cup {cur}
    /\ UNCHANGED locks
    /\ NextGpu
    /\ NoEnv

LaunchFailed ==
    /\ At("launchFailed")
    /\ FailActiveItem(cur)
    /\ Goto("launchPause")
    /\ NoProc /\ NoEnv

LaunchPause ==
    /\ At("launchPause")
    /\ PauseHost
    /\ Goto("discard")
    /\ NoProc /\ NoEnv

-------------------------------------------------------------------------------
(* The scheduler process                                                   *)

\* run() takes scheduler.lock and starts with an empty process table.
StartScheduler ==
    /\ At("down")
    /\ Goto("sleep")
    /\ NoStore /\ NoProc /\ NoEnv

\* A crash loses every host lock and the process table; executors live on.
Crash ==
    /\ "crash" \in Faults
    /\ pc # "down"
    /\ crashes < MaxCrashes
    /\ crashes' = crashes + 1
    /\ Exit
    /\ avail' = {}
    /\ slot' = NoGpu
    /\ UNCHANGED <<exec, files, using, foreign>>
    /\ NoStore

\* resolve_abandoned_launch by an operator, under scheduler.lock: the attempt
\* has no exit receipt and no process, its GPU is idle and locked.  The command
\* tests a process that a row or a launch receipt names; that a claim without
\* either has none is what the operator confirms with RESOLVE-ABANDONED-LAUNCH.
ResolveAbandoned(i) ==
    /\ At("down")
    /\ "abandon" \in Commands
    /\ files[i].exit = "none"
    /\ ~Forked(i)
    /\ CanLock(gpuOf(i))
    /\ ~Busy(gpuOf(i))
    /\ ResolveAbandonedLaunch(i, gpuOf(i), item[i].launched)
    /\ Lock(gpuOf(i))
    /\ pc' = "gate"
    /\ pass' = "resolve"
    /\ cur' = i
    /\ proof' = TRUE
    /\ UNCHANGED <<todo, seen, procs>>
    /\ NoEnv

Resolved ==
    /\ At("resolve")
    /\ Exit
    /\ NoStore /\ NoEnv

-------------------------------------------------------------------------------
(* Executors, GPU work, other processes and operators                      *)

OnlyEnv == UNCHANGED <<storeVars, control, procVars, crashes>>

\* The executor publishes its launch receipt before it starts the job.
ExecutorStarts(i) ==
    /\ exec[i] = "booting"
    /\ exec' = [exec EXCEPT ![i] = "alive"]
    /\ files' = [files EXCEPT ![i].launch = TRUE]
    /\ UNCHANGED <<using, foreign>>
    /\ OnlyEnv

WorkEnters(i) ==
    /\ exec[i] = "alive"
    /\ using' = using \cup {<<i, gpuOf(i)>>}
    /\ UNCHANGED <<exec, files, foreign>>
    /\ OnlyEnv

WorkLeaves(i, g) ==
    /\ <<i, g>> \in using
    /\ using' = using \ {<<i, g>>}
    /\ UNCHANGED <<exec, files, foreign>>
    /\ OnlyEnv

\* A cooperating job answers the published yield request.
JobYields(i, status) ==
    /\ exec[i] = "alive"
    /\ <<i, item[i].segment>> \in requests
    /\ files[i].yield = "none"
    /\ files' = [files EXCEPT ![i].yield = status]
    /\ UNCHANGED <<exec, using, foreign>>
    /\ OnlyEnv

\* The exit receipt is published before the executor leaves.
ExecutorPublishes(i, rc) ==
    /\ exec[i] = "alive"
    /\ exec' = [exec EXCEPT ![i] = "closing"]
    /\ files' = [files EXCEPT ![i].exit = rc]
    /\ JobWorkEnds(i)
    /\ UNCHANGED foreign
    /\ OnlyEnv

ExecutorLeaves(i) ==
    /\ exec[i] = "closing"
    /\ exec' = [exec EXCEPT ![i] = "gone"]
    /\ UNCHANGED <<files, using, foreign>>
    /\ OnlyEnv

\* Killed, by the operator's SIGKILL or otherwise, without a receipt.
ExecutorDies(i) ==
    /\ exec[i] \in {"booting", "alive"}
    /\ "die" \in Faults \/ StateOf(i) = "force_killing"
    /\ exec' = [exec EXCEPT ![i] = "gone"]
    /\ JobWorkEnds(i)
    /\ UNCHANGED <<files, foreign>>
    /\ OnlyEnv

\* Another host process takes or gives back a host GPU lock.
ForeignLock(g) ==
    /\ "foreign" \in Faults
    /\ g \notin locks
    /\ foreign' = (foreign \ {g}) \cup ({g} \ foreign)
    /\ UNCHANGED <<exec, files, using>>
    /\ OnlyEnv

\* Commands of short-lived operator processes (CLI, web): one transaction each.
OperatorCommand ==
    /\ \/ /\ "terminate" \in Commands
          /\ \E i \in Items, force \in BOOLEAN : RequestTermination(i, force)
       \/ /\ "yield" \in Commands
          /\ \E i \in Items : /\ item[i].segment < MaxSegment
                              /\ RecordYieldRequest(i, item[i].segment)
       \/ /\ "reserve" \in Commands
          /\ \E g \in Gpus : RequestReservation(g) \/ ReleaseReservation(g)
       \/ /\ "pause" \in Commands
          /\ paused
          /\ ResumeHost
       \/ /\ "pause" \in Commands
          /\ ~paused
          /\ PauseHost
       \/ /\ "close" \in Commands
          /\ \E p \in Projects : CloseProjectCircuit(p)
       \/ /\ "edit" \in Commands
          /\ \E i \in Items : HoldItem(i) \/ ReleaseItem(i) \/ RemoveItem(i)
    /\ UNCHANGED <<control, procVars, envVars>>

-------------------------------------------------------------------------------
\* Everything is admitted and every GPU is listed; no scheduler runs yet.
ServiceInit ==
    /\ item \in [Items -> {[NewRow(prio) EXCEPT !.state = "queued"] :
                             prio \in Priorities}]
    /\ requests = {}
    /\ receipts = {}
    /\ paused = FALSE
    /\ lifecycle = [p \in Projects |-> "active"]
    /\ health = [p \in Projects |-> "closed"]
    /\ allow = [g \in Gpus |-> [listed |-> TRUE, enabled |-> TRUE,
                                draining |-> FALSE]]
    /\ reservation = [g \in Gpus |-> "none"]
    /\ pc = "down"
    /\ pass = "local"
    /\ todo = {}
    /\ seen = [i \in Items |-> "absent"]
    /\ cur = NoItem
    /\ proof = FALSE
    /\ avail = {}
    /\ slot = NoGpu
    /\ procs = {}
    /\ locks = {}
    /\ exec = [i \in Items |-> "none"]
    /\ files = [i \in Items |-> NoFiles]
    /\ using = {}
    /\ foreign = {}
    /\ crashes = 0

PassStep ==
    \/ \E i \in Items : \/ VisitLocal(i)
                        \/ FinishLocal(i)
                        \/ VisitRestarted(i)
                        \/ VisitPending(i)
                        \/ VisitOrphan(i)
    \/ BeginIteration
    \/ LocalDone
    \/ RestartDone
    \/ PendingDone
    \/ OrphanDone
    \/ Reservations
    \/ Dependencies

FinishStep ==
    \/ FinishStart \/ Finalize \/ Complete \/ FinalizeYield \/ Requeue
    \/ IsolateEnded \/ Decline \/ Reject \/ Isolation \/ Isolate \/ Fail
    \/ Quarantine \/ Release \/ Cleanup \/ Spoiled

RestartStep == Adopt \/ Adopted \/ Inspect \/ CheckAlive \/ Contended

DispatchStep ==
    \/ BeginDispatch \/ Offer \/ LockGpu \/ Prepare \/ Unprepare \/ Unprepared
    \/ ClaimItem \/ Discard \/ Discarded \/ Spawn \/ Await \/ Stop
    \/ RecordLaunch
    \/ LaunchFailed \/ LaunchPause

SchedulerStep ==
    PassStep \/ FinishStep \/ RestartStep \/ DispatchStep \/ StartScheduler
    \/ Resolved

ExecutorStep(i) ==
    \/ ExecutorStarts(i)
    \/ WorkEnters(i)
    \/ \E g \in Gpus : WorkLeaves(i, g)
    \/ \E status \in {"ready", "failed"} : JobYields(i, status)
    \/ \E rc \in {"ok", "fail"} : ExecutorPublishes(i, rc)
    \/ ExecutorLeaves(i)
    \/ ExecutorDies(i)

ServiceNext ==
    \/ SchedulerStep
    \/ Crash
    \/ \E i \in Items : ResolveAbandoned(i) \/ ExecutorStep(i)
    \/ \E g \in Gpus : ForeignLock(g)
    \/ OperatorCommand

ServiceSpec == ServiceInit /\ [][ServiceNext]_serviceVars

\* The scheduler keeps running (a supervisor restarts it), executors that
\* published their receipt exit, and GPU work eventually stops.
FairServiceSpec ==
    /\ ServiceSpec
    /\ WF_serviceVars(SchedulerStep)
    /\ \A i \in Items : /\ WF_serviceVars(ExecutorLeaves(i))
                        /\ \A g \in Gpus : WF_serviceVars(WorkLeaves(i, g))

-------------------------------------------------------------------------------
(* Properties                                                              *)

\* Work that telemetry could see on a GPU always belongs to the item that holds
\* the GPU's runtime lease: no reconciliation path, crash or race gives the GPU
\* away under detached work (ADR 0011, _require_current_idle_gpu).
LeaseCoversWork ==
    \A i \in Items, g \in Gpus :
        <<i, g>> \in using => item[i].held /\ item[i].gpu = g

\* A process that may still run the job belongs to an active row with its
\* worktree: no launch failure, restart, abandoned-launch resolution or evidence
\* failure ends an attempt while its executor lives, and neither the orphan pass
\* nor a failed launch records its worktree as removed (_dispatch_one,
\* _reconcile_restarted_processes, _reconcile_orphaned_worktree_cleanup).
LiveExecutorIsActive ==
    \A i \in Items : exec[i] \in {"booting", "alive"} => StateOf(i) \in Active /\ HasTree(i)

\* No two executors that may still run a job were given the same GPU, across
\* launch failures, crashes and restarts.
OneExecutorPerGpu ==
    \A i, j \in Items :
        /\ exec[i] \in {"booting", "alive"}
        /\ exec[j] \in {"booting", "alive"}
        /\ gpuOf(i) = gpuOf(j)
        => i = j

\* As long as an attempt launched by this scheduler is active, the scheduler
\* owns the host lock of its GPU (_dispatch_one, _finish_local_process).
LocalAttemptKeepsLock ==
    \A i \in procs : StateOf(i) \in Active => gpuOf(i) \in locks

\* A runtime lease is dropped only by a process that owns the host GPU lock and
\* while the GPU shows no work (_require_current_idle_gpu before
\* release_gpu_lease and before requeue_ready_continuation).
ReleaseIsProven ==
    [][\A i \in Items : item[i].held /\ ~item[i].held' =>
         gpuOf(i) \in locks /\ ~Busy(gpuOf(i))]_serviceVars

\* Worktree removal is recorded only after the runtime lease was released
\* (ADR 0011: release comes before worktree cleanup).
CleanupFollowsRelease ==
    [][\A i \in Items : item[i].tree # "removed" /\ item[i].tree' = "removed" =>
         ~item[i].held]_serviceVars

\* A segment gets at most one executor, across crashes, restarts and late
\* launch receipts (launch_prepared_attempt, _recover_durable_launch_identity).
SegmentLaunchedOnce ==
    [][\A i \in Items : exec'[i] = "booting" /\ exec[i] # "booting" =>
         exec[i] = "none"]_serviceVars

\* The scheduler process stops only when it crashes or is interrupted: "serve
\* until interrupted" (the docstring of run).
ServesUntilInterrupted ==
    [][pc # "down" /\ pc' = "down" => pass = "resolve" \/ crashes' # crashes]_serviceVars

\* The lease of an ended attempt is eventually released, by whichever pass of
\* whichever scheduler process (_reconcile_pending_gpu_lease_releases).
LeaseEventuallyFree ==
    \A i \in Items :
        item[i].held /\ StateOf(i) \in Ended ~> ~item[i].held

\* An attempt whose executor published its receipt eventually leaves the active
\* states, even if the scheduler that launched it is gone
\* (_finish_local_process, _reconcile_restarted_processes).
ReceiptEventuallyApplied ==
    \A i \in Items :
        files[i].exit # "none" /\ StateOf(i) \in Active
            ~> StateOf(i) \notin Active \/ files[i].exit = "none"
===============================================================================
