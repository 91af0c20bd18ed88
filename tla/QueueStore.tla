------------------------------ MODULE QueueStore ------------------------------
(***************************************************************************)
(* The durable schema-v5 state of the experiment queue: one row per queue  *)
(* item, the host pause flag, each Project's lifecycle and health circuit, *)
(* the GPU allowlist, the passive reservations and the cooperative-yield   *)
(* evidence.  Every action is one BEGIN IMMEDIATE transaction of           *)
(* V5SchedulingController, V5Repository, V5OperatorRepository or           *)
(* V5ReservationService; SQLite makes each of them atomic.                 *)
(*                                                                         *)
(* The callers (scheduler, CLI, web) are not modelled here: any            *)
(* transaction may be submitted at any moment, with any arguments, and a   *)
(* transaction whose guard fails raises and changes nothing.  What holds   *)
(* here therefore holds whatever the callers do and wherever they crash.   *)
(***************************************************************************)
EXTENDS Naturals, FiniteSets

CONSTANTS
    Items,       \* queue item ids (the autoincrement primary key)
    Gpus,        \* GPU UUIDs of the host
    NoGpu,       \* SQL NULL in assigned_gpu_uuid
    Projects,    \* registered Projects
    projectOf,   \* owning Project of each item (immutable)
    dependsOn,   \* dependency rows of each item (immutable, written by admit)
    Preemptible, \* items admitted with preemption authorization
    Priorities,  \* bounded set of priorities
    MaxSegment   \* bound on the segments of one item

ASSUME StoreAssumption ==
    /\ Items \subseteq Nat
    /\ NoGpu \notin Gpus
    /\ projectOf \in [Items -> Projects]
    /\ dependsOn \in [Items -> SUBSET Items]
    /\ Preemptible \subseteq Items
    /\ Priorities \subseteq Nat
    /\ MaxSegment \in Nat \ {0}

VARIABLES
    item,        \* queue_items rows
    requests,    \* cooperative_yield_requests: <<item, segment>>
    receipts,    \* cooperative_yield_receipts: <<item, segment, status>>
    paused,      \* metadata.dispatch_paused
    lifecycle,   \* projects.lifecycle
    health,      \* project_runtime_state.health
    allow,       \* gpu_allowlist rows
    reservation  \* status of the open gpu_reservations row of a GPU, or "none"

projectVars == <<lifecycle, health>>
yieldVars == <<requests, receipts>>
storeVars == <<item, requests, receipts, paused, lifecycle, health, allow,
               reservation>>

Pending == {"queued", "held", "blocked"}
Active == {"starting", "running", "yielding", "terminating", "force_killing"}
Ended == {"succeeded", "failed", "interrupted", "force_killed"}
Terminal == Ended \cup {"removed"}
Unsuccessful == Terminal \ {"succeeded"}
States == {"absent"} \cup Pending \cup Active \cup Terminal
Stages == {"none", "interrupt", "terminate", "kill"}
Trees == {"none", "present", "removed", "failed"}

\* One queue_items row.  "absent" is an id that has not been admitted yet.
\* held/released are runtime_gpu_lease_held and whether
\* runtime_gpu_lease_released_at is set; launched is whether the process
\* identity (pid, pgid, start ticks) is recorded; yieldId whether
\* yield_request_id is set; tree summarises the runtime_worktree_* columns.
Row == [state : States, gpu : Gpus \cup {NoGpu}, held : BOOLEAN,
        released : BOOLEAN, segment : Nat \ {0}, front : BOOLEAN,
        priority : Priorities, launched : BOOLEAN, stage : Stages,
        yieldId : BOOLEAN, tree : Trees]

Allowance == [listed : BOOLEAN, enabled : BOOLEAN, draining : BOOLEAN]

Lifecycles == {"active", "paused", "archived"}

TypeOK ==
    /\ item \in [Items -> Row]
    /\ requests \subseteq Items \X (Nat \ {0})
    /\ receipts \subseteq Items \X (Nat \ {0}) \X {"ready", "failed"}
    /\ paused \in BOOLEAN
    /\ lifecycle \in [Projects -> Lifecycles]
    /\ health \in [Projects -> {"closed", "open"}]
    /\ allow \in [Gpus -> Allowance]
    /\ reservation \in [Gpus -> {"none", "pending", "active"}]

StateOf(i) == item[i].state
ItemsOf(p) == {i \in Items : projectOf[i] = p}

-------------------------------------------------------------------------------
(* Admission and operator mutations of pending work                        *)

\* UPDATE queue_items SET ... WHERE id = i, and nothing else.
UpdateRow(i, row) ==
    /\ item' = [item EXCEPT ![i] = row]
    /\ UNCHANGED <<yieldVars, paused, projectVars, allow, reservation>>

\* V5Repository.admit: the row, its snapshot and its dependency rows appear in
\* one transaction.  A hold reason admits the item directly as held.
Admit(i, prio, hold) ==
    /\ StateOf(i) = "absent"
    /\ lifecycle[projectOf[i]] # "archived"
    /\ \A d \in dependsOn[i] : StateOf(d) \notin Unsuccessful \cup {"absent"}
    /\ UpdateRow(i, [item[i] EXCEPT !.state = IF hold THEN "held" ELSE "queued",
                                    !.priority = prio])

\* V5OperatorRepository._mutate_item with a target state.
MoveItem(i, from, target) ==
    /\ StateOf(i) \in from
    /\ UpdateRow(i, [item[i] EXCEPT !.state = target])

HoldItem(i) == MoveItem(i, {"queued", "blocked"}, "held")

ReleaseItem(i) == MoveItem(i, {"held", "blocked"}, "queued")

\* Removal also holds every dependent that could otherwise be dispatched.
RemoveItem(i) ==
    /\ StateOf(i) \in Pending
    /\ item' = [j \in Items |->
                  IF j = i THEN [item[j] EXCEPT !.state = "removed"]
                  ELSE IF i \in dependsOn[j]
                          /\ StateOf(j) \in {"queued", "blocked"}
                       THEN [item[j] EXCEPT !.state = "held"]
                       ELSE item[j]]
    /\ UNCHANGED <<yieldVars, paused, projectVars, allow, reservation>>

\* Priority changes never touch the state: they cannot preempt.
SetItemPriority(i, prio) ==
    /\ StateOf(i) \in Pending \cup {"starting", "running", "yielding"}
    /\ item[i].priority # prio
    /\ UpdateRow(i, [item[i] EXCEPT !.priority = prio])

\* Queued dependants of unsuccessful items become blocked, all in one pass.
ReconcileFailedDependencies ==
    /\ item' = [j \in Items |->
                  IF /\ StateOf(j) = "queued"
                     /\ \E d \in dependsOn[j] : StateOf(d) \in Unsuccessful
                  THEN [item[j] EXCEPT !.state = "blocked"]
                  ELSE item[j]]
    /\ UNCHANGED <<yieldVars, paused, projectVars, allow, reservation>>

-------------------------------------------------------------------------------
(* Dispatch                                                                *)

HeldOn(g) == {i \in Items : item[i].held /\ item[i].gpu = g}

Dispatchable(g) == allow[g].listed /\ allow[g].enabled /\ ~allow[g].draining

\* Mutant: any terminal state satisfies a dependency.
IsCandidateAfterEnd(i) ==
    /\ StateOf(i) = "queued"
    /\ lifecycle[projectOf[i]] = "active"
    /\ health[projectOf[i]] = "closed"
    /\ \A d \in dependsOn[i] : StateOf(d) \in Terminal

\* The WHERE clause of _candidate_query.
IsCandidate(i) ==
    /\ StateOf(i) = "queued"
    /\ lifecycle[projectOf[i]] = "active"
    /\ health[projectOf[i]] = "closed"
    /\ \A d \in dependsOn[i] : StateOf(d) = "succeeded"

\* Its ORDER BY clause: priority DESC, resume_front DESC, id ASC.
Precedes(i, j) ==
    \/ item[i].priority > item[j].priority
    \/ /\ item[i].priority = item[j].priority
       /\ \/ item[i].front /\ ~item[j].front
          \/ item[i].front = item[j].front /\ i < j

\* list_dispatch_candidates(limit=1): empty while the host is paused.
HeadCandidates ==
    {i \in Items : /\ ~paused
                   /\ IsCandidate(i)
                   /\ \A j \in Items \ {i} : IsCandidate(j) => Precedes(i, j)}

\* Mutants: the lease, or an open reservation, is not tested again.
ClaimableLeased(i, g) ==
    /\ ~paused
    /\ Dispatchable(g)
    /\ reservation[g] = "none"
    /\ IsCandidate(i)

ClaimableReserved(i, g) ==
    /\ ~paused
    /\ Dispatchable(g)
    /\ reservation[g] # "active"
    /\ HeldOn(g) = {}
    /\ IsCandidate(i)

\* The predicates the claim transaction repeats under its write lock.
Claimable(i, g) ==
    /\ ~paused
    /\ Dispatchable(g)
    /\ reservation[g] = "none"
    /\ HeldOn(g) = {}
    /\ IsCandidate(i)

Claim(i, g) ==
    /\ Claimable(i, g)
    /\ UpdateRow(i, [item[i] EXCEPT !.state = "starting", !.gpu = g,
                                    !.held = TRUE, !.released = FALSE,
                                    !.front = FALSE, !.launched = FALSE])

\* The identity of the launched process group is recorded once per segment; a
\* termination request that arrived meanwhile keeps its state.
RecordLaunched(i, seg, g) ==
    /\ StateOf(i) \in {"starting", "terminating", "force_killing"}
    /\ item[i].segment = seg
    /\ item[i].gpu = g
    /\ ~item[i].launched
    /\ UpdateRow(i, [item[i] EXCEPT
                       !.state = IF @ = "starting" THEN "running" ELSE @,
                       !.launched = TRUE])

-------------------------------------------------------------------------------
(* Terminal outcomes: the runtime GPU lease outlives every one of them     *)

EndWith(i, state) == UpdateRow(i, [item[i] EXCEPT !.state = state])

\* The outcome a requested termination overrides.
OutcomeOf(state, outcome) ==
    CASE state = "terminating" -> "interrupted"
      [] state = "force_killing" -> "force_killed"
      [] OTHER -> outcome

\* Mutant: a late receipt overrides whatever was recorded.
RecordLateCompletion(i, seg, ok) ==
    /\ StateOf(i) \in (Active \ {"yielding"}) \cup Ended
    /\ item[i].segment = seg
    /\ EndWith(i, OutcomeOf(StateOf(i), IF ok THEN "succeeded" ELSE "failed"))

\* An executor receipt names the segment it belongs to; a yielding item must
\* go through its continuation evidence instead.
RecordExecutorCompletion(i, seg, ok) ==
    /\ StateOf(i) \in Active \ {"yielding"}
    /\ item[i].segment = seg
    /\ EndWith(i, OutcomeOf(StateOf(i), IF ok THEN "succeeded" ELSE "failed"))

\* A requested process ended without an executor receipt.
RecordTerminationCompletion(i) ==
    /\ StateOf(i) \in {"terminating", "force_killing"}
    /\ EndWith(i, OutcomeOf(StateOf(i), "failed"))

\* A launched process has no trustworthy terminal evidence.
FailActiveItem(i) ==
    /\ StateOf(i) \in Active
    /\ EndWith(i, OutcomeOf(StateOf(i), "failed"))

\* The operator proved that the attempt has no process: it fails and its
\* Project's circuit opens in the same transaction.  idKnown is the identity
\* the operator checked (none for a claim that never launched).
ResolveAbandonedLaunch(i, g, idKnown) ==
    /\ paused
    /\ StateOf(i) \in Active
    /\ item[i].gpu = g
    /\ item[i].launched = idKnown
    /\ idKnown <=> StateOf(i) # "starting"
    /\ item[i].held
    /\ item' = [item EXCEPT ![i] = [item[i] EXCEPT !.state = "failed"]]
    /\ health' = [health EXCEPT ![projectOf[i]] = "open"]
    /\ UNCHANGED <<yieldVars, paused, lifecycle, allow, reservation>>

\* Mutant: the state is not tested.
ReleaseAnyLease(i, g) ==
    /\ item[i].gpu = g
    /\ item[i].held
    /\ UpdateRow(i, [item[i] EXCEPT !.held = FALSE, !.released = TRUE])

\* Idle telemetry of the assigned GPU releases the lease of an ended attempt.
ReleaseGpuLease(i, g) ==
    /\ item[i].gpu = g
    /\ StateOf(i) \notin Active
    /\ item[i].held
    /\ UpdateRow(i, [item[i] EXCEPT !.held = FALSE, !.released = TRUE])

-------------------------------------------------------------------------------
(* Termination requests                                                    *)

\* Mutant: a graceful request replaces a kill.
RequestTerminationAgain(i, force) ==
    /\ StateOf(i) \in Active \ {"starting"}
    /\ UpdateRow(i, [item[i] EXCEPT
                       !.state = IF force THEN "force_killing" ELSE "terminating",
                       !.stage = IF force THEN "kill" ELSE "interrupt"])

\* A repeated request is idempotent, a graceful one never replaces a kill.
RequestTermination(i, force) ==
    /\ StateOf(i) \in {"running", "yielding"}
                      \cup (IF force THEN {"terminating"} ELSE {})
    /\ UpdateRow(i, [item[i] EXCEPT
                       !.state = IF force THEN "force_killing" ELSE "terminating",
                       !.stage = IF force THEN "kill" ELSE "interrupt"])

\* Compare-and-swap on the stage the caller saw.
EscalateTermination(i, stage) ==
    /\ stage \in {"interrupt", "terminate"}
    /\ StateOf(i) = "terminating"
    /\ item[i].stage = stage
    /\ UpdateRow(i, IF stage = "interrupt"
                    THEN [item[i] EXCEPT !.stage = "terminate"]
                    ELSE [item[i] EXCEPT !.stage = "kill",
                                         !.state = "force_killing"])

-------------------------------------------------------------------------------
(* Cooperative yield                                                       *)

RecordYieldRequest(i, seg) ==
    /\ <<i, seg>> \notin requests
    /\ item[i].segment = seg
    /\ StateOf(i) = "running"
    /\ i \in Preemptible
    /\ requests' = requests \cup {<<i, seg>>}
    /\ item' = [item EXCEPT ![i] = [item[i] EXCEPT !.state = "yielding",
                                                  !.yieldId = TRUE]]
    /\ UNCHANGED <<receipts, paused, projectVars, allow, reservation>>

\* Append-only evidence of the request: the item's state is not consulted.
RecordYieldReceipt(i, seg, status) ==
    /\ <<i, seg>> \in requests
    /\ \A s \in {"ready", "failed"} : <<i, seg, s>> \notin receipts
    /\ receipts' = receipts \cup {<<i, seg, status>>}
    /\ UNCHANGED <<item, requests, paused, projectVars, allow, reservation>>

\* Mutant: any receipt will do.
RequeueAnyReceipt(i, seg) ==
    /\ <<i, seg>> \in requests
    /\ \E status \in {"ready", "failed"} : <<i, seg, status>> \in receipts
    /\ StateOf(i) = "yielding"
    /\ item[i].segment = seg
    /\ seg < MaxSegment
    /\ UpdateRow(i, [item[i] EXCEPT !.state = "queued", !.segment = seg + 1,
                                    !.front = TRUE, !.held = FALSE,
                                    !.released = TRUE, !.launched = FALSE,
                                    !.stage = "none", !.yieldId = FALSE])

\* The only way back to the queue; seg is the segment of the request replayed.
RequeueReadyContinuation(i, seg) ==
    /\ <<i, seg>> \in requests
    /\ <<i, seg, "ready">> \in receipts
    /\ StateOf(i) = "yielding"
    /\ item[i].segment = seg
    /\ item[i].yieldId
    /\ item[i].held
    /\ seg < MaxSegment
    /\ UpdateRow(i, [item[i] EXCEPT !.state = "queued", !.segment = seg + 1,
                                    !.front = TRUE, !.held = FALSE,
                                    !.released = TRUE, !.launched = FALSE,
                                    !.stage = "none", !.yieldId = FALSE])

\* Terminal isolation ends the attempt; nonterminal keeps it yielding.
IsolateContinuationFailure(i, terminal) ==
    /\ StateOf(i) = "yielding"
    /\ item' = [item EXCEPT ![i] = [item[i] EXCEPT
                     !.state = IF terminal THEN "failed" ELSE "yielding"]]
    /\ health' = [health EXCEPT ![projectOf[i]] = "open"]
    /\ UNCHANGED <<yieldVars, paused, lifecycle, allow, reservation>>

-------------------------------------------------------------------------------
(* Worktree evidence                                                       *)

\* Neither record consults the item's state or the Project's lifecycle.
RecordWorktreePrepared(i) ==
    /\ StateOf(i) # "absent"
    /\ item[i].tree \in {"none", "removed"}
    /\ UpdateRow(i, [item[i] EXCEPT !.tree = "present"])

RecordWorktreeCleanup(i, ok) ==
    /\ item[i].tree # "none"
    /\ ok => item[i].tree # "removed"
    /\ UpdateRow(i, [item[i] EXCEPT !.tree = IF ok THEN "removed"
                                                    ELSE "failed"])

-------------------------------------------------------------------------------
(* Host, Projects and GPUs                                                 *)

PauseHost ==
    /\ paused' = TRUE
    /\ UNCHANGED <<item, yieldVars, projectVars, allow, reservation>>

ResumeHost ==
    /\ paused' = FALSE
    /\ UNCHANGED <<item, yieldVars, projectVars, allow, reservation>>

QuarantineProject(p) ==
    /\ health' = [health EXCEPT ![p] = "open"]
    /\ UNCHANGED <<item, yieldVars, paused, lifecycle, allow, reservation>>

CloseProjectCircuit(p) ==
    /\ health' = [health EXCEPT ![p] = "closed"]
    /\ UNCHANGED <<item, yieldVars, paused, lifecycle, allow, reservation>>

IncompleteCleanup(p) ==
    \E i \in ItemsOf(p) : item[i].tree \in {"present", "failed"}

\* Mutant: pending items do not stand in the way of archival.
TransitionWithPending(p, target) ==
    /\ target \in CASE lifecycle[p] = "active" -> {"paused"}
                     [] lifecycle[p] = "paused" -> {"active", "archived"}
                     [] lifecycle[p] = "archived" -> {}
    /\ target = "archived" =>
         /\ \A i \in ItemsOf(p) : StateOf(i) \notin Active
         /\ ~IncompleteCleanup(p)
    /\ lifecycle' = [lifecycle EXCEPT ![p] = target]
    /\ UNCHANGED <<item, yieldVars, paused, health, allow, reservation>>

\* Archival needs every item terminal and every recorded worktree removed; the
\* schema triggers repeat the same conditions.
TransitionProject(p, target) ==
    /\ target \in CASE lifecycle[p] = "active" -> {"paused"}
                     [] lifecycle[p] = "paused" -> {"active", "archived"}
                     [] lifecycle[p] = "archived" -> {}
    /\ target = "archived" =>
         /\ \A i \in ItemsOf(p) : StateOf(i) \in Terminal \cup {"absent"}
         /\ ~IncompleteCleanup(p)
    /\ lifecycle' = [lifecycle EXCEPT ![p] = target]
    /\ UNCHANGED <<item, yieldVars, paused, health, allow, reservation>>

AddGpu(g) ==
    /\ ~allow[g].listed
    /\ allow' = [allow EXCEPT ![g] = [listed |-> TRUE, enabled |-> TRUE,
                                     draining |-> FALSE]]
    /\ UNCHANGED <<item, yieldVars, paused, projectVars, reservation>>

\* Enable/disable flip one flag, drain/undrain the other; neither looks at the
\* lease or the reservation of the GPU.
EnableGpu(g, flag) ==
    /\ allow[g].listed
    /\ allow[g].enabled # flag
    /\ allow' = [allow EXCEPT ![g].enabled = flag]
    /\ UNCHANGED <<item, yieldVars, paused, projectVars, reservation>>

DrainGpu(g, flag) ==
    /\ allow[g].listed
    /\ allow[g].draining # flag
    /\ allow' = [allow EXCEPT ![g].draining = flag]
    /\ UNCHANGED <<item, yieldVars, paused, projectVars, reservation>>

-------------------------------------------------------------------------------
(* Passive reservations                                                    *)

\* On a leased GPU the request waits; the assigned item is not preempted.
RequestReservation(g) ==
    /\ Dispatchable(g)
    /\ reservation[g] = "none"
    /\ reservation' = [reservation EXCEPT
                         ![g] = IF HeldOn(g) = {} THEN "active" ELSE "pending"]
    /\ UNCHANGED <<item, yieldVars, paused, projectVars, allow>>

ReleaseReservation(g) ==
    /\ reservation[g] # "none"
    /\ reservation' = [reservation EXCEPT ![g] = "none"]
    /\ UNCHANGED <<item, yieldVars, paused, projectVars, allow>>

\* What one reconciliation pass makes of the open reservation of GPU g, once
\* its time (the expiry of an active one, the request of a pending one) has come.
Reconciled(g) ==
    CASE reservation[g] = "active" -> "none"
      [] reservation[g] = "pending" /\ ~allow[g].listed -> "none"
      [] reservation[g] = "pending" /\ HeldOn(g) = {} -> "active"
      [] OTHER -> reservation[g]

\* One pass over every open reservation; due are the GPUs whose time has come.
ReconcileReservations(due) ==
    /\ reservation' = [g \in Gpus |-> IF g \in due THEN Reconciled(g)
                                     ELSE reservation[g]]
    /\ UNCHANGED <<item, yieldVars, paused, projectVars, allow>>

-------------------------------------------------------------------------------
NewRow(prio) ==
    [state |-> "absent", gpu |-> NoGpu, held |-> FALSE, released |-> FALSE,
     segment |-> 1, front |-> FALSE, priority |-> prio, launched |-> FALSE,
     stage |-> "none", yieldId |-> FALSE, tree |-> "none"]

Init ==
    /\ item \in [Items -> {NewRow(prio) : prio \in Priorities}]
    /\ requests = {}
    /\ receipts = {}
    /\ paused = FALSE
    /\ lifecycle \in [Projects -> {"active", "paused"}]
    /\ health = [p \in Projects |-> "closed"]
    /\ allow = [g \in Gpus |-> [listed |-> FALSE, enabled |-> FALSE,
                                draining |-> FALSE]]
    /\ reservation = [g \in Gpus |-> "none"]

Segments == 1 .. MaxSegment

\* Operator commands on one item.
OperatorStep(i) ==
    \/ \E prio \in Priorities, hold \in BOOLEAN : Admit(i, prio, hold)
    \/ HoldItem(i)
    \/ ReleaseItem(i)
    \/ RemoveItem(i)
    \/ \E prio \in Priorities : SetItemPriority(i, prio)

\* Transactions of one attempt.
AttemptStep(i) ==
    \/ \E g \in Gpus : \/ Claim(i, g)
                       \/ \E seg \in Segments : RecordLaunched(i, seg, g)
                       \/ ReleaseGpuLease(i, g)
                       \/ \E idKnown \in BOOLEAN :
                             ResolveAbandonedLaunch(i, g, idKnown)
    \/ \E seg \in Segments, ok \in BOOLEAN : RecordExecutorCompletion(i, seg, ok)
    \/ RecordTerminationCompletion(i)
    \/ FailActiveItem(i)
    \/ \E force \in BOOLEAN : RequestTermination(i, force)
    \/ \E stage \in Stages : EscalateTermination(i, stage)

\* Transactions of one cooperative continuation.
YieldStep(i) ==
    \/ \E seg \in Segments :
         \/ RecordYieldRequest(i, seg)
         \/ \E status \in {"ready", "failed"} : RecordYieldReceipt(i, seg, status)
         \/ RequeueReadyContinuation(i, seg)
    \/ \E terminal \in BOOLEAN : IsolateContinuationFailure(i, terminal)

WorktreeStep(i) ==
    \/ RecordWorktreePrepared(i)
    \/ \E ok \in BOOLEAN : RecordWorktreeCleanup(i, ok)

HostStep ==
    \/ ReconcileFailedDependencies
    \/ PauseHost
    \/ ResumeHost
    \/ \E p \in Projects : \/ QuarantineProject(p)
                           \/ CloseProjectCircuit(p)
                           \/ \E target \in Lifecycles :
                                 TransitionProject(p, target)

GpuStep ==
    \/ \E g \in Gpus : \/ AddGpu(g)
                       \/ \E flag \in BOOLEAN : EnableGpu(g, flag)
                       \/ \E flag \in BOOLEAN : DrainGpu(g, flag)
                       \/ RequestReservation(g)
                       \/ ReleaseReservation(g)
    \/ \E due \in SUBSET Gpus : ReconcileReservations(due)

Next ==
    \/ \E i \in Items : \/ OperatorStep(i)
                        \/ AttemptStep(i)
                        \/ YieldStep(i)
                        \/ WorktreeStep(i)
    \/ HostStep
    \/ GpuStep

Spec == Init /\ [][Next]_storeVars

-------------------------------------------------------------------------------
(* Properties                                                              *)

\* What a step that leaves the lease columns alone does.
SameLease(j) == item'[j].held = item[j].held /\ item'[j].gpu = item[j].gpu

KeepLeases == \A j \in Items : SameLease(j)

\* No two items ever hold the runtime lease of the same GPU: claim() and the
\* lease-preserving terminal transitions of scheduler_v5.py leave at most one
\* row per GPU with runtime_gpu_lease_held = 1.
OneLeasePerGpu ==
    \A i, j \in Items :
        item[i].held /\ item[j].held /\ item[i].gpu = item[j].gpu => i = j

LeaseFits(row) ==
    /\ row.held => row.gpu \in Gpus /\ ~row.released
    /\ row.released => row.gpu \in Gpus /\ ~row.held
    /\ row.held => row.state \in Active \cup Ended
    /\ row.state \in Active => row.held

\* A GPU with an active reservation carries no runtime lease, whatever order
\* claims, lease releases and reservation passes commit in (reservation_v5.py,
\* scheduler_v5.claim).
ReservedGpuIsFree ==
    \A g \in Gpus : reservation[g] = "active" => HeldOn(g) = {}

\* A GPU has at most one owner, an attempt (claim) or an active reservation
\* (reservation_v5.py), whatever order their transactions commit in.
GpuIsExclusive == OneLeasePerGpu /\ ReservedGpuIsFree

\* An item that was ever given a GPU had all its dependencies succeed, even if
\* removals, holds and releases were interleaved with the claim.
StartedAfterDependencies ==
    \A i \in Items : item[i].gpu # NoGpu =>
        \A d \in dependsOn[i] : StateOf(d) = "succeeded"

\* An archived Project never again has an item that could be dispatched or
\* that is still active (project_lifecycle.py, the archive triggers).
ArchivedIsTerminal ==
    \A i \in Items : lifecycle[projectOf[i]] = "archived" =>
        StateOf(i) \in Terminal \cup {"absent"}

\* Every earlier segment of an item ended with a persisted request and a ready
\* receipt of that very segment (requeue_ready_continuation): no stale request
\* replay and no failed receipt ever advances a run.
SegmentsHaveReceipts ==
    \A i \in Items : \A n \in 1 .. item[i].segment - 1 :
        <<i, n>> \in requests /\ <<i, n, "ready">> \in receipts

StageFits(row) ==
    /\ row.stage # "none" => row.state \in {"terminating", "force_killing",
                                           "interrupted", "force_killed", "failed"}
    /\ row.stage = "kill" => row.state \in {"force_killing", "force_killed",
                                           "failed"}
    /\ row.state = "terminating" => row.stage \in {"interrupt", "terminate"}
    /\ row.state = "force_killing" => row.stage = "kill"

IdentityFits(row) ==
    /\ row.state \in Active => (row.launched <=> row.state # "starting")
    /\ row.state \in Pending \cup {"absent"} => ~row.launched

RowFits(row) == LeaseFits(row) /\ StageFits(row) /\ IdentityFits(row)

\* Every row is typed and its columns tell one story, under every interleaving
\* of transactions. A lease names its GPU, active attempts hold theirs, and a
\* lease is otherwise kept only by an ended attempt (the CHECKs of queue_items
\* in database_v5.py). The signal stage agrees with the state, so that
\* replaying it after a restart sends no signal the state does not authorize
\* (escalate_termination). A process identity is recorded exactly where
\* resolve_abandoned_launch and recovery expect one.
RowInv ==
    /\ TypeOK
    /\ \A i \in Items : RowFits(item[i])

\* What the transactions preserve together: a claim is safe only because active
\* attempts and their leases agree (RowInv), and a reservation can only start on
\* a GPU without lease if each lease is on a row that the query for it sees.
LeaseInv == RowInv /\ OneLeasePerGpu /\ ReservedGpuIsFree

\* A lease is given up only by an ended attempt, or by the one step that also
\* requeues a validated continuation (release_gpu_lease,
\* requeue_ready_continuation).
LeaseOutlivesAttempt ==
    [][\A i \in Items : item[i].held /\ ~item[i].held' =>
         \/ StateOf(i) \in Ended /\ StateOf(i)' = StateOf(i)
         \/ /\ StateOf(i) = "yielding" /\ StateOf(i)' = "queued"
            /\ item[i].segment' = item[i].segment + 1
            /\ <<i, item[i].segment, "ready">> \in receipts]_storeVars

\* Terminal outcomes are final and an active attempt never slides back to
\* pending work except by a continuation, whatever late receipts, escalations
\* or operator commands arrive.
OutcomeIsFinal ==
    [][\A i \in Items :
         /\ StateOf(i) \in Terminal => StateOf(i)' = StateOf(i)
         /\ StateOf(i) \in Active /\ StateOf(i)' \in Pending =>
              StateOf(i) = "yielding" /\ item[i].segment' > item[i].segment
      ]_storeVars

\* Once termination has been requested the item can only finish: it is never
\* requeued, never counted as succeeded, and a kill is never downgraded to a
\* graceful stop, whatever receipts, yields and requests race with it
\* (request_termination, escalate_termination, requeue_ready_continuation).
TerminationWins ==
    [][\A i \in Items :
         /\ StateOf(i) = "terminating" =>
              StateOf(i)' \in {"terminating", "force_killing", "interrupted", "failed"}
         /\ StateOf(i) = "force_killing" =>
              StateOf(i)' \in {"force_killing", "force_killed", "failed"}
      ]_storeVars

-------------------------------------------------------------------------------
(* Refinement                                                              *)

\* The ownership the durable rows express.
Ownership ==
    INSTANCE GpuOwnership WITH
        lessees <- [g \in Gpus |-> HeldOn(g)],
        reserved <- {g \in Gpus : reservation[g] = "active"},
        waiting <- {g \in Gpus : reservation[g] = "pending"}

\* Every transaction of the store is a step of GpuOwnership or leaves the
\* ownership alone: leases and passive reservations never displace each other.
ImplementsOwnership == Ownership!Spec
===============================================================================
