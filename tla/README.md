# Experiment queue: a TLA+ verification project

The experiment queue runs scientific jobs on the GPUs of one host. It promises
that a GPU is never given to two owners, that a run is neither lost nor launched
twice, and that this holds when the scheduler crashes, when operators act at
awkward moments, and when work stays on a GPU after its process is gone. This
directory holds a model of the schema-v5 system, of the schema-v4 queue it
replaces and of the import between them, the TLC runs that check them on small
instances, and TLAPS proofs of the central safety properties for instances of any
size.

## 1. The system

### Parts and their state

| Part | Code (`src/src/experiment_queue/`) | State | Operations |
|---|---|---|---|
| Durable store | `database_v5.py`, `scheduler_v5.py`, `v5_repository.py`, `v5_operator_repository.py` | `queue_items`, dependencies, metadata, Projects, circuits | one `BEGIN IMMEDIATE` transaction per operation |
| Runtime GPU lease | `scheduler_v5.py` | `assigned_gpu_uuid`, `runtime_gpu_lease_held`, `..._released_at` | claim, release, requeue |
| Passive reservations | `reservation_v5.py` | `gpu_reservations` | request, release, reconcile |
| GPU allowlist | `v5_operator_repository.py` | `gpu_allowlist` | add, enable, disable, drain, undrain |
| Project registry | `v5_repository.py`, `git_resolver.py` | `projects`, `project_revisions` | register, append a revision, activate it |
| Project lifecycle, circuit | `project_lifecycle.py`, `v5_repository.py` | `projects.lifecycle`, `project_runtime_state.health` | pause, activate, archive, quarantine, repair |
| Cooperative yield | `continuation_v5.py`, `cooperative_yield.py` | yield requests and receipts, request and receipt files | request, answer, finalize, requeue, isolate |
| Scheduler | `scheduler_service_v5.py` | process table, host GPU locks, control point | `run_iteration` and its six passes |
| Host GPU locks | `host_locks.py` | one `flock` per GPU and host | acquire, close, loss at process end |
| Launch, identity | `attempt_runtime.py` | process group, launch receipt | fork, barrier, teardown, liveness test |
| Executor | `executor.py` | launch and exit receipt files | publish, run, wait for the group, publish |
| Termination | `scheduler_v5.py`, `scheduler_service_v5.py` | state, stage, signal epoch | request, force, escalate, complete |
| Worktrees | `project_worktrees.py` | git worktree, retained ref, `runtime_worktree_*` | prepare, clean up, record |
| Operators | `cli_v5.py`, `web_v5.py`, `operator_services.py` | what a command has read | plan and commit, or commit, write a file and signal |
| Admission, authoring | `admission.py`, `authoring.py`, `schema_registry.py`, ... | immutable snapshots | validation, then one insert |
| Schema-v4 queue | `queue.py` | v4 rows, receipts, reservations, refs | commands and its own scheduler |
| Import v4 to v5 | `migrate_v5.py`, `legacy_state.py`, `migration_receipt.py` | candidate, destination, receipts | authenticate, build, publish, verify, roll back |
| Runner, continuation v0, export | `runner.py`, `legacy_continuation_v0.py`, `queue_export.py` | files | see "Not modelled" |

### Interactions

Only the database is shared by all processes, and every write to it is one
serialised transaction. One scheduler runs at a time (`scheduler.lock`). It
claims an item, forks a detached executor and waits for its launch receipt, and
later finds the exit receipt; between these steps it may die, and the executor
lives on. Command-line and web processes change the same rows at any moment.
GPU telemetry and the host GPU locks are read and taken outside any transaction.
Below the rows, scheduler, operators and executor meet in the files of a segment
directory and in the signals they send; scheduler and operators meet in the Git
repositories of the Projects. The v4 queue is offline when its state is imported.

### What makes it hard

* A terminal state and the end of GPU use are two different events: the lease
  outlives the state until telemetry shows the GPU idle.
* Every pass reads rows, tests files, processes, locks and telemetry, and then
  writes. Anything may happen between these steps.
* Locks and the process table vanish with the scheduler; rows, files and
  executors do not. A new scheduler must tell a launch that happened from one
  that did not.
* Termination, force-kill, yield, completion and evidence failure race for the
  same row.
* Dependencies, priorities, pauses, circuits, reservations and drains may change
  between the choice of a candidate and its claim.
* A file that a reader can see may be gone after a host crash; a signal may be
  sent twice, late, or by a process that dies before it records the result.
* What an operator planned with (occupied roots, current revision, next attempt)
  may be out of date when it commits.
* Preparing and removing a worktree are several Git commands and a transaction.

The hazards, each with its line of code and the properties that would catch it,
are listed in `PROJECT.json`.

## 2. The modules

| Module | What it models |
|---|---|
| `QueueStore` | the durable state; one action per transaction, submitted by anybody at any time |
| `GpuOwnership` | the abstract specification: a GPU has at most one lessee, and a reserved GPU has none |
| `SchedulerService` | the scheduler process, one step per transaction or observation, with executors, GPU work, operators, other processes and crashes; extends `QueueStore` |
| `AttemptControl` | one segment below the rows: receipt, request and payload files, executor, job, signals, and the scheduler and operator processes that send them |
| `ProjectCatalog` | Projects, revisions and admission, as operators plan and commit them |
| `Worktrees` | refs and worktrees of the items, and the scheduler steps that prepare, use and remove them; extends `ProjectCatalog` |
| `LegacyQueue` | the schema-v4 queue: commands, scheduler, executors, files and Git state |
| `Migration` | the one-shot import of a v4 state copy |
| `LegacyEvidence` | what the import demands of one v4 row; below both `LegacyQueue` and `Migration` |
| `QueueStoreProofs` | typing and row invariants of `QueueStore`; exclusive leases and the refinement of `GpuOwnership`; how one transaction may change a row, and what follows for outcomes, terminations, leases, dependencies, archival and segments |
| `ServiceProofs` | the inductive invariant of `SchedulerService`, step by step |
| `ServiceTheorems` | what follows for the running service; joins `ServiceProofs` and `QueueStoreProofs` |
| `AttemptProofs` | the evidence files and the signals of `AttemptControl` |
| `CatalogProofs` | Projects, revisions and admission, through every step of `Worktrees` |
| `WorktreeProofs` | refs and worktrees |
| `LegacyProofs` | the schema-v4 queue |
| `MigrationProofs` | the import |
| `MCQueueStore`, `MCSchedulerService`, `MCAttempt`, `MCWorktrees`, `MCCutover` | instances for TLC |

### QueueStore

`item[i]` is a row of `queue_items`: its state, assigned GPU, lease columns
(`held`, `released`), segment, `resume_front`, priority, whether a process
identity is recorded (`launched`), termination stage, whether a yield request is
attached, and a summary of the `runtime_worktree_*` columns. The other variables
are the yield tables, the host pause flag, lifecycle and circuit of each
Project, the allowlist and the open reservation of each GPU. Each action carries
the name of the method it models. A transaction that raises, or that repeats
what is already recorded, changes nothing and is therefore not an action.
Because callers are unconstrained, what holds of `QueueStore` holds for any
caller, including one that crashes or that repeats stale requests.

Data is abstracted as follows. Identifiers, documents and timestamps that no
guard compares are dropped. A receipt is its segment and its verdict. The
reservation clock is a set of GPUs whose reservation is due in this pass.

### GpuOwnership

Three variables: the lessees, the reserved and the waiting GPUs. The refinement
mapping in `QueueStore` reads them off the rows (`HeldOn(g)`, and the status of
the open reservation).

### SchedulerService

`pc` is the control point of whichever process holds `scheduler.lock`; `pass`,
`todo`, `seen` and `cur` are the loop it is in, the rows it has still to visit,
the states it read when the loop began, and the row in hand. `proof` says that
idle telemetry was obtained. `procs` and `locks` are `self.processes` and
`self.gpu_locks`. `exec`, `files`, `using` and `foreign` are the executor
processes, the evidence files, the work telemetry can see and the host locks of
other processes.

Each step is one transaction or one observation, in the order of the code, so
that the interleavings of the model are those of the code. Where the code reads
a row and later acts on what it read, the model keeps the value read: `seen` for
the snapshot of `active_attempts`, the control point for a state that selected a
path. An exception that nobody catches takes the scheduler down (`Exit`).

The constant `Faults` selects disturbances: `crash`, `foreign` (another process
takes a host lock), `telemetry` (no reading), `detached` (work outlives its
executor), `die` (an executor dies without receipt), `evidence` (a receipt, or
the evidence of a cleanup or of a termination, is rejected), `launch` (fork or
barrier fails, teardown may be uncertain), `prepare`, `dirty` (a worktree cannot be
removed) and `disk`. `Commands` selects the operator commands. `resolve_abandoned_launch` runs in an operator process
that holds `scheduler.lock` and shares the steps of lease release and cleanup.

### AttemptControl

`row` holds the columns that matter to one attempt. `disk` has the payload, the
yield request and the job's answer as files that are absent, torn or whole, and
the two receipts as what `_publish_immutable_json` leaves at each of its steps: a
durable staging entry, a final name that is visible only (`volatile`) or durable.
`exec` is the executor with its publication step; `sig` records which signals
were sent, accepted by its handler, held back until the job exists, and heard by
the job's group. `proc` gives the control point of the scheduler and of every
operator process together with what it read earlier, `mem` what the scheduler
forgets when it dies, `claim` the durable claim and result of the yield signal,
and `clock` the deadlines that have passed. A host crash drops every volatile
entry and every process. `Faults` selects deaths of scheduler, operator and
executor, host crashes and I/O errors at any step of a publication.

### ProjectCatalog and Worktrees

`plans[o]` is what an operator process has read and verified; the commit tests
what its transaction tests. `disk` tells for each root whether it is intact,
`pruned` (Git cannot produce the pinned commit) or `gone`; because
`_load_revision` resolves the stored paths again, most commands need it intact.
An item has its attempt number and the `runtime_worktree_*` columns.
`Worktrees` adds, per item, the retained ref, the directory (clean, dirty,
partial) and its registration, the scheduler's position `svc`, the running
executors and the ones this scheduler process launched. Every Git command and
every transaction is a step. Typed items follow `ProjectWorktreeManager`, legacy
items the counterpart in `scheduler_service_v5.py`. Here a GPU lease is one flag:
leases are the subject of `QueueStore`.

### LegacyQueue, LegacyEvidence and Migration

`LegacyQueue` has the v4 rows, per item the executor with its files, the ref and
worktree (missing, clean, dirty, altered in HEAD or card, or partial where Git
broke off; registered or not), the allowlist, the reservations, the host pause and
failure counter,
the scheduler with the rows it read (`sched.seen`), and per operator the step its
command still owes after its transaction (a file, a signal, a cleanup).
`Migration` has the source, the importer's control point, its directory under one
of three names with the name that survives a host crash, something foreign under
the destination's name, and the external receipts. The two meet in
`LegacyEvidence`: `EvidenceStaysImportable` says when what v4 leaves is what
`legacy_state.py` accepts, and `DestinationIsSound` that what it accepts v5 can
run.

## 3. The runs

| Run | Instance | States | Question |
|---|---|---|---|
| `store` | 1 preemptible item, 2 segments, 1 GPU, all transactions | 141,368 | is every row consistent, are outcomes and terminations final, has every continuation its evidence, is archival final? |
| `store_shared` | 3 items (2 depends on 1, 3 preemptible), 2 GPUs, reservations | 294,368 | exclusive leases, free reserved GPUs, dependencies first, refinement of `GpuOwnership` |
| `service_recovery` | 1 item, every fault, 2 crashes, all commands except yield | 455,334 | does the lease cover the work, and is nothing torn down under a live executor? |
| `service_yield` | 1 item, 2 segments, detached work, rejected evidence, racing terminations | 30,536 | is every lease release proved idle and before cleanup? |
| `service_liveness` | 2 items, 1 GPU, crash, failing launches, detached work, yield | 51,641 | one live executor per GPU; receipts are applied and leases released |
| `attempt` | 1 segment, scheduler and an operator, all commands, all faults, 1 crash | 355,252 | are receipts durable before anybody relies on them, do signals arrive once, in order and after the request, and does every yield and termination land? |
| `projects` | five scopes: 2 Projects, 3 roots (2 nested), 2 operators, 3 revisions, 2 items, all faults, 2 crashes | 445,458 | do concurrent operators keep roots, revisions and attempts in order, and is every worktree whole while used and swept afterwards? |
| `cutover` | four scopes: 2 v4 items, 2 segments, 2 GPUs, 2 operators, 1 crash; the import with 2 runs, 2 receipt paths, 1 crash, a source that changes | 3,280,714 | is the v4 queue consistent, is what it leaves importable, and is the import whole or absent, with true receipts? |
| `stale_process_entry` | 2 items, detached work | violation | finding 1 |
| `stale_snapshot` | crash, detached work, yield | violation | finding 2 |
| `launch_failure` | failing launch | violation | finding 3 |
| `raced_yield` | yield and termination | violation | finding 4 |

**Bounds.** One item is enough for the properties of a row, because a
transaction touches other rows only through dependencies, leases and
reservations; these are what `store_shared` instantiates. Two segments are the
least number with a continuation: every segment begins with the same evidence.
Two crashes let a recovery be interrupted and recovered again. One GPU and two
items are the least contention; two GPUs in `store_shared` let leases and
reservations be confused. GPUs are interchangeable there, hence the symmetry.
In `attempt` one operator besides the scheduler is the least number of concurrent
signallers; its safety properties are proved for any number of both operators and
crashes, and two crashes were checked once (745,489 states). In `projects` two
operators race, three revisions let one overtake another, and two crashes
interrupt a recovery; the scopes (`registry`, `admission`, `typed`, `legacy`,
`pair`) share one run because scheduler and registry meet only in lifecycle,
circuit and roots, which every scope has. In `cutover` the scopes `life`, `pair`
and `tidy` each take the commands that can meet on one item, on two items and on
one worktree. Two operators act in `tidy` only, crashes are left out of `pair`, and
Git breaks off only in `tidy`; the proofs have all of these everywhere. `Requests` bounds the yield requests that rows, files or processes
still refer to; an identifier is used again once nothing does, and five of them
were checked once for one item (10.8 million states). Sources of the import are
one row of every shape that is refused and of every disposition that is accepted,
because rows are verified one by one.

**Fairness.** `FairServiceSpec` assumes that the scheduler keeps taking steps
(its loop sleeps a bounded time, every wait in it has a deadline, and a
supervisor restarts it), that an executor that published its receipt exits, and
that work on a GPU ends at some time. It assumes nothing of operators, crashes,
or how long a job runs. `attempt` assumes the same of the scheduler and its
restart, that the executor runs, and that deadlines pass; a job may stay deaf for
ever, and an operator process may stop anywhere. `projects` assumes that the
scheduler is restarted and keeps stepping, that executors end, and, strongly, that
a lease is released when its GPU is again and again seen idle: the idle proof is
repeated in every iteration. Nothing is assumed of the v4 queue or of the
importer, which have no liveness property: the v4 scheduler gives up on several
errors until an operator acts, and the importer is started by hand.

**Deadlock** is checked in the runs of `QueueStore` and `SchedulerService`: the
store always has an enabled transaction, and the scheduler always has a step. The
three other runs end: an attempt is over, an import has finished, and the bounds
on items, revisions and crashes are used up.

### What the violations show

1. *Stale process-table entry.* `_finish_local_process` returns early when the
   GPU is busy after the terminal state was recorded, and keeps its entry. The
   pending-lease pass later releases the lease and the lock. When the entry is
   visited again, another item may run on the GPU, and its host lock is closed.
2. *Stale snapshot.* The restart pass decides from its snapshot whether the idle
   proof must precede finalization. A yield request that commits in between is
   requeued, and its lease dropped, without lock or telemetry.
3. *Failed launch.* The worktree is removed and the host lock closed before the
   lease is released, against ADR 0011. The pending-lease pass then finds the
   worktree already removed and quarantines the Project.
4. *Raced yield.* A termination that commits while a yield is finalized leaves
   the item active; the lease release raises and the scheduler process exits.

### What else the models show

These behaviours are in the models as they are in the code. They break no checked
property; a reader of the code may want to know them.

In the v5 scheduler and registry:

* The restart pass may pause the host for a missing receipt that was published
  between its receipt test and its liveness test.
* An archived Project may for a moment have a worktree recorded by a dispatch
  whose claim is then refused. If the scheduler dies before the record and the
  item is removed, the Project can be archived with a ref and a tree that no row
  names. `AttemptsAreSwept` is therefore about claimed attempts.
* `_load_revision` resolves the stored paths again. When a checkout has vanished,
  its Project can be neither paused nor archived nor repaired, and no revision can
  be appended, although `git_resolver.py:482` advises to "create a new
  ProjectRevision"; `occupied_roots` makes it block the registration of others
  too; and `_finish_local_process` reads the item outside its `try`, so that the
  loss ends the scheduler process.
* A typed attempt that left files in its worktree is finished normally by the
  scheduler that launched it. After a restart its receipt is rejected, the item
  fails and the Project is quarantined.
* An imported pending item whose v4 worktree still exists blocks the archival of
  its Project for ever once an operator removes the item.

In the attempt:

* The executor restores its signal handlers before it publishes the exit receipt.
  A SIGINT between the staging of the receipt and its link ends it without one.
  `EvidenceIsNeverLost` excepts that step of the executor and no other.
* An operator that dies while it writes the yield request, or a recovery that
  meets the half-written file, leads to a host pause.

In the import:

* The name of the candidate is assigned before the test that it does not exist
  (`migrate_v5.py:1542`). The handler of the refusal "inspect and remove only
  stale unpublished migration state" removes that state itself.
* An interrupt that arrives as the exclusive rename returns leads to a failure
  receipt with `published: false` beside a published directory, which the
  docstring of `_rollback_published_state` rules out. `ReceiptsAreTrue` names
  this exception (`cut`).

In the v4 queue:

* `_launch` writes `blocked` without testing the row again, which brings back an
  item that was removed meanwhile.
* Cleanup by an operator's removal and by the sweep may leave a row with both a
  removal time and a cleanup error, which the import refuses for good.
  `EvidenceStaysImportable` is therefore about items that no operator removed.
* The import can be refused for an item through no fault of an operator.
  `git worktree remove` may fail, or be killed after 15 seconds
  (`queue.py:914-924`, `1166-1174`), when part of the directory or only one of
  directory and registration is gone; `git worktree add` may be killed likewise;
  and a job may move the HEAD of its worktree or change its card.
  `legacy_state._verify_legacy_git_runtime` refuses each of these shapes, and no
  later pass of the v4 scheduler repairs all of them.
  `EvidenceStaysImportable` claims importability of the other worktrees
  (`Unharmed`), and of every one that cleanup is recorded as complete only when
  directory and ref are gone.
* A failed checkpoint receipt is not compared with the request, so that an old one
  may cancel a later yield; the receipt test precedes the process test, so that a
  job that succeeds in between is recorded as disappeared; a crash between the
  fork and the recording of its process leaves a failed item with a live executor;
  `_escalate_terminations` may set the stage of a force kill back, though not its
  state.

## 4. The proofs

Every safety property that a passing run checks is also proved, for every value
of the constants; the two exceptions in the code that the violation runs exhibit
appear as hypotheses of the theorems they would refute.

### Store

`QueueStoreProofs` proves, for every set of items, GPUs and Projects, every
dependency relation and every number of segments:

* `RowCorrectness`: `RowInv` always holds, typing and the agreement of state,
  lease, signal stage and process identity in every row;
* `LeaseSafety`: `GpuIsExclusive` always holds, at most one lease per GPU and none
  on a reserved one;
* `Refinement`: `QueueStore` implements `GpuOwnership`;
* `Finality`, `TerminationIsFinal`, `LeaseLifetime`: the action properties
  `OutcomeIsFinal`, `TerminationWins` and `LeaseOutlivesAttempt`;
* `DependencyOrder`, `ArchivalIsSafe`, `SegmentEvidence`: the invariants
  `StartedAfterDependencies`, `ArchivedIsTerminal` and `SegmentsHaveReceipts`.

The only assumptions are those of `StoreAssumption` (the sorts of the constants,
and that `NoGpu` is no GPU). `RowInv` is inductive, because
every action rewrites one row as a whole and the guards name the state it starts
from: the lease agreement needs typing, and the stage agreement needs to be
carried through the terminal states. The proof goes action by action
over rows, so that each leaf is about one record. `LeaseInv` adds
exclusiveness and the freedom of reserved GPUs: a claim tests both in its
transaction, no other action sets `held`, and no other action changes `gpu`.
The refinement follows from `LeaseInv` and a lemma per kind of step on how
`HeldOn` changes.

The outcome theorems rest on one lemma, `StepChanges`: under `RowInv` every
transaction changes each row in one of six ways (not at all in what matters, an
operator's edit, a claim, an advance along `After`, a lease release, a
continuation). `RowInv` is needed for one of them: `release_gpu_lease` only
refuses active states, and it is the lease agreement that makes the others
ended. The action properties are read off the six cases. The three invariants
are inductive together with `RowInv`: a dependency that succeeded stays
succeeded, archival (`ArchivalStep`) is the only step that makes a Project
archived and finds its items terminal, and yield evidence is never deleted
(`EvidenceGrows`).

### Scheduler service

`ServiceProofs` and `ServiceTheorems` prove, for any items, GPUs, commands and
faults and any number of crashes:

* `ServiceUsesStore`: every step of the service is a transaction of `QueueStore`
  or leaves the store alone. Hence `ServiceLeaseSafety` (`GpuIsExclusive`) and
  `ServiceFinality` (`OutcomeIsFinal`, `TerminationWins`, `LeaseOutlivesAttempt`)
  for the running service;
* `ServiceTypes`, `LiveExecutor`, `OneExecutor`, `LaunchedOnce`: `ServiceTypeOK`,
  `LiveExecutorIsActive`, `OneExecutorPerGpu` and `SegmentLaunchedOnce`;
* `WorkIsCovered`: `LeaseCoversWork`, where work does not detach from its executor
  or no attempt is asked to yield;
* `ReleasesProven`: a lease goes only under the host lock of an idle GPU, or by a
  requeue of the restart pass that took no proof; `ReleasesProvenWithoutYields`:
  `ReleaseIsProven`, where no attempt is asked to yield;
* `RemovalFollowsRelease`: `CleanupFollowsRelease`, where no launch fails.

The hypotheses of the last three are the situations of findings 2 and 3: the runs
`stale_snapshot` and `launch_failure` show the properties violated without them.
`ReleasesProven` has no hypothesis and says that finding 2 is the only way a lease
is dropped without its proof.

The assumptions are `StoreAssumption` and `ServiceAssumption` (`NoItem` is no item).
`ServiceInv` says of each item that its executor and files fit its row (`ItemInv`),
and of the scheduler what it may rely on at each control point although operators
and executors act between any two of its steps: which variables are set
(`PointInv`), what the rows still to be visited have in common (`TodoInv`), that
the item in hand has no live executor while it is finished, discarded or requeued,
and is still pending while it is prepared (`CurInv`), and that an idle proof stays
good until the lease goes (`ProofInv`: the host lock is held, and nothing enters a
GPU but through a launch by the lease's owner). None of the properties is inductive
alone: a second executor on a GPU, for instance, is ruled out because a claim
tests the leases, a live executor has an active row, and an active row has a lease.
The proof first shows that each step is a transaction, so that `LeaseInv` of the
store carries over, and then treats the steps in groups (moves of the control
point, commands, ended attempts, recovery, dispatch, executors), with a lemma for
each step that does more than move (`ClaimInv`, `ForkInv`, `RequeueInv`,
`ResolveInv`).

### Attempts

`AttemptProofs` proves, for any set of operators and commands,
any faults and any number of crashes, every safety property of the run `attempt`:

* `RelianceIsDurable`, `ExitReceiptIsFinal`, `EvidenceLasts`: `EvidenceIsDurable`,
  `ExitReceiptMeansOver` and `EvidenceIsNeverLost`;
* `EachSignalOnce`, `RequestComesFirst`, `GentleSignalsComeFirst`:
  `OneBroadcastPerSignal`, `RequestPrecedesSignal` and `GracefulFirst`;
* `AttemptTypes`: the type invariant `AttemptTypeOK`, which no run needs to check.

The only assumption is `AttemptAssumption`. `EvidenceInv` says what is on disk at
each point of the executor (`LaunchInv`, `ExitInv`) and what the scheduler may
rely on at each point of its reading (`ReaderInv`). None of the properties is
inductive without it: that an exit recorded in the row is durable depends on the
reader having confirmed it, which depends on the executor being past the link or
gone. `ControlInv` adds what the handler has counted (`HeardInv`), who may be
writing the request (`RequestInv`: one process at a time, and whole before anybody
claims or signals), that a segment has one executor (`LifeInv`), and that a stage
was recorded only after the gentler one was signalled (`SentInv`, which follows
the stage into the memory of processes that will replay or deliver it later). Most
steps change few of these parts: the lemmas divide the steps into the ones that
send nothing, the ones that signal, and the few that do more.

### Projects and worktrees

`CatalogProofs` and `WorktreeProofs` prove, for any Projects, roots, nesting of
roots, operators, faults, number of items and number of crashes, every safety
property of the run `projects`:

* `RootsAreDisjoint`, `AdmissionOrder`, `HistoryIsMonotone`: `RootsStayDisjoint`,
  `AdmissionIsOrdered` and the action property `HistoryMovesForward`;
* `TreesStayWhole`, `AttemptsStaySwept`, `WrittenTreesAreKept`: `TreesAreWhole`,
  `AttemptsAreSwept` and the action property `WrittenTreeIsKept`;
* `WorktreeTypes`: the shapes of rows, plans and trees, `WorktreeTypeOK`.

The assumptions are `CatalogAssumption` (the sorts of the constants, and room for
the one revision and the one item an imported Project starts with) and
`WorktreeAssumption`.

`CatalogInv` adds to the two invariants what they rest on: a current revision is a
row of its Project, a row's sequence is at most its id (also in a plan that is not
committed yet, whose row will be at most one beyond the last), and an item's
revision is not later than the current one. The last is what makes admission
ordered: an item is admitted only to the current revision, and that never moves
back. The scheduler and the environment keep all of it because they change items
only in columns the invariant does not read, and of a Project only its circuit
(`CatalogFrame`); each committing transaction has a lemma. That the numbers computed
with `Max` really are the largest is proved from the well-foundedness of the naturals
(`SmallestOf`, `MaxOf`).

`WorktreeInv` adds `ItemOK`, true of each item whatever the scheduler is doing, and
`Position`, what the scheduler may rely on between two Git commands. `TreesAreWhole`
is not inductive: that a removed directory was clean, that a ref is deleted only
after its directory, and that a claimed item has a recorded tree all depend on the
control point and on nobody else having touched the item since. `EnvironmentStep` shows
that a moving ref, an ending executor, a writing job and a crash respect `Position`,
`OperatorStep` that commands do: they change pending items only, and
archive a Project only when its items are terminal and its cleanup is on record.
`ShapeInv` adds what `WorktreeTypeOK` needs: that an operator committing a row it
planned earlier adds it at the id it read, that only a claim makes an item active,
and that the scheduler works on admitted items.

### The schema-v4 queue

`LegacyProofs` proves, for any number of items, segments, GPUs, operators, requests,
errors and crashes, every property of `LegacyQueue` that the run `cutover` checks:

* `RowsMatch`, `SoundDispatch`, `ReservationHasYielder`: `RowsMatchProcesses`,
  `DispatchIsSound` and `PendingReservationHasYielder`;
* `EvidenceImportable`: `EvidenceStaysImportable`, what the import demands of the
  Git state of a row (`LegacyEvidence`) holds of every item that no operator
  removed, whose job left HEAD and card alone and at whose worktree no Git command
  broke off; and a cleanup recorded as complete is complete for every such item,
  harmed or not;
* `StopsAreFinal`: the action property `StopIsFinal`.

The assumption is `LegacyAssumption`: the sorts of the constants, that `None` is
neither a GPU nor a request, that the default priority 0 is a priority, and that the
scheduler's name is no operator's. The v4 code reads rows, acts on Git or on a
process and then writes, in many places without testing the row again, so the
invariant `LegacyInv` is about what was read. `SeenInv` says that the rows of the scheduler's list still
run, or can still be cleaned: only the scheduler ends a running item.
`CleanInv` follows a cleanup from the worktree to the ref to the row, also after a
removal that broke off, `DispatchInv` the
chosen item and GPU from the choice to the launch (the GPU stays free because only
the scheduler claims; dependencies stay satisfied because a success is final), and
`OwesFits` what an operator's process has still to do after its transaction. `RowsInv`
ties each row to its process and to Git. The invariant was checked by TLC in the
instance of `cutover` before it was proved.

### Import

`MigrationProofs` proves, for any sources, receipt paths, runs and crashes,
from `MigrationAssumption`:

* `ReceiptsStayTrue`: `ReceiptsAreTrue`, no receipt is ever contradicted;
* `DestinationStaysSound`: `DestinationIsSound`, what stands at the destination is
  complete, over nothing else, and its pending work can be run;
* `DurableReceiptsAreKept`, `TypeCorrect`: the action property `ReceiptsAreKept`
  and the type invariant `MigrationTypeOK`, which are proved only.

The inductive invariant ties
the importer's position to the name and content of its directory (`DirInv`,
`RowsInv`), to the truth of the document it is about to write (`DocInv`), and says
that a receipt of the current run is visible only at its end (`ReceiptInv`);
without the last, a rollback could contradict a receipt already written.

### Model-checked only

All liveness (`LeaseEventuallyFree`, `ReceiptEventuallyApplied`, `TerminationLands`,
`YieldIsDelivered`, `CleanupSettles`), which is outside the prover's reach; and that
`ReleaseIsProven` and `CleanupFollowsRelease` hold together under yields, detached
work and racing terminations when the scheduler does not crash (run `service_yield`).

## 5. Not modelled

* Document formats, canonical encodings and their validation (`admission.py`,
  `authoring.py`, `schema_registry.py`, `serialization.py`, `cooperative_yield.py`
  and `legacy_continuation_v0.py` as codecs, the bodies of migration receipts):
  pure functions whose verdict is an input of the model.
* The runner (`runner.py`, `execution.py`) inside the job: one process without
  shared state. Its announcement and its answers are inputs of `AttemptControl`.
* Reservation times, and reuse of a process number: the code compares start times.
* In the v4 queue: the schema migrations v1 to v4, which run once when the database
  is opened; runner columns and contention telemetry, which no other step tests;
  and liveness, because the v4 scheduler waits for an operator after several errors.
* The individual read-only Git calls and the byte-level comparison of worktrees.
* Export, status text, web and CLI rendering and authentication: read-only, or
  issuing the commands that are modelled.
* In the v4 queue, an executor that outlives its receipt: `_reconcile_processes`
  waits one second and goes on. `FinalizeYield` forgets it with its segment, so that
  the part of `RowsMatchProcesses` that a pending item has no live executor is about
  the segment to come; what can go wrong there is the receipt and the segment number.
* In the import, what the insertions do column by column: `InsertedRows` is the
  snapshot, because `_verify_destination` compares all of it before the candidate is
  used; and the syntax of the receipt's sections.
* The fail-closed path of `_dispatch_one` for unexpected exceptions, which
  differs from a failed launch only in that the exception is raised again.

## 6. What would come next

1. A composition of `SchedulerService` with the lifecycle commands and the
   worktrees in one state space. The scopes of `projects` cover their meeting
   points with one lease flag instead of the full row.
2. A refinement between the executor of `SchedulerService`, whose files are there or
   not, and `AttemptControl`, which publishes them step by step.
