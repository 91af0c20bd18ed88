---------------------------- MODULE LegacyQueue -----------------------------
(***************************************************************************)
(* The schema-v4 queue and its scheduler (queue.py), which runs until the  *)
(* cutover and whose state the importer reads.  One scheduler process      *)
(* reconciles processes, sweeps worktrees, escalates terminations and      *)
(* dispatches, from rows it read earlier; operators run short commands     *)
(* that may end with a step outside their transaction (a request file, a   *)
(* signal, a worktree cleanup).  Every transaction, file write, signal and *)
(* Git command is a step.                                                  *)
(***************************************************************************)
EXTENDS LegacyEvidence, Naturals, FiniteSets

CONSTANTS
    MaxItems,       \* bound on admitted items
    Experiments, Gpus, Operators, Priorities,
    Requests,       \* bound on yield requests still referred to
    MaxSegments,    \* bound on segments of an item
    MaxFailures,    \* max_consecutive_failures
    MaxCrashes,     \* bound on deaths of the scheduler and of operators
    None

ASSUME LegacyAssumption ==
    /\ MaxItems \in Nat /\ MaxSegments \in Nat \ {0} /\ MaxFailures \in Nat \ {0} /\ MaxCrashes \in Nat
    /\ None \notin Gpus \union Requests
    /\ 0 \in Priorities
    /\ "scheduler" \notin Operators

VARIABLES
    items,          \* queue_items, a sequence by id
    job,            \* per item: its current segment's executor and files
    git,            \* per item: pinned ref, worktree directory and its registration
    allow,          \* gpu_allowlist: "off", "on" or "draining"
    resv,           \* per GPU: its open reservation
    host,           \* dispatch_paused and consecutive_failures
    locks,          \* host GPU locks this scheduler holds
    sched,          \* the scheduler: where it is and the rows it read
    ops,            \* per operator: the step its command still owes
    crashes

vars == <<items, job, git, allow, resv, host, locks, sched, ops, crashes>>

Ids == 1 .. MaxItems
Admitted == {i \in Ids : items[i].state # "absent"}

Absent == [state |-> "absent", exp |-> None, deps |-> {}, priority |-> 0, preemptible |-> FALSE,
           segment |-> 1, front |-> FALSE, gpu |-> None, pid |-> FALSE, started |-> FALSE,
           request |-> None, stage |-> "none", path |-> FALSE, removed |-> FALSE, error |-> FALSE,
           dropped |-> FALSE]
NoJob == [exec |-> "none", exit |-> "none", signal |-> "none", request |-> None,
          answer |-> "none", answered |-> None]

(* A worktree directory is missing, clean, dirty, altered by its job (its  *)
(* HEAD or its card is not the item's any more) or partial (Git broke off  *)
(* while making or deleting it); Git may list it or not.                   *)
Trees == {"none", "clean", "dirty", "altered", "partial"}
NoGit == [ref |-> FALSE, tree |-> "none", registered |-> FALSE]

NoReservation == [status |-> "none", item |-> 0, request |-> None]
NoCommand == [at |-> "idle", item |-> 0, gpu |-> None, request |-> None, signal |-> "none", pid |-> FALSE,
              bad |-> FALSE]
Down == [at |-> "down", seen |-> <<>>, item |-> 0, gpu |-> None, avail |-> {}, receipt |-> FALSE,
         bad |-> FALSE, back |-> "reconcile"]

Init ==
    /\ items = [i \in Ids |-> Absent]
    /\ job = [i \in Ids |-> NoJob]
    /\ git = [i \in Ids |-> NoGit]
    /\ allow = [g \in Gpus |-> "off"]
    /\ resv = [g \in Gpus |-> NoReservation]
    /\ host = [paused |-> FALSE, failures |-> 0]
    /\ locks = {}
    /\ sched = Down
    /\ ops = [o \in Operators |-> NoCommand]
    /\ crashes = 0

State(i) == items[i].state
Running(i) == State(i) \in RunningStates
OnGpu(g) == {i \in Ids : Running(i) /\ items[i].gpu = g}
Alive(i) == job[i].exec \in {"live", "reported"}

(* _pid_matches: a recorded pid whose process and group still exist.       *)
PidMatches(i) == items[i].pid /\ Alive(i)

Rank(s) == CASE s = "none" -> 0 [] s = "int" -> 1 [] s = "term" -> 2

(* _signal_item: the group is signalled only if the row that was read has  *)
(* a pid and it matches.  SIGKILL ends executor and job, no receipt.       *)
Signalled(i, s, pid) ==
    IF ~(pid /\ Alive(i)) THEN job
    ELSE IF s = "kill" THEN [job EXCEPT ![i].exec = "dead"]
    ELSE [job EXCEPT ![i].signal = IF Rank(s) > Rank(@) THEN s ELSE @]

(* An identifier (uuid4) nobody refers to any more may stand for a new one.*)
Fresh(r) ==
    /\ \A i \in Ids : r \notin {items[i].request, job[i].request, job[i].answered}
    /\ \A o \in Operators : ops[o].request # r
    /\ \A g \in Gpus : resv[g].request # r
    /\ \A i \in DOMAIN sched.seen : sched.seen[i].request # r
FreshRequests == {r \in Requests : Fresh(r)}
NewRequests == IF FreshRequests = {} THEN {} ELSE {CHOOSE r \in FreshRequests : TRUE}

-----------------------------------------------------------------------------
(* Operator commands that are one transaction.                             *)

(* add_experiment: refuses a second active item and, unless a new attempt  *)
(* was asked for, one that was launched before; pins the commit.           *)
AddExperiment(o, i, e, deps, held, preemptible, again) ==
    /\ ops[o].at = "idle"
    /\ State(i) = "absent" /\ \A j \in 1 .. i - 1 : j \in Admitted
    /\ \A j \in Admitted : items[j].exp = e =>
           State(j) \in TerminalStates /\ (items[j].started => again)
    /\ deps \subseteq Admitted
    /\ items' = [items EXCEPT ![i] = [Absent EXCEPT !.state = IF held THEN "held" ELSE "queued",
                     !.exp = e, !.deps = deps, !.preemptible = preemptible]]
    /\ git' = [git EXCEPT ![i].ref = TRUE]
    /\ UNCHANGED <<job, allow, resv, host, locks, sched, ops, crashes>>

(* _transition_pending_item for hold_item and release_item.                *)
Transition(o, i, from, to) ==
    /\ ops[o].at = "idle" /\ State(i) \in from
    /\ items' = [items EXCEPT ![i].state = to]
    /\ UNCHANGED <<job, git, allow, resv, host, locks, sched, ops, crashes>>

HoldItem(o, i) == Transition(o, i, {"queued", "blocked"}, "held")
ReleaseItem(o, i) == Transition(o, i, {"held", "blocked"}, "queued")

SetPriority(o, i, n) ==
    /\ ops[o].at = "idle" /\ State(i) \in PendingStates \union {"starting", "running", "yielding"}
    /\ items' = [items EXCEPT ![i].priority = n]
    /\ UNCHANGED <<job, git, allow, resv, host, locks, sched, ops, crashes>>

SetDispatchPaused(o, paused) ==
    /\ ops[o].at = "idle"
    /\ host' = [host EXCEPT !.paused = paused]
    /\ UNCHANGED <<items, job, git, allow, resv, locks, sched, ops, crashes>>

(* update_gpu_allowlist: a GPU in use drains, an idle one is dropped.      *)
AllowGpu(o, g) ==
    /\ ops[o].at = "idle" /\ allow' = [allow EXCEPT ![g] = "on"]
    /\ UNCHANGED <<items, job, git, resv, host, locks, sched, ops, crashes>>

DisallowGpu(o, g) ==
    /\ ops[o].at = "idle" /\ allow[g] # "off"
    /\ allow' = [allow EXCEPT ![g] = IF OnGpu(g) # {} THEN "draining" ELSE "off"]
    /\ UNCHANGED <<items, job, git, resv, host, locks, sched, ops, crashes>>

(* release_gpu_reservation: only an active one.                            *)
ReleaseReservation(o, g) ==
    /\ ops[o].at = "idle" /\ resv[g].status = "active"
    /\ resv' = [resv EXCEPT ![g] = NoReservation]
    /\ UNCHANGED <<items, job, git, allow, host, locks, sched, ops, crashes>>

(* Queued and blocked items that wait for i are held when i is removed or  *)
(* ends without success.                                                   *)
HoldDependents(rows, i) ==
    [j \in Ids |-> IF i \in rows[j].deps /\ rows[j].state \in {"queued", "blocked"}
                   THEN [rows[j] EXCEPT !.state = "held"] ELSE rows[j]]

-----------------------------------------------------------------------------
(* Operator commands that end outside their transaction.                   *)

Owes(o, command) == ops' = [ops EXCEPT ![o] = command]
Done(o) == ops' = [ops EXCEPT ![o] = NoCommand]

(* remove_item; the cleanup follows.                                       *)
RemoveItem(o, i) ==
    /\ ops[o].at = "idle" /\ State(i) \in PendingStates
    /\ items' = HoldDependents([items EXCEPT ![i].state = "removed", ![i].dropped = TRUE], i)
    /\ Owes(o, [NoCommand EXCEPT !.at = "tree", !.item = i])
    /\ UNCHANGED <<job, git, allow, resv, host, locks, sched, crashes>>

Yielding(row, r) == [row EXCEPT !.state = "yielding", !.request = r]

(* request_gpu_reservation: an idle GPU is reserved at once; a stably      *)
(* running preemptible item is asked to yield first.                       *)
ReserveGpu(o, g) ==
    /\ ops[o].at = "idle" /\ allow[g] = "on" /\ resv[g].status = "none"
    /\ \/ /\ OnGpu(g) = {}
          /\ resv' = [resv EXCEPT ![g] = [NoReservation EXCEPT !.status = "active"]]
          /\ UNCHANGED <<items, ops>>
       \/ \E i \in OnGpu(g), r \in NewRequests :
            /\ State(i) = "running" /\ items[i].preemptible
            /\ resv' = [resv EXCEPT ![g] = [status |-> "pending", item |-> i, request |-> r]]
            /\ items' = [items EXCEPT ![i] = Yielding(@, r)]
            /\ Owes(o, [NoCommand EXCEPT !.at = "request", !.item = i, !.gpu = g, !.request = r])
    /\ UNCHANGED <<job, git, allow, host, locks, sched, crashes>>

(* request_preemption.                                                     *)
RequestPreemption(o, i) ==
    /\ ops[o].at = "idle" /\ State(i) = "running" /\ items[i].preemptible
    /\ \E r \in NewRequests :
         /\ items' = [items EXCEPT ![i] = Yielding(@, r)]
         /\ Owes(o, [NoCommand EXCEPT !.at = "request", !.item = i, !.request = r])
    /\ UNCHANGED <<job, git, allow, resv, host, locks, sched, crashes>>

(* The item goes back to running only if it still yields to this request.  *)
RestoredRunning(i, r) ==
    IF State(i) = "yielding" /\ items[i].request = r
    THEN [items[i] EXCEPT !.state = "running", !.request = None] ELSE items[i]

(* The request file is written, or cannot be and the yield is withdrawn.   *)
WriteRequest(o) ==
    /\ ops[o].at = "request"
    /\ LET i == ops[o].item
           g == ops[o].gpu
           r == ops[o].request
       IN \/ /\ job' = [job EXCEPT ![i].request = r]
             /\ UNCHANGED <<items, resv>>
          \/ /\ items' = [items EXCEPT ![i] = RestoredRunning(i, r)]
             /\ resv' = IF g # None /\ resv[g].request = r
                        THEN [resv EXCEPT ![g] = NoReservation] ELSE resv
             /\ UNCHANGED job
    /\ Done(o)
    /\ UNCHANGED <<git, allow, host, locks, sched, crashes>>

Withdrawn(i) == [g \in Gpus |-> IF resv[g].status = "pending" /\ resv[g].item = i
                               THEN NoReservation ELSE resv[g]]

(* Mutant of ReservationsAfterStop: leaves the pending reservation open.   *)
ReservationsKept(i) == resv

(* A termination supersedes the yield it interrupts.                       *)
ReservationsAfterStop(i) == IF State(i) = "yielding" THEN Withdrawn(i) ELSE resv

(* request_termination; the signal follows.  (A request id is dropped here *)
(* as soon as nothing will read it.)                                       *)
RequestTermination(o, i, force) ==
    /\ ops[o].at = "idle" /\ Running(i)
    /\ ~force => State(i) # "force_killing"
    /\ items' = [items EXCEPT ![i].state = IF force THEN "force_killing" ELSE "terminating",
                              ![i].stage = IF force THEN "kill" ELSE "interrupt",
                              ![i].request = None]
    /\ resv' = ReservationsAfterStop(i)
    /\ Owes(o, [NoCommand EXCEPT !.at = "signal", !.item = i,
                                 !.signal = IF force THEN "kill" ELSE "int",
                                 !.pid = items[i].pid])
    /\ UNCHANGED <<job, git, allow, host, locks, sched, crashes>>

SendSignal(o) ==
    /\ ops[o].at = "signal"
    /\ job' = Signalled(ops[o].item, ops[o].signal, ops[o].pid)
    /\ Done(o)
    /\ UNCHANGED <<items, git, allow, resv, host, locks, sched, crashes>>

-----------------------------------------------------------------------------
(* cleanup_item_worktree, run by a removing operator and by the scheduler: *)
(* remove the worktree, delete the ref, record the outcome by item id.     *)

Cleaner(p) == IF p = "scheduler" THEN sched ELSE ops[p]
CleanerMoves(p, at, bad) ==
    IF p = "scheduler"
    THEN sched' = [sched EXCEPT !.at = at, !.bad = bad] /\ UNCHANGED ops
    ELSE ops' = [ops EXCEPT ![p].at = at, ![p].bad = bad] /\ UNCHANGED sched

Gone(row) == [row EXCEPT !.tree = "none", !.registered = FALSE]

(* What git worktree remove leaves when it does not succeed: it deletes    *)
(* the directory as far as it can and then the registration, whether or    *)
(* not all of the directory went; it touches nothing that is not listed.   *)
FailedRemovals(row) ==
    IF row.registered
    THEN [ref : {row.ref}, tree : {row.tree, "partial", "none"}, registered : BOOLEAN]
    ELSE {row}

(* Mutant of CleanTree: deletes the ref before the worktree.               *)
CleanRefFirst(p) ==
    /\ Cleaner(p).at = "tree"
    /\ LET i == Cleaner(p).item
       IN \/ git' = [git EXCEPT ![i].ref = FALSE] /\ CleanerMoves(p, "ref", FALSE)
          \/ git[i].tree # "none" /\ UNCHANGED git /\ CleanerMoves(p, "mark", TRUE)
    /\ UNCHANGED <<items, job, allow, resv, host, locks, crashes>>

(* git worktree remove --force, if the directory is there.                 *)
CleanTree(p) ==
    /\ Cleaner(p).at = "tree"
    /\ LET i == Cleaner(p).item
       IN \/ git[i].tree = "none" /\ UNCHANGED git /\ CleanerMoves(p, "ref", FALSE)
          \/ /\ git[i].tree # "none" /\ git[i].registered
             /\ git' = [git EXCEPT ![i] = Gone(@)]
             /\ CleanerMoves(p, "ref", FALSE)
          \/ /\ git[i].tree # "none"
             /\ \E left \in FailedRemovals(git[i]) : git' = [git EXCEPT ![i] = left]
             /\ CleanerMoves(p, "mark", TRUE)
    /\ UNCHANGED <<items, job, allow, resv, host, locks, crashes>>

(* _delete_item_ref: update-ref -d fails if the ref is not there.          *)
CleanRef(p) ==
    /\ Cleaner(p).at = "ref"
    /\ LET i == Cleaner(p).item
       IN \/ git[i].ref /\ git' = [git EXCEPT ![i].ref = FALSE] /\ CleanerMoves(p, "mark", FALSE)
          \/ UNCHANGED git /\ CleanerMoves(p, "mark", TRUE)
    /\ UNCHANGED <<items, job, allow, resv, host, locks, crashes>>

(* git worktree prune forgets directories that are not there, and partial  *)
(* ones that lost their .git file.  Nobody checks whether it did.          *)
Prunable == {i \in Ids : git[i].tree \in {"none", "partial"}}
Pruned(lost) == [i \in Ids |-> IF i \in lost THEN [git[i] EXCEPT !.registered = FALSE] ELSE git[i]]

CleanMark(p) ==
    /\ Cleaner(p).at = "mark"
    /\ LET i == Cleaner(p).item
       IN \/ /\ Cleaner(p).bad
             /\ items' = [items EXCEPT ![i].error = TRUE]
             /\ UNCHANGED git
          \/ /\ ~Cleaner(p).bad
             /\ items' = [items EXCEPT ![i].removed = TRUE, ![i].error = FALSE]
             /\ \E lost \in SUBSET Prunable : git' = Pruned(lost)
    /\ IF p = "scheduler"
       THEN /\ sched' = [(IF sched.back = "idle" THEN Down ELSE sched) EXCEPT
                            !.at = sched.back, !.item = 0, !.bad = FALSE]
            /\ UNCHANGED ops
       ELSE Done(p) /\ UNCHANGED sched
    /\ UNCHANGED <<job, allow, resv, host, locks, crashes>>

(* _git_completed gives Git 15 seconds and kills it; nobody catches        *)
(* TimeoutExpired, so the removal, or the making of a worktree, is broken  *)
(* off and the process ends.                                               *)
GitTimesOut(p) ==
    /\ LET i == Cleaner(p).item
       IN \/ /\ Cleaner(p).at = "tree" /\ git[i].tree # "none"
             /\ \E left \in FailedRemovals(git[i]) : git' = [git EXCEPT ![i] = left]
          \/ /\ Cleaner(p).at = "prepare" /\ git[i].tree = "none" /\ git[i].ref
             /\ git' = [git EXCEPT ![i].tree = "partial", ![i].registered = TRUE]
    /\ IF p = "scheduler"
       THEN sched' = Down /\ locks' = {} /\ UNCHANGED ops
       ELSE Done(p) /\ UNCHANGED <<sched, locks>>
    /\ UNCHANGED <<items, job, allow, resv, host, crashes>>

-----------------------------------------------------------------------------
(* One scheduler iteration: expire reservations and read the running rows. *)

Least(i, S) == \A j \in S : i <= j
Go(at) == sched' = [sched EXCEPT !.at = at]
Rest == sched' = [Down EXCEPT !.at = "idle"]
Without(f, i) == [j \in DOMAIN f \ {i} |-> f[j]]
Rows(S) == [i \in S |-> [state |-> State(i), request |-> items[i].request]]

BeginIteration ==
    /\ sched.at = "idle"
    /\ \E due \in SUBSET {g \in Gpus : resv[g].status = "active"} :
         resv' = [g \in Gpus |-> IF g \in due THEN NoReservation ELSE resv[g]]
    /\ sched' = [Down EXCEPT !.at = "reconcile", !.seen = Rows({i \in Ids : Running(i)})]
    /\ UNCHANGED <<items, job, git, allow, host, locks, ops, crashes>>

(* _reconcile_processes: is there an exit receipt?                         *)
LookForReceipt ==
    /\ sched.at = "reconcile"
    /\ \E i \in DOMAIN sched.seen :
         /\ Least(i, DOMAIN sched.seen)
         /\ sched' = [sched EXCEPT !.at = IF job[i].exit # "none" THEN "finalize" ELSE "probe",
                                   !.item = i, !.receipt = job[i].exit # "none"]
    /\ UNCHANGED <<items, job, git, allow, resv, host, locks, ops, crashes>>

(* If not, is the process still there?                                     *)
ProbeProcess ==
    /\ sched.at = "probe"
    /\ sched' = IF PidMatches(sched.item)
                THEN [sched EXCEPT !.at = "reconcile", !.item = 0, !.seen = Without(@, sched.item)]
                ELSE [sched EXCEPT !.at = "finalize"]
    /\ UNCHANGED <<items, job, git, allow, resv, host, locks, ops, crashes>>

(* _validated_yield_receipt against the row that was read.                 *)
YieldValidated(i, row) ==
    /\ row.state = "yielding" /\ sched.receipt /\ job[i].exit = "yield"
    /\ job[i].answer = "ready" /\ job[i].answered = row.request

(* Mutant of StillYielding: trusts the row that was read.                  *)
TrustRow(i, row) == TRUE

(* _finalize_yield rechecks, in its transaction, that nothing superseded   *)
(* the yield.                                                              *)
StillYielding(i, row) == State(i) = "yielding" /\ items[i].request = row.request

(* Mutant of Requeued: resumes in the same segment.                        *)
RequeuedHere(i) ==
    [items EXCEPT ![i] = [@ EXCEPT !.state = "queued", !.front = TRUE, !.gpu = None, !.pid = FALSE,
                                   !.request = None]]

Requeued(i) ==
    [items EXCEPT ![i] = [@ EXCEPT !.state = "queued", !.segment = items[i].segment + 1, !.front = TRUE,
                                   !.gpu = None, !.pid = FALSE, !.request = None]]

(* _finalize_yield: the reservation that asked for the GPU becomes active. *)
(* The next segment has its own directory and the row no process, so the   *)
(* executor of the last one is forgotten here even where the code lets it  *)
(* outlive its receipt for a moment.                                       *)
FinalizeYield ==
    /\ sched.at = "finalize"
    /\ LET i == sched.item
           row == sched.seen[i]
       IN /\ YieldValidated(i, row) /\ StillYielding(i, row)
          /\ items' = Requeued(i)
          /\ resv' = [g \in Gpus |-> IF resv[g].status = "pending" /\ resv[g].item = i
                                     THEN [NoReservation EXCEPT !.status = "active"] ELSE resv[g]]
          /\ job' = IF items'[i].segment = items[i].segment THEN job ELSE [job EXCEPT ![i] = NoJob]
          /\ locks' = locks \ {items[i].gpu}
          /\ sched' = [sched EXCEPT !.at = "reconcile", !.item = 0, !.receipt = FALSE,
                                    !.seen = Without(@, i)]
    /\ host' = [host EXCEPT !.failures = 0]
    /\ UNCHANGED <<git, allow, ops, crashes>>

(* What reading a runner's receipt, and validating the checkpoint a yield  *)
(* receipt names, may come to.                                             *)
RunnerReceipts == {"usable", "broken"}
Checkpoints == {"valid", "invalid"}

(* The final state follows from the state that was read (again, if a yield *)
(* was superseded), the return code, and the runner's receipt.             *)
FinalState(prior, code, receipt) ==
    IF prior = "force_killing" THEN "force_killed"
    ELSE IF prior = "terminating" \/ code = "int" THEN "interrupted"
    ELSE IF code = "ok" /\ receipt = "usable" THEN "succeeded"
    ELSE "failed"

Finished(i, final) ==
    LET rows == [items EXCEPT ![i].state = final, ![i].pid = FALSE, ![i].request = None]
    IN IF final = "succeeded" THEN rows ELSE HoldDependents(rows, i)

Counted(final) ==
    LET n == IF final # "failed" THEN 0
             ELSE IF host.failures = MaxFailures THEN MaxFailures ELSE host.failures + 1
    IN [paused |-> host.paused \/ (final = "failed" /\ n = MaxFailures), failures |-> n]

(* A draining GPU leaves the allow-list with its last item.                *)
Drained(g, i) == IF allow[g] = "draining" /\ OnGpu(g) \subseteq {i}
                 THEN [allow EXCEPT ![g] = "off"] ELSE allow

(* _finalize_yield returns False: the row is read again, the yield is off. *)
YieldSuperseded ==
    /\ sched.at = "finalize"
    /\ LET i == sched.item
       IN /\ YieldValidated(i, sched.seen[i]) /\ ~StillYielding(i, sched.seen[i])
          /\ sched' = [sched EXCEPT !.seen[i] = [state |-> State(i), request |-> None]]
    /\ UNCHANGED <<items, job, git, allow, resv, host, locks, ops, crashes>>

(* _finalize_item: the row is rewritten by id, whatever it says by now.    *)
(* The runner receipt may be broken, the yield receipt may not validate.   *)
(* Of the segment's files, nothing is read again.                          *)
FinalizeItem ==
    /\ sched.at = "finalize"
    /\ LET i == sched.item
           row == sched.seen[i]
           code == IF sched.receipt THEN job[i].exit ELSE "none"
       IN \E receipt \in RunnerReceipts, checkpoint \in Checkpoints :
          LET final == FinalState(row.state, code, receipt)
          IN /\ YieldValidated(i, row) => receipt = "broken" \/ checkpoint = "invalid"
             /\ items' = Finished(i, final)
             /\ host' = Counted(final)
             /\ resv' = Withdrawn(i)
             /\ allow' = Drained(items[i].gpu, i)
             /\ locks' = locks \ {items[i].gpu}
             /\ sched' = [sched EXCEPT !.at = "tree", !.back = "reconcile", !.receipt = FALSE,
                                       !.seen = Without(@, i)]
             /\ job' = [job EXCEPT ![i] = [NoJob EXCEPT !.exec = job[i].exec]]
    /\ UNCHANGED <<git, ops, crashes>>

(* _reconcile_worktree_cleanup: terminal rows with unremoved worktrees.    *)
BeginSweep ==
    /\ sched.at = "reconcile" /\ DOMAIN sched.seen = {}
    /\ sched' = [Down EXCEPT !.at = "sweep", !.back = "sweep",
                    !.seen = Rows({i \in Ids : State(i) \in TerminalStates /\ ~items[i].removed})]
    /\ UNCHANGED <<items, job, git, allow, resv, host, locks, ops, crashes>>

(* A failed cleanup is retried only after a minute.                        *)
Sweep ==
    /\ sched.at = "sweep"
    /\ \E i \in DOMAIN sched.seen :
         /\ Least(i, DOMAIN sched.seen)
         /\ \/ sched' = [sched EXCEPT !.at = "tree", !.item = i, !.seen = Without(@, i)]
            \/ items[i].error /\ sched' = [sched EXCEPT !.seen = Without(@, i)]
    /\ UNCHANGED <<items, job, git, allow, resv, host, locks, ops, crashes>>

(* _reconcile_yield_failures: the yielding rows are read once.             *)
BeginYields ==
    /\ sched.at = "sweep" /\ DOMAIN sched.seen = {}
    /\ sched' = [sched EXCEPT !.at = "yields", !.seen = Rows({i \in Ids : State(i) = "yielding"})]
    /\ UNCHANGED <<items, job, git, allow, resv, host, locks, ops, crashes>>

(* A live job that answered "failed", whichever request the answer was     *)
(* for, goes back to running, if its row still yields by now.              *)
ReconcileYield ==
    /\ sched.at = "yields"
    /\ \E i \in DOMAIN sched.seen :
         /\ Least(i, DOMAIN sched.seen)
         /\ IF job[i].answer = "failed" /\ PidMatches(i) /\ State(i) = "yielding"
            THEN /\ items' = [items EXCEPT ![i].state = "running", ![i].request = None]
                 /\ resv' = Withdrawn(i)
            ELSE UNCHANGED <<items, resv>>
         /\ sched' = [sched EXCEPT !.seen = Without(@, i)]
    /\ UNCHANGED <<job, git, allow, host, locks, ops, crashes>>

EndYields ==
    /\ sched.at = "yields" /\ DOMAIN sched.seen = {}
    /\ Go("escalate")
    /\ UNCHANGED <<items, job, git, allow, resv, host, locks, ops, crashes>>

-----------------------------------------------------------------------------
(* _escalate_terminations: SIGTERM once the grace period is over; the      *)
(* stage is written afterwards, by id.                                     *)

Escalatable(i) == State(i) = "terminating" /\ items[i].stage = "interrupt"

GraceOver ==
    /\ sched.at = "escalate"
    /\ \E i \in Ids :
         /\ Escalatable(i)
         /\ job' = Signalled(i, "term", items[i].pid)
         /\ sched' = [sched EXCEPT !.at = "escalated", !.item = i]
    /\ UNCHANGED <<items, git, allow, resv, host, locks, ops, crashes>>

RecordEscalation ==
    /\ sched.at = "escalated"
    /\ items' = [items EXCEPT ![sched.item].stage = "terminate"]
    /\ sched' = [sched EXCEPT !.at = "escalate", !.item = 0]
    /\ UNCHANGED <<job, git, allow, resv, host, locks, ops, crashes>>

-----------------------------------------------------------------------------
(* _poll_and_dispatch: pause if a running item's checkout drifted or the   *)
(* telemetry fails; otherwise read the GPUs to fill.                       *)

(* _worktree_identity and _repo_identity_matches: the item's own, clean    *)
(* worktree at its commit, which Git knows.                                *)
IdentityMatches(i) == git[i].tree = "clean" /\ git[i].registered

Drifted == \E i \in Ids : Running(i) /\ ~IdentityMatches(i)

SkipPoll ==
    /\ sched.at = "escalate"
    /\ Rest
    /\ UNCHANGED <<items, job, git, allow, resv, host, locks, ops, crashes>>

PausePoll ==
    /\ sched.at = "escalate"
    /\ host' = [host EXCEPT !.paused = TRUE]
    /\ Rest
    /\ UNCHANGED <<items, job, git, allow, resv, locks, ops, crashes>>

(* Mutant of Free: does not ask what runs there.                           *)
FreeUnassigned(g) == allow[g] = "on" /\ resv[g].status = "none"

Free(g) == allow[g] = "on" /\ OnGpu(g) = {} /\ resv[g].status = "none"

(* query_gpus: which GPUs nvidia-smi reports as known and idle.            *)
Telemetry == SUBSET Gpus

Poll ==
    /\ sched.at = "escalate"
    /\ ~Drifted /\ ~host.paused
    /\ \E idle \in Telemetry :
         sched' = [sched EXCEPT !.at = "dispatch", !.avail = {g \in idle : Free(g)}]
    /\ UNCHANGED <<items, job, git, allow, resv, host, locks, ops, crashes>>

-----------------------------------------------------------------------------
(* _next_item and _launch.                                                 *)

DependenciesSatisfied(i) == \A d \in items[i].deps : State(d) = "succeeded"

(* Priority first, then resumed items, then the oldest.                    *)
Before(i, j) ==
    \/ items[i].priority > items[j].priority
    \/ /\ items[i].priority = items[j].priority
       /\ \/ items[i].front /\ ~items[j].front
          \/ items[i].front = items[j].front /\ i < j

Candidates == {i \in Ids : State(i) = "queued" /\ DependenciesSatisfied(i)}

NextItem ==
    /\ sched.at = "dispatch"
    /\ IF sched.avail = {} \/ Candidates = {} THEN Rest
       ELSE \E g \in sched.avail, i \in Candidates :
              /\ \A j \in Candidates \ {i} : Before(i, j)
              /\ sched' = [sched EXCEPT !.at = "prepare", !.gpu = g, !.item = i, !.avail = @ \ {g}]
    /\ UNCHANGED <<items, job, git, allow, resv, host, locks, ops, crashes>>

NextGpu == sched' = [sched EXCEPT !.at = "dispatch", !.gpu = None, !.item = 0, !.bad = FALSE]
NotLaunched(paused) == IF paused THEN Rest ELSE NextGpu

(* prepare_item_worktree: add the worktree if it is missing, which needs   *)
(* the ref; if Git refuses, prune and try again.  A worktree that cannot   *)
(* be made, linked or identified leaves the item queued.                   *)
PrepareTree ==
    /\ sched.at = "prepare"
    /\ LET i == sched.item
       IN \/ /\ git[i].tree = "none" /\ git[i].ref
             /\ \E lost \in SUBSET Prunable :
                  git' = [Pruned(lost) EXCEPT ![i].tree = "clean", ![i].registered = TRUE]
             /\ Go("recordTree") \/ NotLaunched(host.paused)
          \/ /\ git[i].tree = "none"
             /\ \E lost \in SUBSET Prunable : git' = Pruned(lost)
             /\ NotLaunched(host.paused)
          \/ git[i].tree # "none" /\ NotLaunched(host.paused) /\ UNCHANGED git
          \/ IdentityMatches(i) /\ Go("recordTree") /\ UNCHANGED git
    /\ UNCHANGED <<items, job, allow, resv, host, locks, ops, crashes>>

(* _item_execution_context: only a resumed segment needs its checkpoint.   *)
NeedsCheckpoint(i) == items[i].segment > 1

(* The worktree is recorded once, by id; then the execution context is     *)
(* validated: a lost checkpoint holds an item that is still queued.        *)
RecordTree ==
    /\ sched.at = "recordTree"
    /\ LET i == sched.item
           row == IF items[i].path THEN items[i]
                  ELSE [items[i] EXCEPT !.path = TRUE, !.removed = FALSE, !.error = FALSE]
       IN \/ /\ IdentityMatches(i) /\ Go("identity")
             /\ items' = [items EXCEPT ![i] = row]
          \/ /\ ~IdentityMatches(i) /\ NotLaunched(host.paused)
             /\ items' = [items EXCEPT ![i] = row]
          \/ /\ IdentityMatches(i) /\ NeedsCheckpoint(i)
             /\ items' = [items EXCEPT ![i] = [row EXCEPT !.state = IF @ = "queued" THEN "held" ELSE @]]
             /\ NotLaunched(host.paused)
    /\ UNCHANGED <<job, git, allow, resv, host, locks, ops, crashes>>

(* _repo_identity_matches: a checkout that changed meanwhile blocks the    *)
(* item, whatever its state is by now, and pauses dispatch.                *)
IdentityMismatch ==
    /\ sched.at = "identity" /\ ~IdentityMatches(sched.item)
    /\ items' = [items EXCEPT ![sched.item].state = "blocked"]
    /\ host' = [host EXCEPT !.paused = TRUE]
    /\ Rest
    /\ UNCHANGED <<job, git, allow, resv, locks, ops, crashes>>

(* Too little disk pauses; a busy lock or GPU leaves the item queued.      *)
LockGpu ==
    /\ sched.at = "identity" /\ IdentityMatches(sched.item)
    /\ \/ host' = [host EXCEPT !.paused = TRUE] /\ Rest /\ UNCHANGED locks
       \/ NotLaunched(host.paused) /\ UNCHANGED <<host, locks>>
       \/ locks' = locks \union {sched.gpu} /\ Go("claim") /\ UNCHANGED host
    /\ UNCHANGED <<items, job, git, allow, resv, ops, crashes>>

ClaimItem ==
    /\ sched.at = "claim"
    /\ IF State(sched.item) = "queued"
       THEN /\ items' = [items EXCEPT ![sched.item].state = "starting",
                             ![sched.item].gpu = sched.gpu, ![sched.item].front = FALSE]
            /\ Go("spawn") /\ UNCHANGED locks
       ELSE /\ locks' = locks \ {sched.gpu}
            /\ NotLaunched(host.paused) /\ UNCHANGED items
    /\ UNCHANGED <<job, git, allow, resv, host, ops, crashes>>

(* Popen; an OSError fails the item by id and pauses dispatch.             *)
SpawnExecutor ==
    /\ sched.at = "spawn"
    /\ LET i == sched.item
       IN \/ /\ job' = [job EXCEPT ![i].exec = "live"]
             /\ Go("record")
             /\ UNCHANGED <<items, host, locks>>
          \/ /\ items' = [items EXCEPT ![i].state = "failed"]
             /\ host' = [host EXCEPT !.paused = TRUE]
             /\ locks' = locks \ {sched.gpu}
             /\ sched' = [sched EXCEPT !.at = "tree", !.back = "idle", !.gpu = None, !.avail = {}]
             /\ UNCHANGED job
    /\ UNCHANGED <<git, allow, resv, ops, crashes>>

NextState(s) == IF s = "starting" THEN "running" ELSE s

(* The pid is recorded; a termination requested meanwhile is signalled.    *)
RecordLaunch ==
    /\ sched.at = "record"
    /\ LET i == sched.item
       IN /\ items' = [items EXCEPT ![i].state = NextState(@), ![i].pid = TRUE, ![i].started = TRUE]
          /\ IF State(i) = "starting" THEN NextGpu
             ELSE sched' = [sched EXCEPT !.at = "signal", !.bad = State(i) = "force_killing"]
    /\ UNCHANGED <<job, git, allow, resv, host, locks, ops, crashes>>

SignalAfterLaunch ==
    /\ sched.at = "signal"
    /\ job' = Signalled(sched.item, IF sched.bad THEN "kill" ELSE "int", TRUE)
    /\ NextGpu
    /\ UNCHANGED <<items, git, allow, resv, host, locks, ops, crashes>>

-----------------------------------------------------------------------------
(* The executor and its job: one segment, its answer to a yield request    *)
(* and its exit receipt.                                                   *)

JobAnswers(i, answer) ==
    /\ job[i].exec = "live" /\ items[i].preemptible
    /\ job[i].request # None /\ job[i].answered # job[i].request /\ job[i].answer # "ready"
    /\ answer = "ready" => items[i].segment < MaxSegments
    /\ job' = [job EXCEPT ![i].answer = answer, ![i].answered = job[i].request]
    /\ UNCHANGED <<items, git, allow, resv, host, locks, sched, ops, crashes>>

(* The job ends and the executor publishes the exit receipt.               *)
JobEnds(i, code) ==
    /\ job[i].exec = "live"
    /\ code \in {"ok", "bad"} \union (IF job[i].signal # "none" THEN {"int"} ELSE {})
                \union (IF job[i].answer = "ready" THEN {"yield"} ELSE {})
    /\ job' = [job EXCEPT ![i].exec = "reported", ![i].exit = code]
    /\ UNCHANGED <<items, git, allow, resv, host, locks, sched, ops, crashes>>

ExecutorExits(i) ==
    /\ job[i].exec = "reported"
    /\ job' = [job EXCEPT ![i].exec = "dead"]
    /\ UNCHANGED <<items, git, allow, resv, host, locks, sched, ops, crashes>>

(* Killed from outside, without a receipt.                                 *)
ExecutorDies(i) ==
    /\ job[i].exec = "live" /\ crashes < MaxCrashes
    /\ job' = [job EXCEPT ![i].exec = "dead"]
    /\ crashes' = crashes + 1
    /\ UNCHANGED <<items, git, allow, resv, host, locks, sched, ops>>

(* The job writes in its worktree, or moves its HEAD or changes its card.  *)
JobDirties(i, tree) ==
    /\ job[i].exec = "live" /\ git[i].tree \in {"clean", "dirty"}
    /\ git' = [git EXCEPT ![i].tree = tree]
    /\ UNCHANGED <<items, job, allow, resv, host, locks, sched, ops, crashes>>

-----------------------------------------------------------------------------
(* run: the flock admits one scheduler; it takes back the locks of running *)
(* items, unless somebody else holds them.                                 *)
StartScheduler ==
    /\ sched.at = "down"
    /\ \E busy \in SUBSET Gpus : locks' = {g \in Gpus : OnGpu(g) # {}} \ busy
    /\ Rest
    /\ UNCHANGED <<items, job, git, allow, resv, host, ops, crashes>>

StopScheduler ==
    /\ sched.at = "idle"
    /\ sched' = Down /\ locks' = {}
    /\ UNCHANGED <<items, job, git, allow, resv, host, ops, crashes>>

SchedulerDies ==
    /\ sched.at \notin {"down", "idle"} /\ crashes < MaxCrashes
    /\ sched' = Down /\ locks' = {} /\ crashes' = crashes + 1
    /\ UNCHANGED <<items, job, git, allow, resv, host, ops>>

OperatorDies(o) ==
    /\ ops[o].at # "idle" /\ crashes < MaxCrashes
    /\ Done(o) /\ crashes' = crashes + 1
    /\ UNCHANGED <<items, job, git, allow, resv, host, locks, sched>>

-----------------------------------------------------------------------------
SchedulerStep ==
    \/ BeginIteration \/ LookForReceipt \/ ProbeProcess
    \/ FinalizeYield \/ YieldSuperseded \/ FinalizeItem
    \/ BeginSweep \/ Sweep \/ BeginYields \/ ReconcileYield \/ EndYields
    \/ GraceOver \/ RecordEscalation
    \/ SkipPoll \/ PausePoll \/ Poll \/ NextItem
    \/ PrepareTree \/ RecordTree \/ IdentityMismatch \/ LockGpu \/ ClaimItem
    \/ SpawnExecutor \/ RecordLaunch \/ SignalAfterLaunch
    \/ CleanTree("scheduler") \/ CleanRef("scheduler") \/ CleanMark("scheduler") \/ GitTimesOut("scheduler")

OperatorFinishes(o) ==
    WriteRequest(o) \/ SendSignal(o) \/ CleanTree(o) \/ CleanRef(o) \/ CleanMark(o) \/ GitTimesOut(o)

Answers == {"ready", "failed"}
Codes == {"ok", "bad", "int", "yield"}

JobStep(i) ==
    \/ \E a \in Answers : JobAnswers(i, a)
    \/ \E c \in Codes : JobEnds(i, c)
    \/ \E tree \in {"dirty", "altered"} : JobDirties(i, tree)
    \/ ExecutorExits(i)

Faults ==
    \/ \E i \in Ids : ExecutorDies(i)
    \/ SchedulerDies \/ StopScheduler
    \/ \E o \in Operators : OperatorDies(o)

Command(o) ==
    \/ \E i \in Ids, e \in Experiments, deps \in SUBSET Admitted, held, preemptible, again \in BOOLEAN :
         AddExperiment(o, i, e, deps, held, preemptible, again)
    \/ \E i \in Ids : HoldItem(o, i) \/ ReleaseItem(o, i) \/ RemoveItem(o, i) \/ RequestPreemption(o, i)
    \/ \E i \in Ids, n \in Priorities : SetPriority(o, i, n)
    \/ \E i \in Ids, force \in BOOLEAN : RequestTermination(o, i, force)
    \/ \E paused \in BOOLEAN : SetDispatchPaused(o, paused)
    \/ \E g \in Gpus : AllowGpu(o, g) \/ DisallowGpu(o, g) \/ ReserveGpu(o, g) \/ ReleaseReservation(o, g)

Next ==
    \/ StartScheduler \/ SchedulerStep \/ Faults
    \/ \E i \in Ids : JobStep(i)
    \/ \E o \in Operators : Command(o) \/ OperatorFinishes(o)

Spec == Init /\ [][Next]_vars

-----------------------------------------------------------------------------
(* What Git and the row say of item i, as the importer will read them.     *)
Evidence(i) ==
    [state |-> State(i), pinned |-> TRUE, path |-> items[i].path, removed |-> items[i].removed,
     error |-> items[i].error, target |-> IF git[i].ref THEN "commit" ELSE "none",
     tree |-> CASE git[i].tree = "none" -> "absent"
                [] git[i].tree \in {"clean", "dirty"} -> "live"
                [] OTHER -> "wrong",
     registered |-> git[i].registered, files |-> "intact"]

(* Type invariant of the v4 store (queue.py).                              *)
LegacyTypeOK ==
    /\ \A i \in Ids :
         items[i] \in [state : {"absent"} \union PendingStates \union RunningStates \union TerminalStates,
                exp : Experiments \union {None}, deps : SUBSET Ids, priority : Priorities,
                preemptible : BOOLEAN, segment : 1 .. MaxSegments, front : BOOLEAN,
                gpu : Gpus \union {None}, pid : BOOLEAN, started : BOOLEAN,
                request : Requests \union {None}, stage : {"none", "interrupt", "terminate", "kill"},
                path : BOOLEAN, removed : BOOLEAN, error : BOOLEAN, dropped : BOOLEAN]
    /\ job \in [Ids -> [exec : {"none", "live", "reported", "dead"}, exit : {"none"} \union Codes,
                        signal : {"none", "int", "term"}, request : Requests \union {None},
                        answer : {"none"} \union Answers, answered : Requests \union {None}]]
    /\ git \in [Ids -> [ref : BOOLEAN, tree : Trees, registered : BOOLEAN]]
    /\ allow \in [Gpus -> {"off", "on", "draining"}]
    /\ resv \in [Gpus -> [status : {"none", "pending", "active"}, item : {0} \union Ids,
                          request : Requests \union {None}]]
    /\ host \in [paused : BOOLEAN, failures : 0 .. MaxFailures]
    /\ locks \subseteq Gpus

(* _poll_and_dispatch fills GPUs from a list it read once, and _next_item  *)
(* reads dependencies some steps before the claim, while items finish,     *)
(* fail, are removed or released again: still no two items that run are    *)
(* assigned one GPU, and an item runs only once everything it depends on   *)
(* has succeeded.                                                          *)
DispatchIsSound ==
    /\ \A g \in Gpus : Cardinality(OnGpu(g)) <= 1
    /\ \A i \in Ids : Running(i) => \A d \in items[i].deps : State(d) = "succeeded"

(* request_termination is final whatever yield, launch or checkpoint       *)
(* failure is under way: a terminating item ends, is never requeued or set *)
(* running again, and a force kill never becomes a graceful one.           *)
StopIsFinal ==
    [][\A i \in Ids :
          /\ State(i) = "terminating" => State(i)' \in {"terminating", "force_killing"} \union FinishedStates
          /\ State(i) = "force_killing" => State(i)' \in {"force_killing"} \union FinishedStates]_vars

(* A pending reservation always has the item that will free its GPU: it is *)
(* there, and it yields to exactly this request (request_gpu_reservation   *)
(* against termination, failed checkpoints and failed request files).      *)
PendingReservationHasYielder ==
    \A g \in Gpus : resv[g].status = "pending" =>
        LET i == resv[g].item
        IN State(i) = "yielding" /\ items[i].request = resv[g].request /\ items[i].gpu = g

(* Rows and processes agree: only a running row names a process, and it    *)
(* has its GPU; a pending item starts its segment from nothing, so that no *)
(* process and no exit receipt of an earlier segment can be taken for its  *)
(* own by _reconcile_processes once it is launched (_finalize_yield).      *)
RowsMatchProcesses ==
    /\ LegacyTypeOK
    /\ \A i \in Ids :
          /\ items[i].pid => Running(i)
          /\ Running(i) => items[i].gpu # None
          /\ State(i) \in PendingStates => ~Alive(i) /\ job[i].exit = "none"

(* A worktree that its job left at its commit with its card, and that no   *)
(* Git command broke off at: there and listed, or gone and not listed.     *)
Unharmed(i) ==
    /\ git[i].tree \in {"none", "clean", "dirty"}
    /\ git[i].registered <=> git[i].tree # "none"

(* The order of cleanup_item_worktree's steps, crashes between them,       *)
(* failed and repeated attempts, and preparation leave an item that no     *)
(* operator removed, as soon as it does not run, in a shape                *)
(* legacy_state._verify_legacy_git_runtime accepts, unless its job changed *)
(* what the importer verifies or Git broke off at its worktree; and even   *)
(* then cleanup is recorded as complete only when the directory and the    *)
(* ref are gone.                                                           *)
EvidenceStaysImportable ==
    \A i \in Admitted : ~Running(i) /\ ~items[i].dropped =>
        /\ Unharmed(i) => GitRuntimeVerified(Evidence(i))
        /\ items[i].removed => git[i].tree = "none" /\ ~git[i].ref
=============================================================================
