---------------------------- MODULE LegacyProofs ----------------------------
(***************************************************************************)
(* The schema-v4 queue keeps its promises for every number of items, GPUs, *)
(* operators and requests.  One inductive invariant, LegacyInv, ties rows, *)
(* processes, Git and reservations to what the scheduler and the operators *)
(* read before their current step.                                         *)
(***************************************************************************)
EXTENDS LegacyQueue, TLAPS

\* A leaf that names no prover is a first-order step, left to Zenon.
USE Zenon

\* Control points: going over the running rows, cleaning a worktree, from the
\* choice of an item to its claim, and from the claim to the recorded launch.
Reconciling == {"reconcile", "probe", "finalize"}
Cleaning == {"tree", "ref", "mark"}
Choosing == {"prepare", "recordTree", "identity", "claim"}
Starting == {"spawn", "record"}
Points == {"down", "idle", "sweep", "yields", "escalate", "escalated", "dispatch", "signal"}
          \union Reconciling \union Cleaning \union Choosing \union Starting

States == {"absent"} \union PendingStates \union RunningStates \union TerminalStates
ItemRow ==
    [state : States, exp : Experiments \union {None}, deps : SUBSET Ids,
     priority : Priorities, preemptible : BOOLEAN, segment : 1 .. MaxSegments,
     front : BOOLEAN, gpu : Gpus \union {None}, pid : BOOLEAN, started : BOOLEAN,
     request : Requests \union {None}, stage : {"none", "interrupt", "terminate", "kill"},
     path : BOOLEAN, removed : BOOLEAN, error : BOOLEAN, dropped : BOOLEAN]
JobRow ==
    [exec : {"none", "live", "reported", "dead"}, exit : {"none"} \union Codes,
     signal : {"none", "int", "term"}, request : Requests \union {None},
     answer : {"none"} \union Answers, answered : Requests \union {None}]
GitRow == [ref : BOOLEAN, tree : Trees, registered : BOOLEAN]
ReservationRow ==
    [status : {"none", "pending", "active"}, item : {0} \union Ids,
     request : Requests \union {None}]
HostRow == [paused : BOOLEAN, failures : 0 .. MaxFailures]
SeenRow == [state : States, request : Requests \union {None}]
Snapshots == UNION {[S -> SeenRow] : S \in SUBSET Ids}
SchedRow ==
    [at : Points, seen : Snapshots, item : {0} \union Ids, gpu : Gpus \union {None},
     avail : SUBSET Gpus, receipt : BOOLEAN, bad : BOOLEAN,
     back : {"reconcile", "sweep", "idle"}]
CommandRow ==
    [at : {"idle", "request", "signal"} \union Cleaning, item : {0} \union Ids,
     gpu : Gpus \union {None}, request : Requests \union {None},
     signal : {"none", "int", "kill"}, pid : BOOLEAN, bad : BOOLEAN]

ItemTypes == items \in [Ids -> ItemRow]
WorldTypes ==
    /\ job \in [Ids -> JobRow]
    /\ git \in [Ids -> GitRow]
    /\ allow \in [Gpus -> {"off", "on", "draining"}]
    /\ resv \in [Gpus -> ReservationRow]
    /\ host \in HostRow
    /\ locks \subseteq Gpus
ActorTypes == sched \in SchedRow /\ ops \in [Operators -> CommandRow]

\* A row fits its process: an item that does not run has none, and an item runs
\* on a GPU and after its dependencies.
ProcessFits(i) ==
    /\ items[i].pid => Running(i)
    /\ Running(i) => items[i].gpu # None /\ DependenciesSatisfied(i)
    /\ State(i) \in {"absent", "removed"} \union PendingStates =>
         job[i].exec = "none" /\ job[i].exit = "none" /\ job[i].answer = "none"
    /\ job[i].answer = "ready" => items[i].segment < MaxSegments

\* A row fits what Git has, unless an operator removed the item.
TreeFits(i) ==
    /\ State(i) = "removed" => items[i].dropped
    /\ State(i) = "absent" => ~items[i].dropped
    /\ ~items[i].dropped =>
         /\ git[i].ref \/ git[i].tree = "none"
         /\ ~(items[i].removed /\ items[i].error)
         /\ items[i].removed => ~git[i].ref /\ git[i].tree = "none"
         /\ State(i) \in PendingStates \union RunningStates =>
              /\ git[i].ref /\ ~items[i].removed /\ ~items[i].error
              /\ items[i].path => git[i].tree # "none"

OneItemPerGpu ==
    \A i, j \in Ids : Running(i) /\ Running(j) /\ items[i].gpu = items[j].gpu => i = j

\* Only an item that is out of the queue is cleaned, once.
Cleanable(i) == items[i].dropped \/ (State(i) \in FinishedStates /\ ~items[i].removed)

\* What the scheduler may rely on, whatever operators did since it read the rows.
SeenInv ==
    /\ sched.at \in Reconciling => sched.back = "reconcile"
    /\ sched.at = "sweep" => sched.back = "sweep"
    /\ sched.at \in Reconciling \/ (sched.at \in Cleaning /\ sched.back = "reconcile") =>
         \A i \in DOMAIN sched.seen : Running(i)
    /\ sched.at = "sweep" \/ (sched.at \in Cleaning /\ sched.back = "sweep") =>
         \A i \in DOMAIN sched.seen : Cleanable(i)
    /\ sched.at \in {"probe", "finalize"} => sched.item \in DOMAIN sched.seen

CleanInv ==
    sched.at \in Cleaning =>
        /\ sched.item \in Ids /\ Cleanable(sched.item)
        /\ sched.back # "idle" => sched.item \notin DOMAIN sched.seen
        /\ ~items[sched.item].dropped =>
             /\ sched.at = "ref" => git[sched.item].tree = "none"
             /\ sched.at = "mark" /\ ~sched.bad =>
                  ~git[sched.item].ref /\ git[sched.item].tree = "none"

DispatchInv ==
    /\ \A g \in sched.avail : OnGpu(g) = {}
    /\ sched.at \in {"escalated", "signal"} => sched.item \in Ids
    /\ sched.at \in Choosing =>
         /\ sched.item \in Ids /\ State(sched.item) \in PendingStates \union {"removed"}
         /\ DependenciesSatisfied(sched.item)
         /\ sched.gpu \in Gpus \ sched.avail /\ OnGpu(sched.gpu) = {}
    /\ sched.at \in Choosing \ {"prepare"} =>
         items[sched.item].dropped \/ git[sched.item].tree # "none"
    /\ sched.at \in Starting =>
         /\ sched.item \in Ids
         /\ State(sched.item) \in {"starting", "terminating", "force_killing"}
    /\ sched.at = "spawn" => ~items[sched.item].pid

\* What an operator still owes: a worktree only of an item removed from the
\* queue, a request file only for the reservation that asked for it.
OwesFits(o) ==
    /\ ops[o].at # "idle" => ops[o].item \in Ids
    /\ ops[o].at \in Cleaning => items[ops[o].item].dropped
    /\ ops[o].at = "request" =>
         /\ ops[o].request \in Requests
         /\ \A g \in Gpus : resv[g].status = "pending" /\ resv[g].request = ops[o].request =>
                ops[o].gpu = g

ReservationInv ==
    /\ \A g \in Gpus : resv[g].status = "pending" => resv[g].item \in Ids
    /\ PendingReservationHasYielder

RowsInv == \A i \in Ids : ProcessFits(i) /\ TreeFits(i)
SchedInv == SeenInv /\ CleanInv /\ DispatchInv
CommandInv == \A o \in Operators : OwesFits(o)

LegacyInv ==
    /\ ItemTypes /\ WorldTypes /\ ActorTypes
    /\ RowsInv
    /\ OneItemPerGpu
    /\ SchedInv
    /\ CommandInv
    /\ ReservationInv

-----------------------------------------------------------------------------
(***************************************************************************)
(* Snapshots and new requests.                                             *)
(***************************************************************************)

LEMMA NewRequestIsFresh ==
    ASSUME NEW r \in NewRequests
    PROVE  r \in Requests /\ Fresh(r)
<1>1. r \in FreshRequests
  BY DEF NewRequests
<1> QED
  BY <1>1 DEF FreshRequests

LEMMA SnapshotFacts ==
    ASSUME NEW f \in Snapshots
    PROVE  /\ DOMAIN f \subseteq Ids
           /\ \A i \in DOMAIN f : f[i] \in SeenRow
           /\ \A i \in DOMAIN f : /\ Without(f, i) \in Snapshots
                                  /\ DOMAIN Without(f, i) = DOMAIN f \ {i}
<1>1. PICK S \in SUBSET Ids : f \in [S -> SeenRow]
  BY DEF Snapshots
<1>2. ASSUME NEW i \in S
      PROVE  Without(f, i) \in [S \ {i} -> SeenRow]
  BY <1>1 DEF Without
<1>3. ASSUME NEW i \in S
      PROVE  Without(f, i) \in Snapshots
  <2>1. S \ {i} \in SUBSET Ids
    OBVIOUS
  <2> QED
    BY <1>2, <2>1 DEF Snapshots
<1> QED
  BY <1>1, <1>2, <1>3

LEMMA RowsSnapshot ==
    ASSUME ItemTypes, NEW S \in SUBSET Ids
    PROVE  Rows(S) \in Snapshots /\ DOMAIN Rows(S) = S
<1>1. Rows(S) \in [S -> SeenRow]
  BY DEF Rows, SeenRow, ItemTypes, ItemRow, State
<1> QED
  BY <1>1 DEF Snapshots, Rows

LEMMA NothingSeen == <<>> \in Snapshots /\ DOMAIN <<>> = {}
<1>1. <<>> \in [{} -> SeenRow]
  BY SMT
<1> QED
  BY <1>1 DEF Snapshots

LEMMA DownFacts ==
    /\ Down \in SchedRow
    /\ Down.at = "down" /\ DOMAIN Down.seen = {} /\ Down.avail = {}
    /\ Down.back = "reconcile"
BY NothingSeen DEF Down, SchedRow, Points

-----------------------------------------------------------------------------
(***************************************************************************)
(* What a step may do to a row.                                            *)
(***************************************************************************)

\* Every step but the claim: nothing starts to run, what ended stays ended, and
\* nothing that was removed comes back.
Gentle(i) ==
    /\ items[i].dropped => items'[i].dropped
    /\ State(i) \in FinishedStates => items'[i].state = items[i].state
    /\ State(i) # "absent" => items'[i].deps = items[i].deps
    /\ items'[i].state \in RunningStates => Running(i) /\ items'[i].gpu = items[i].gpu

\* What operators and jobs do to the rows the scheduler has read.
Calm(i) ==
    /\ Gentle(i)
    /\ Running(i) => items'[i].state \in RunningStates
    /\ State(i) \in PendingStates \union {"removed"} =>
         items'[i].state \in PendingStates \union {"removed"}
    /\ State(i) \in FinishedStates => items[i].dropped \/ items'[i].removed = items[i].removed
    /\ State(i) \in {"starting", "terminating", "force_killing"} =>
         items'[i].state \in {"starting", "terminating", "force_killing"}
    /\ items'[i].pid = items[i].pid
    /\ items'[i].dropped \/ State(i) = "absent" \/
         (git'[i].ref = git[i].ref /\ (git'[i].tree = "none" <=> git[i].tree = "none"))

\* Rows an action does not name keep what they have, but may be held.
Bystander(i) ==
    \/ items'[i] = items[i]
    \/ /\ State(i) \in {"queued", "blocked"}
       /\ items'[i] = [items[i] EXCEPT !.state = "held"]

\* A pending reservation of the new state is an old one, with its item as it was.
ResvKept ==
    \A g \in Gpus : resv'[g].status = "pending" =>
        /\ resv'[g] = resv[g]
        /\ items'[resv[g].item].state = items[resv[g].item].state
        /\ items'[resv[g].item].request = items[resv[g].item].request
        /\ items'[resv[g].item].gpu = items[resv[g].item].gpu

LEMMA BystanderFields ==
    ASSUME ItemTypes, NEW i \in Ids, Bystander(i)
    PROVE  /\ items'[i] \in ItemRow
           /\ \/ items'[i].state = State(i)
              \/ State(i) \in {"queued", "blocked"} /\ items'[i].state = "held"
           /\ items'[i].deps = items[i].deps /\ items'[i].segment = items[i].segment
           /\ items'[i].gpu = items[i].gpu /\ items'[i].pid = items[i].pid
           /\ items'[i].request = items[i].request /\ items'[i].path = items[i].path
           /\ items'[i].removed = items[i].removed /\ items'[i].error = items[i].error
           /\ items'[i].dropped = items[i].dropped
BY SMT DEF ItemTypes, ItemRow, States, Bystander, State, PendingStates

LEMMA BystanderCalm ==
    ASSUME ItemTypes, NEW i \in Ids, Bystander(i),
           git'[i].ref = git[i].ref, git'[i].tree = "none" <=> git[i].tree = "none"
    PROVE  Gentle(i) /\ Calm(i)
BY BystanderFields DEF Gentle, Calm, State, Running, PendingStates, RunningStates,
     FinishedStates

\* Dependencies that succeeded stay satisfied.
LEMMA SatisfiedStays ==
    ASSUME ItemTypes, \A j \in Ids : Gentle(j), NEW i \in Ids, State(i) # "absent",
           DependenciesSatisfied(i)
    PROVE  DependenciesSatisfied(i)'
<1>1. items'[i].deps = items[i].deps /\ items[i].deps \subseteq Ids
  BY DEF Gentle, ItemTypes, ItemRow
<1>2. ASSUME NEW d \in items[i].deps
      PROVE  items'[d].state = "succeeded"
  BY <1>1 DEF DependenciesSatisfied, Gentle, State, FinishedStates
<1> QED
  BY <1>1, <1>2 DEF DependenciesSatisfied, State

LEMMA BystanderFits ==
    ASSUME LegacyInv, \A j \in Ids : Gentle(j), NEW i \in Ids, Bystander(i),
           job'[i].exec = job[i].exec, job'[i].exit = job[i].exit,
           job'[i].answer = job[i].answer,
           git'[i].ref = git[i].ref, git'[i].tree = git[i].tree
    PROVE  ProcessFits(i)' /\ TreeFits(i)'
<1>1. ItemTypes /\ ProcessFits(i) /\ TreeFits(i)
  BY DEF LegacyInv, RowsInv
<1>2. DependenciesSatisfied(i) /\ State(i) # "absent" => DependenciesSatisfied(i)'
  BY <1>1, SatisfiedStays
<1>3. ProcessFits(i)'
  BY <1>1, <1>2, BystanderFields, SMT DEF ProcessFits, State, Running, PendingStates,
       RunningStates
<1>4. TreeFits(i)'
  BY <1>1, BystanderFields DEF TreeFits, State, PendingStates, RunningStates
<1> QED
  BY <1>3, <1>4

-----------------------------------------------------------------------------
(***************************************************************************)
(* Putting the parts together.                                             *)
(***************************************************************************)

LEMMA KeptReservations ==
    ASSUME LegacyInv, ResvKept
    PROVE  ReservationInv'
<1> SUFFICES ASSUME NEW g \in Gpus, resv'[g].status = "pending"
             PROVE  /\ resv'[g].item \in Ids
                    /\ items'[resv'[g].item].state = "yielding"
                    /\ items'[resv'[g].item].request = resv'[g].request
                    /\ items'[resv'[g].item].gpu = g
  BY DEF ReservationInv, PendingReservationHasYielder, State
<1>1. resv'[g] = resv[g]
  BY DEF ResvKept
<1> QED
  BY <1>1, SMT DEF ResvKept, LegacyInv, ReservationInv, PendingReservationHasYielder, State

LEMMA KeptCommand ==
    ASSUME LegacyInv, ResvKept, NEW o \in Operators, ops'[o] = ops[o],
           \A i \in Ids : Gentle(i)
    PROVE  OwesFits(o)'
<1>1. OwesFits(o)
  BY DEF LegacyInv, CommandInv
<1> QED
  BY <1>1, SMT DEF OwesFits, ResvKept, Gentle, Cleaning

LEMMA DoneCommand ==
    ASSUME NEW o \in Operators, ops'[o] = NoCommand
    PROVE  OwesFits(o)'
BY SMT DEF OwesFits, NoCommand, Cleaning

LEMMA GentleGpus ==
    ASSUME LegacyInv, \A i \in Ids : Gentle(i)
    PROVE  OneItemPerGpu'
BY SMT DEF Gentle, LegacyInv, OneItemPerGpu, Running, State

LEMMA GentleInv ==
    ASSUME LegacyInv, ItemTypes', WorldTypes', ActorTypes',
           \A i \in Ids : Gentle(i) /\ ProcessFits(i)' /\ TreeFits(i)',
           SchedInv', ResvKept, \A o \in Operators : OwesFits(o)'
    PROVE  LegacyInv'
<1>1. OneItemPerGpu'
  BY GentleGpus
<1>2. ReservationInv'
  BY KeptReservations
<1>3. RowsInv' /\ CommandInv'
  BY DEF RowsInv, CommandInv
<1> QED
  BY <1>1, <1>2, <1>3 DEF LegacyInv

\* No GPU is taken by a step that only ends runs.
LEMMA GpusStayFree ==
    ASSUME \A i \in Ids : Gentle(i), NEW g, OnGpu(g) = {}
    PROVE  OnGpu(g)' = {}
BY DEF OnGpu, Gentle, Running, State

\* What the scheduler has read stays good while operators and jobs act.
LEMMA CalmSched ==
    ASSUME LegacyInv, UNCHANGED sched, \A i \in Ids : Calm(i)
    PROVE  SchedInv'
<1>0. /\ SeenInv /\ CleanInv /\ DispatchInv
      /\ DOMAIN sched.seen \subseteq Ids
      /\ \A i \in Ids : Gentle(i)
  BY SnapshotFacts DEF LegacyInv, SchedInv, ActorTypes, SchedRow, Calm
<1>1. ASSUME NEW i \in Ids, Cleanable(i)
      PROVE  Cleanable(i)'
  BY <1>1 DEF Cleanable, Calm, Gentle, State
<1>2. ASSUME NEW i \in Ids, Running(i)
      PROVE  Running(i)'
  BY <1>2 DEF Calm, Running, State
<1>3. SeenInv'
  BY <1>0, <1>1, <1>2 DEF SeenInv
<1>4. CleanInv'
  <2> SUFFICES ASSUME sched.at \in Cleaning
               PROVE  CleanInv'
    BY DEF CleanInv
  <2>1. sched.item \in Ids /\ Cleanable(sched.item)'
    BY <1>0, <1>1 DEF CleanInv
  <2>2. ~items'[sched.item].dropped =>
          /\ git'[sched.item].ref = git[sched.item].ref
          /\ git'[sched.item].tree = "none" <=> git[sched.item].tree = "none"
          /\ ~items[sched.item].dropped
    BY <1>0, <2>1 DEF CleanInv, Cleanable, Calm, Gentle, FinishedStates, State
  <2> QED
    BY <1>0, <2>1, <2>2 DEF CleanInv
<1>5. DispatchInv'
  <2>1. \A g \in sched'.avail : OnGpu(g)' = {}
    BY <1>0, GpusStayFree DEF DispatchInv
  <2>2. ASSUME sched.at \in Choosing
        PROVE  /\ sched.item \in Ids
               /\ items'[sched.item].state \in PendingStates \union {"removed"}
               /\ DependenciesSatisfied(sched.item)' /\ OnGpu(sched.gpu)' = {}
    <3>1. /\ sched.item \in Ids /\ State(sched.item) \in PendingStates \union {"removed"}
          /\ DependenciesSatisfied(sched.item) /\ OnGpu(sched.gpu) = {}
      BY <1>0, <2>2 DEF DispatchInv
    <3>2. State(sched.item) # "absent"
      BY <3>1 DEF PendingStates
    <3>3. DependenciesSatisfied(sched.item)' /\ OnGpu(sched.gpu)' = {}
      BY <1>0, <3>1, <3>2, SatisfiedStays, GpusStayFree DEF LegacyInv
    <3> QED
      BY <3>1, <3>3 DEF Calm
  <2>3. sched.at \in Choosing \ {"prepare"} =>
           items'[sched.item].dropped \/ git'[sched.item].tree # "none"
    BY <1>0, <2>2 DEF DispatchInv, Calm, Gentle, PendingStates
  <2>4. sched.at \in Starting =>
           /\ sched.item \in Ids
           /\ items'[sched.item].state \in {"starting", "terminating", "force_killing"}
    BY <1>0 DEF DispatchInv, Calm
  <2>5. sched.at = "spawn" => ~items'[sched.item].pid
    BY <1>0, <2>4 DEF DispatchInv, Calm, Starting
  <2> QED
    BY <1>0, <2>1, <2>2, <2>3, <2>4, <2>5 DEF DispatchInv, State
<1> QED
  BY <1>3, <1>4, <1>5 DEF SchedInv

-----------------------------------------------------------------------------
(***************************************************************************)
(* Steps of operators and jobs: the scheduler is not involved.             *)
(***************************************************************************)

LEMMA CalmInv ==
    ASSUME LegacyInv, UNCHANGED sched, ItemTypes', WorldTypes',
           ops' \in [Operators -> CommandRow],
           \A i \in Ids : Calm(i) /\ ProcessFits(i)' /\ TreeFits(i)',
           ResvKept, \A o \in Operators : OwesFits(o)'
    PROVE  LegacyInv'
<1>1. SchedInv' /\ \A i \in Ids : Gentle(i)
  BY CalmSched DEF Calm
<1>2. ActorTypes'
  BY DEF LegacyInv, ActorTypes
<1> QED
  BY <1>1, <1>2, GentleInv

LEMMA PutRow ==
    ASSUME ItemTypes, NEW k \in Ids, NEW row \in ItemRow, items' = [items EXCEPT ![k] = row]
    PROVE  /\ ItemTypes' /\ items'[k] = row
           /\ \A i \in Ids \ {k} : Bystander(i)
BY DEF ItemTypes, Bystander

\* One row is written, others at most held, and Git and jobs stay.
LEMMA OneRowFits ==
    ASSUME LegacyInv, NEW k \in Ids, Calm(k), UNCHANGED <<job, git>>,
           \A i \in Ids \ {k} : Bystander(i),
           (Running(k) => DependenciesSatisfied(k)') => ProcessFits(k)',
           items'[k].state \in RunningStates => Running(k),
           TreeFits(k)'
    PROVE  \A i \in Ids : Calm(i) /\ ProcessFits(i)' /\ TreeFits(i)'
<1>0. ItemTypes /\ ProcessFits(k)
  BY DEF LegacyInv, RowsInv
<1>1. \A i \in Ids \ {k} : Gentle(i) /\ Calm(i)
  BY <1>0, BystanderCalm
<1>2. \A i \in Ids : Gentle(i) /\ Calm(i)
  BY <1>1, SMT DEF Calm
<1>3. \A i \in Ids \ {k} : ProcessFits(i)' /\ TreeFits(i)'
  BY <1>2, BystanderFits
<1>4. Running(k) => DependenciesSatisfied(k)'
  <2>1. Running(k) => DependenciesSatisfied(k) /\ State(k) # "absent"
    BY <1>0 DEF ProcessFits, Running, RunningStates
  <2> QED
    BY <1>0, <1>2, <2>1, SatisfiedStays
<1> QED
  BY <1>2, <1>3, <1>4

\* Reservations after one row is written.
LEMMA OneRowResv ==
    ASSUME LegacyInv, NEW k \in Ids, \A i \in Ids \ {k} : Bystander(i),
           \A g \in Gpus : resv'[g].status = "pending" =>
               /\ resv'[g] = resv[g]
               /\ resv[g].item = k => /\ items'[k].state = items[k].state
                                      /\ items'[k].request = items[k].request
                                      /\ items'[k].gpu = items[k].gpu
    PROVE  ResvKept
<1> SUFFICES ASSUME NEW g \in Gpus, resv'[g].status = "pending"
             PROVE  /\ resv'[g] = resv[g]
                    /\ items'[resv[g].item].state = items[resv[g].item].state
                    /\ items'[resv[g].item].request = items[resv[g].item].request
                    /\ items'[resv[g].item].gpu = items[resv[g].item].gpu
  BY DEF ResvKept
<1>1. resv'[g] = resv[g]
  OBVIOUS
<1>2. resv[g].item \in Ids /\ State(resv[g].item) = "yielding"
  BY <1>1 DEF LegacyInv, ReservationInv, PendingReservationHasYielder
<1>3. CASE resv[g].item # k
  <2>1. items'[resv[g].item] = items[resv[g].item]
    BY <1>2, <1>3 DEF Bystander
  <2> QED
    BY <1>1, <2>1
<1> QED
  BY <1>1, <1>2, <1>3

\* No reservation waits for an item that does not yield.
LEMMA NoReservationFor ==
    ASSUME LegacyInv, NEW k \in Ids, State(k) # "yielding"
    PROVE  \A g \in Gpus : ~(resv[g].status = "pending" /\ resv[g].item = k)
BY DEF LegacyInv, ReservationInv, PendingReservationHasYielder

\* A command of one transaction on the row of one item.
LEMMA RowCommand ==
    ASSUME LegacyInv, NEW k \in Ids, NEW row \in ItemRow, items' = [items EXCEPT ![k] = row],
           UNCHANGED <<job, git, allow, resv, host, locks, sched, ops>>,
           State(k) # "absent", row.deps = items[k].deps, row.segment = items[k].segment,
           row.gpu = items[k].gpu, row.pid = items[k].pid, row.request = items[k].request,
           row.path = items[k].path, row.removed = items[k].removed,
           row.error = items[k].error, row.dropped = items[k].dropped,
           \/ row.state = State(k)
           \/ State(k) \in PendingStates /\ row.state \in PendingStates
    PROVE  LegacyInv'
<1>0. ItemTypes /\ ProcessFits(k) /\ TreeFits(k)
  BY DEF LegacyInv, RowsInv
<1>1. /\ ItemTypes' /\ items'[k] = row
      /\ \A i \in Ids \ {k} : Bystander(i)
  BY <1>0, PutRow
<1>2. Calm(k) /\ (items'[k].state \in RunningStates => Running(k))
  BY <1>1 DEF Calm, Gentle, State, Running, PendingStates, RunningStates, FinishedStates
<1>3. (Running(k) => DependenciesSatisfied(k)') => ProcessFits(k)'
  BY <1>0, <1>1, SMT DEF ProcessFits, State, Running, PendingStates, RunningStates
<1>4. TreeFits(k)'
  BY <1>0, <1>1, SMT DEF TreeFits, State, PendingStates, RunningStates
<1>5. \A i \in Ids : Calm(i) /\ ProcessFits(i)' /\ TreeFits(i)'
  BY <1>1, <1>2, <1>3, <1>4, OneRowFits
<1>6. ResvKept
  <2>1. State(k) = "yielding" => items'[k].state = items[k].state
    BY <1>1 DEF State, PendingStates
  <2> QED
    BY <1>1, <2>1, NoReservationFor, OneRowResv, SMT
<1>7. \A o \in Operators : OwesFits(o)'
  BY <1>5, <1>6, KeptCommand DEF Calm
<1>8. WorldTypes' /\ ops' \in [Operators -> CommandRow]
  BY DEF LegacyInv, WorldTypes, ActorTypes
<1> QED
  BY <1>1, <1>5, <1>6, <1>7, <1>8, CalmInv

\* Steps that leave the rows alone, and at most write files of a live executor.
LEMMA QuietInv ==
    ASSUME LegacyInv, UNCHANGED <<items, sched>>, WorldTypes',
           ops' \in [Operators -> CommandRow],
           \A i \in Ids : /\ git'[i].ref = git[i].ref
                          /\ git'[i].tree = "none" <=> git[i].tree = "none",
           \A i \in Ids :
               \/ /\ job'[i].exec = job[i].exec /\ job'[i].exit = job[i].exit
                  /\ job'[i].answer = job[i].answer
               \/ /\ job[i].exec # "none"
                  /\ job'[i].answer = "ready" => items[i].segment < MaxSegments,
           \A g \in Gpus : resv'[g].status = "pending" => resv'[g] = resv[g],
           \A o \in Operators : ops'[o] = ops[o] \/ ops'[o] = NoCommand
    PROVE  LegacyInv'
<1>1. ItemTypes /\ ItemTypes' /\ \A i \in Ids : Bystander(i)
  BY DEF LegacyInv, ItemTypes, Bystander
<1>2. \A i \in Ids : Gentle(i) /\ Calm(i)
  BY <1>1, BystanderCalm
<1>3. ASSUME NEW i \in Ids
      PROVE  ProcessFits(i)' /\ TreeFits(i)'
  <2>1. ProcessFits(i) /\ TreeFits(i)
    BY DEF LegacyInv, RowsInv
  <2>2. DependenciesSatisfied(i) => DependenciesSatisfied(i)'
    BY DEF DependenciesSatisfied, State
  <2>3. ProcessFits(i)'
    BY <2>1, <2>2 DEF ProcessFits, State, Running
  <2>4. TreeFits(i)'
    BY <2>1 DEF TreeFits, State
  <2> QED
    BY <2>3, <2>4
<1>4. ResvKept
  BY DEF ResvKept
<1>5. \A o \in Operators : OwesFits(o)'
  BY <1>2, <1>4, KeptCommand, DoneCommand
<1> QED
  BY <1>1, <1>2, <1>3, <1>4, <1>5, CalmInv

LEMMA AddExperimentInv ==
    ASSUME LegacyInv, NEW o \in Operators, NEW k \in Ids, NEW e \in Experiments,
           NEW deps \in SUBSET Admitted, NEW held \in BOOLEAN, NEW preemptible \in BOOLEAN,
           NEW again, AddExperiment(o, k, e, deps, held, preemptible, again)
    PROVE  LegacyInv'
<1> DEFINE row == [Absent EXCEPT !.state = IF held THEN "held" ELSE "queued",
                     !.exp = e, !.deps = deps, !.preemptible = preemptible]
<1>0. ItemTypes /\ WorldTypes /\ ProcessFits(k) /\ TreeFits(k)
  BY DEF LegacyInv, RowsInv
<1>1. /\ State(k) = "absent" /\ items' = [items EXCEPT ![k] = row]
      /\ git' = [git EXCEPT ![k].ref = TRUE]
      /\ UNCHANGED <<job, allow, resv, host, locks, sched, ops>>
  BY DEF AddExperiment
<1>2. row \in ItemRow
  <2>1. deps \subseteq Ids /\ 1 \in 1 .. MaxSegments
    BY LegacyAssumption, SMT DEF Admitted
  <2> QED
    BY <2>1, LegacyAssumption, ZenonT(40) DEF Absent, ItemRow, States, PendingStates
<1>3. /\ row.state \in {"held", "queued"} /\ row.pid = FALSE /\ ~row.path
      /\ ~row.removed /\ ~row.error /\ ~row.dropped /\ row.segment = 1
  BY DEF Absent
<1> HIDE DEF row
<1>4. /\ ItemTypes' /\ items'[k] = row
      /\ \A i \in Ids \ {k} : Bystander(i)
  BY <1>0, <1>1, <1>2, PutRow
<1>5. /\ git' \in [Ids -> GitRow] /\ git'[k].ref /\ git'[k].tree = git[k].tree
      /\ \A i \in Ids \ {k} : git'[i] = git[i]
  BY <1>0, <1>1 DEF WorldTypes, GitRow
<1>6. Gentle(k) /\ Calm(k)
  <2>1. items[k].pid = FALSE /\ ~items[k].dropped
    BY <1>0, <1>1 DEF ItemTypes, ItemRow, ProcessFits, TreeFits, Running, RunningStates
  <2> QED
    BY <1>1, <1>3, <1>4, <2>1 DEF Calm, Gentle, State, Running, PendingStates,
         RunningStates, FinishedStates
<1>7. \A i \in Ids : Gentle(i) /\ Calm(i)
  BY <1>0, <1>4, <1>5, <1>6, BystanderCalm
<1>8. ProcessFits(k)' /\ TreeFits(k)'
  BY <1>0, <1>1, <1>3, <1>4, <1>5 DEF ProcessFits, TreeFits, State, Running, PendingStates,
       RunningStates
<1>9. \A i \in Ids : ProcessFits(i)' /\ TreeFits(i)'
  BY <1>1, <1>4, <1>5, <1>7, <1>8, BystanderFits
<1>10. ResvKept
  <2>1. \A g \in Gpus : ~(resv[g].status = "pending" /\ resv[g].item = k)
    BY <1>1, NoReservationFor
  <2> QED
    BY <1>1, <1>4, <2>1, OneRowResv, SMT
<1>11. \A p \in Operators : OwesFits(p)'
  BY <1>1, <1>7, <1>10, KeptCommand
<1>12. WorldTypes' /\ ops' \in [Operators -> CommandRow]
  BY <1>1, <1>5 DEF LegacyInv, WorldTypes, ActorTypes
<1> QED
  BY <1>1, <1>4, <1>7, <1>9, <1>10, <1>11, <1>12, CalmInv

LEMMA TransitionInv ==
    ASSUME LegacyInv, NEW o \in Operators, NEW k \in Ids, NEW from, NEW to \in PendingStates,
           from \subseteq PendingStates, Transition(o, k, from, to)
    PROVE  LegacyInv'
<1> DEFINE row == [items[k] EXCEPT !.state = to]
<1>0. items[k] \in ItemRow /\ items \in [Ids -> ItemRow]
  BY DEF LegacyInv, ItemTypes
<1>1. /\ items' = [items EXCEPT ![k] = row] /\ State(k) \in PendingStates
      /\ UNCHANGED <<job, git, allow, resv, host, locks, sched, ops>>
  BY <1>0 DEF Transition
<1>2. /\ row \in ItemRow /\ row.state = to
      /\ row.deps = items[k].deps /\ row.segment = items[k].segment
      /\ row.gpu = items[k].gpu /\ row.pid = items[k].pid /\ row.request = items[k].request
      /\ row.path = items[k].path /\ row.removed = items[k].removed
      /\ row.error = items[k].error /\ row.dropped = items[k].dropped
  BY <1>0, SMT DEF ItemRow, States
<1>3. State(k) # "absent"
  BY <1>1 DEF PendingStates
<1> QED
  BY <1>1, <1>2, <1>3, RowCommand

LEMMA SetPriorityInv ==
    ASSUME LegacyInv, NEW o \in Operators, NEW k \in Ids, NEW n \in Priorities,
           SetPriority(o, k, n)
    PROVE  LegacyInv'
<1> DEFINE row == [items[k] EXCEPT !.priority = n]
<1>0. items[k] \in ItemRow /\ items \in [Ids -> ItemRow]
  BY DEF LegacyInv, ItemTypes
<1>1. /\ items' = [items EXCEPT ![k] = row] /\ State(k) # "absent"
      /\ UNCHANGED <<job, git, allow, resv, host, locks, sched, ops>>
  BY <1>0 DEF SetPriority, PendingStates
<1>2. /\ row \in ItemRow /\ row.state = State(k)
      /\ row.deps = items[k].deps /\ row.segment = items[k].segment
      /\ row.gpu = items[k].gpu /\ row.pid = items[k].pid /\ row.request = items[k].request
      /\ row.path = items[k].path /\ row.removed = items[k].removed
      /\ row.error = items[k].error /\ row.dropped = items[k].dropped
  BY <1>0 DEF ItemRow, State
<1> QED
  BY <1>1, <1>2, RowCommand

LEMMA HostCommandInv ==
    ASSUME LegacyInv, NEW o \in Operators,
           \/ \E paused \in BOOLEAN : SetDispatchPaused(o, paused)
           \/ \E g \in Gpus : AllowGpu(o, g) \/ DisallowGpu(o, g) \/ ReleaseReservation(o, g)
    PROVE  LegacyInv'
<1>0. WorldTypes
  BY DEF LegacyInv
<1>1. UNCHANGED <<items, git, job, sched, ops>>
  BY DEF SetDispatchPaused, AllowGpu, DisallowGpu, ReleaseReservation
<1>2. WorldTypes' /\ \A g \in Gpus : resv'[g].status = "pending" => resv'[g] = resv[g]
  <2>1. ASSUME NEW paused \in BOOLEAN, SetDispatchPaused(o, paused)
        PROVE  WorldTypes' /\ resv' = resv
    BY <1>0, <2>1 DEF SetDispatchPaused, WorldTypes, HostRow
  <2>2. ASSUME NEW g \in Gpus, AllowGpu(o, g) \/ DisallowGpu(o, g)
        PROVE  WorldTypes' /\ resv' = resv
    BY <1>0, <2>2 DEF AllowGpu, DisallowGpu, WorldTypes
  <2>3. ASSUME NEW g \in Gpus, ReleaseReservation(o, g)
        PROVE  /\ WorldTypes'
               /\ \A h \in Gpus : resv'[h].status = "pending" => resv'[h] = resv[h]
    BY <1>0, <2>3 DEF ReleaseReservation, WorldTypes, NoReservation, ReservationRow
  <2> QED
    BY <2>1, <2>2, <2>3
<1>3. ops' \in [Operators -> CommandRow]
  BY <1>1 DEF LegacyInv, ActorTypes
<1> QED
  BY <1>1, <1>2, <1>3, QuietInv

\* The command of one operator: the others owe what they owed.
LEMMA OwesOnly ==
    ASSUME LegacyInv, NEW o \in Operators, NEW c \in CommandRow, Owes(o, c)
    PROVE  /\ ops' \in [Operators -> CommandRow] /\ ops'[o] = c
           /\ \A p \in Operators \ {o} : ops'[p] = ops[p]
BY DEF LegacyInv, ActorTypes, Owes

LEMMA DoneOnly ==
    ASSUME LegacyInv, NEW o \in Operators, Done(o)
    PROVE  /\ ops' \in [Operators -> CommandRow] /\ ops'[o] = NoCommand
           /\ \A p \in Operators \ {o} : ops'[p] = ops[p]
<1>1. NoCommand \in CommandRow
  BY DEF NoCommand, CommandRow
<1> QED
  BY <1>1 DEF LegacyInv, ActorTypes, Done

LEMMA HeldDependents ==
    ASSUME ItemTypes, NEW k \in Ids, NEW row \in ItemRow,
           row.state \notin {"queued", "blocked"},
           items' = HoldDependents([items EXCEPT ![k] = row], k)
    PROVE  /\ ItemTypes' /\ items'[k] = row
           /\ \A i \in Ids \ {k} : Bystander(i)
<1> DEFINE rows == [items EXCEPT ![k] = row]
<1>1. rows \in [Ids -> ItemRow] /\ rows[k] = row /\ \A i \in Ids \ {k} : rows[i] = items[i]
  BY DEF ItemTypes
<1>2. \A i \in Ids : items'[i] = IF k \in rows[i].deps /\ rows[i].state \in {"queued", "blocked"}
                                 THEN [rows[i] EXCEPT !.state = "held"] ELSE rows[i]
  BY DEF HoldDependents
<1>3. items'[k] = row
  BY <1>1, <1>2
<1>4. \A i \in Ids \ {k} : Bystander(i)
  BY <1>1, <1>2 DEF Bystander, State
<1>5. \A i \in Ids : items'[i] \in ItemRow
  BY <1>3, <1>4, BystanderFields, ZenonT(40)
<1>6. items' = [i \in Ids |-> items'[i]]
  BY SMT DEF HoldDependents
<1> QED
  BY <1>3, <1>4, <1>5, <1>6 DEF ItemTypes

LEMMA RemoveItemInv ==
    ASSUME LegacyInv, NEW o \in Operators, NEW k \in Ids, RemoveItem(o, k)
    PROVE  LegacyInv'
<1> DEFINE row == [items[k] EXCEPT !.state = "removed", !.dropped = TRUE]
           owed == [NoCommand EXCEPT !.at = "tree", !.item = k]
<1>0. /\ items[k] \in ItemRow /\ items \in [Ids -> ItemRow] /\ ItemTypes
      /\ ProcessFits(k) /\ TreeFits(k)
  BY DEF LegacyInv, ItemTypes, RowsInv
<1>1. /\ [items EXCEPT ![k].state = "removed", ![k].dropped = TRUE] = [items EXCEPT ![k] = row]
      /\ State(k) \in PendingStates
      /\ UNCHANGED <<job, git, allow, resv, host, locks, sched>>
  BY <1>0 DEF RemoveItem
<1>2. /\ row \in ItemRow /\ row.state = "removed" /\ row.dropped
      /\ row.deps = items[k].deps /\ row.segment = items[k].segment
      /\ row.pid = items[k].pid
  BY <1>0 DEF ItemRow, States, TerminalStates
<1>3. owed \in CommandRow /\ owed.at = "tree" /\ owed.item = k
  BY DEF NoCommand, CommandRow, Cleaning
<1>4. items' = HoldDependents([items EXCEPT ![k] = row], k) /\ Owes(o, owed)
  BY <1>1 DEF RemoveItem
<1> HIDE DEF row, owed
<1>5. /\ ItemTypes' /\ items'[k] = row
      /\ \A i \in Ids \ {k} : Bystander(i)
  BY <1>0, <1>2, <1>4, HeldDependents
<1>6. /\ ops' \in [Operators -> CommandRow] /\ ops'[o] = owed
      /\ \A p \in Operators \ {o} : ops'[p] = ops[p]
  BY <1>3, <1>4, OwesOnly
<1>7. Calm(k) /\ ~(items'[k].state \in RunningStates)
  BY <1>1, <1>2, <1>5 DEF Calm, Gentle, State, Running, PendingStates, RunningStates,
       FinishedStates
<1>8. (Running(k) => DependenciesSatisfied(k)') => ProcessFits(k)'
  BY <1>0, <1>1, <1>2, <1>5 DEF ProcessFits, State, Running, PendingStates, RunningStates
<1>9. TreeFits(k)'
  BY <1>2, <1>5 DEF TreeFits, State
<1>10. \A i \in Ids : Calm(i) /\ ProcessFits(i)' /\ TreeFits(i)'
  BY <1>1, <1>5, <1>7, <1>8, <1>9, OneRowFits
<1>11. ResvKept
  <2>1. \A g \in Gpus : ~(resv[g].status = "pending" /\ resv[g].item = k)
    BY <1>1, NoReservationFor DEF PendingStates
  <2> QED
    BY <1>1, <1>5, <2>1, OneRowResv
<1>12. \A p \in Operators : OwesFits(p)'
  <2>1. OwesFits(o)'
    BY <1>2, <1>3, <1>5, <1>6 DEF OwesFits
  <2>2. \A p \in Operators \ {o} : OwesFits(p)'
    BY <1>6, <1>10, <1>11, KeptCommand DEF Calm
  <2> QED
    BY <2>1, <2>2
<1>13. WorldTypes'
  BY <1>1 DEF LegacyInv, WorldTypes
<1> QED
  BY <1>1, <1>5, <1>6, <1>10, <1>11, <1>12, <1>13, CalmInv

\* An item is asked to yield.
LEMMA YieldRow ==
    ASSUME LegacyInv, NEW k \in Ids, NEW r \in Requests, State(k) = "running",
           items' = [items EXCEPT ![k] = Yielding(@, r)], UNCHANGED <<job, git>>
    PROVE  /\ ItemTypes'
           /\ items'[k].state = "yielding" /\ items'[k].request = r
           /\ items'[k].gpu = items[k].gpu
           /\ \A i \in Ids \ {k} : Bystander(i)
           /\ \A i \in Ids : Gentle(i) /\ Calm(i) /\ ProcessFits(i)' /\ TreeFits(i)'
<1> DEFINE row == Yielding(items[k], r)
<1>0. /\ items[k] \in ItemRow /\ items \in [Ids -> ItemRow] /\ ItemTypes
      /\ ProcessFits(k) /\ TreeFits(k)
  BY DEF LegacyInv, ItemTypes, RowsInv
<1>1. items' = [items EXCEPT ![k] = row]
  BY <1>0
<1>2. /\ row \in ItemRow /\ row.state = "yielding" /\ row.request = r
      /\ row.deps = items[k].deps /\ row.segment = items[k].segment
      /\ row.gpu = items[k].gpu /\ row.pid = items[k].pid
      /\ row.path = items[k].path /\ row.removed = items[k].removed
      /\ row.error = items[k].error /\ row.dropped = items[k].dropped
  BY <1>0 DEF ItemRow, States, RunningStates, Yielding
<1> HIDE DEF row
<1>3. /\ ItemTypes' /\ items'[k] = row
      /\ \A i \in Ids \ {k} : Bystander(i)
  BY <1>0, <1>1, <1>2, PutRow
<1>4. Calm(k) /\ Running(k)
  BY <1>2, <1>3 DEF Calm, Gentle, State, Running, PendingStates, RunningStates, FinishedStates
<1>5. (Running(k) => DependenciesSatisfied(k)') => ProcessFits(k)'
  BY <1>0, <1>2, <1>3, <1>4 DEF ProcessFits, State, Running, PendingStates, RunningStates
<1>6. TreeFits(k)'
  BY <1>0, <1>2, <1>3 DEF TreeFits, State, PendingStates, RunningStates
<1>7. \A i \in Ids : Calm(i) /\ ProcessFits(i)' /\ TreeFits(i)'
  BY <1>3, <1>4, <1>5, <1>6, OneRowFits
<1> QED
  BY <1>2, <1>3, <1>7 DEF Calm

LEMMA RequestPreemptionInv ==
    ASSUME LegacyInv, NEW o \in Operators, NEW k \in Ids, RequestPreemption(o, k)
    PROVE  LegacyInv'
<1>1. PICK r \in NewRequests :
        /\ items' = [items EXCEPT ![k] = Yielding(@, r)]
        /\ Owes(o, [NoCommand EXCEPT !.at = "request", !.item = k, !.request = r])
  BY DEF RequestPreemption
<1>2. r \in Requests /\ Fresh(r)
  BY NewRequestIsFresh
<1>3. State(k) = "running" /\ UNCHANGED <<job, git, allow, resv, host, locks, sched>>
  BY DEF RequestPreemption
<1> DEFINE owed == [NoCommand EXCEPT !.at = "request", !.item = k, !.request = r]
<1>4. owed \in CommandRow /\ owed.at = "request" /\ owed.item = k /\ owed.request = r
  BY <1>2 DEF NoCommand, CommandRow
<1> HIDE DEF owed
<1>5. /\ ItemTypes' /\ \A i \in Ids \ {k} : Bystander(i)
      /\ \A i \in Ids : Gentle(i) /\ Calm(i) /\ ProcessFits(i)' /\ TreeFits(i)'
  BY <1>1, <1>2, <1>3, YieldRow
<1>6. /\ ops' \in [Operators -> CommandRow] /\ ops'[o] = owed
      /\ \A p \in Operators \ {o} : ops'[p] = ops[p]
  BY <1>1, <1>4, OwesOnly DEF owed
<1>7. ResvKept
  <2>1. \A g \in Gpus : ~(resv[g].status = "pending" /\ resv[g].item = k)
    BY <1>3, NoReservationFor
  <2> QED
    BY <1>3, <1>5, <2>1, OneRowResv
<1>8. \A p \in Operators : OwesFits(p)'
  <2>1. OwesFits(o)'
    BY <1>2, <1>3, <1>4, <1>6 DEF OwesFits, Fresh, Cleaning
  <2>2. \A p \in Operators \ {o} : OwesFits(p)'
    BY <1>5, <1>6, <1>7, KeptCommand
  <2> QED
    BY <2>1, <2>2
<1>9. WorldTypes'
  BY <1>3 DEF LegacyInv, WorldTypes
<1> QED
  BY <1>3, <1>5, <1>6, <1>7, <1>8, <1>9, CalmInv

LEMMA ReserveGpuInv ==
    ASSUME LegacyInv, NEW o \in Operators, NEW g \in Gpus, ReserveGpu(o, g)
    PROVE  LegacyInv'
<1>0. WorldTypes /\ ActorTypes /\ ReservationInv /\ CommandInv
  BY DEF LegacyInv
<1>1. resv[g].status = "none" /\ UNCHANGED <<job, git, allow, host, locks, sched>>
  BY DEF ReserveGpu
<1>2. CASE /\ resv' = [resv EXCEPT ![g] = [NoReservation EXCEPT !.status = "active"]]
           /\ UNCHANGED <<items, ops>>
  <2>1. WorldTypes' /\ \A h \in Gpus : resv'[h].status = "pending" => resv'[h] = resv[h]
    BY <1>0, <1>1, <1>2 DEF WorldTypes, NoReservation, ReservationRow
  <2>2. ops' \in [Operators -> CommandRow]
    BY <1>0, <1>2 DEF ActorTypes
  <2> QED
    BY <1>1, <1>2, <2>1, <2>2, QuietInv
<1>3. ASSUME NEW k \in OnGpu(g), NEW r \in NewRequests, State(k) = "running",
             resv' = [resv EXCEPT ![g] = [status |-> "pending", item |-> k, request |-> r]],
             items' = [items EXCEPT ![k] = Yielding(@, r)],
             Owes(o, [NoCommand EXCEPT !.at = "request", !.item = k, !.gpu = g, !.request = r])
      PROVE  LegacyInv'
  <2> DEFINE owed == [NoCommand EXCEPT !.at = "request", !.item = k, !.gpu = g, !.request = r]
  <2>1. r \in Requests /\ Fresh(r)
    BY NewRequestIsFresh
  <2>2. k \in Ids /\ items[k].gpu = g
    BY DEF OnGpu
  <2>3. /\ owed \in CommandRow /\ owed.at = "request" /\ owed.item = k
        /\ owed.gpu = g /\ owed.request = r
    BY <2>1, <2>2 DEF NoCommand, CommandRow
  <2> HIDE DEF owed
  <2>4. /\ ItemTypes' /\ \A i \in Ids \ {k} : Bystander(i)
        /\ items'[k].state = "yielding" /\ items'[k].request = r /\ items'[k].gpu = g
        /\ \A i \in Ids : Gentle(i) /\ Calm(i) /\ ProcessFits(i)' /\ TreeFits(i)'
    BY <1>1, <1>3, <2>1, <2>2, YieldRow
  <2>5. /\ ops' \in [Operators -> CommandRow] /\ ops'[o] = owed
        /\ \A p \in Operators \ {o} : ops'[p] = ops[p]
    BY <1>3, <2>3, OwesOnly DEF owed
  <2>6. /\ resv' \in [Gpus -> ReservationRow]
        /\ resv'[g].status = "pending" /\ resv'[g].item = k /\ resv'[g].request = r
        /\ \A h \in Gpus \ {g} : resv'[h] = resv[h]
    BY <1>0, <1>3, <2>1, <2>2 DEF WorldTypes, ReservationRow
  <2>7. WorldTypes' /\ ActorTypes'
    BY <1>0, <1>1, <2>5, <2>6 DEF WorldTypes, ActorTypes
  <2>8. SchedInv' /\ OneItemPerGpu'
    BY <1>1, <2>4, CalmSched, GentleGpus
  <2>9. ASSUME NEW h \in Gpus, resv'[h].status = "pending"
        PROVE  /\ resv'[h].item \in Ids
               /\ items'[resv'[h].item].state = "yielding"
               /\ items'[resv'[h].item].request = resv'[h].request
               /\ items'[resv'[h].item].gpu = h
    <3>1. CASE h = g
      BY <2>2, <2>4, <2>6, <3>1
    <3>2. CASE h # g
      <4>1. resv'[h] = resv[h] /\ resv[h].item \in Ids /\ State(resv[h].item) = "yielding"
        BY <1>0, <2>6, <2>9, <3>2 DEF ReservationInv, PendingReservationHasYielder
      <4>2. items'[resv[h].item] = items[resv[h].item]
        BY <1>3, <2>4, <4>1 DEF Bystander
      <4> QED
        BY <1>0, <2>9, <4>1, <4>2, SMT DEF ReservationInv, PendingReservationHasYielder, State
    <3> QED
      BY <3>1, <3>2
  <2>10. ReservationInv'
    BY <2>9 DEF ReservationInv, PendingReservationHasYielder, State
  <2>11. \A h \in Gpus \ {g} : resv[h].request # r
    BY <2>1 DEF Fresh
  <2>12. OwesFits(o)'
    BY <2>1, <2>2, <2>3, <2>5, <2>6, <2>11 DEF OwesFits, Cleaning
  <2>13. ASSUME NEW p \in Operators \ {o}
         PROVE  OwesFits(p)'
    <3>1. OwesFits(p) /\ ops'[p] = ops[p] /\ ops[p].request # r
      BY <1>0, <2>1, <2>5 DEF CommandInv, Fresh
    <3>2. ops[p].at \in Cleaning => items'[ops[p].item].dropped
      BY <2>4, <3>1 DEF OwesFits, Gentle, Cleaning
    <3> QED
      BY <2>6, <3>1, <3>2 DEF OwesFits
  <2>14. CommandInv'
    BY <2>12, <2>13 DEF CommandInv
  <2>15. RowsInv'
    BY <2>4 DEF RowsInv
  <2> QED
    BY <2>4, <2>7, <2>8, <2>10, <2>14, <2>15 DEF LegacyInv
<1> QED
  BY <1>2, <1>3 DEF ReserveGpu

LEMMA WriteRequestInv ==
    ASSUME LegacyInv, NEW o \in Operators, WriteRequest(o)
    PROVE  LegacyInv'
<1>0. /\ WorldTypes /\ OwesFits(o) /\ ops[o].at = "request" /\ ops[o] \in CommandRow
      /\ ReservationInv /\ ItemTypes
  BY DEF LegacyInv, CommandInv, WriteRequest, ActorTypes
<1>1. PICK k \in Ids, r \in Requests, g \in Gpus \union {None} :
        k = ops[o].item /\ r = ops[o].request /\ g = ops[o].gpu
  BY <1>0 DEF OwesFits, CommandRow
<1>2. Done(o) /\ UNCHANGED <<git, allow, host, locks, sched>>
  BY DEF WriteRequest
<1>3. /\ ops' \in [Operators -> CommandRow] /\ ops'[o] = NoCommand
      /\ \A p \in Operators \ {o} : ops'[p] = ops[p]
  BY <1>2, DoneOnly
<1>4. CASE job' = [job EXCEPT ![k].request = r] /\ UNCHANGED <<items, resv>>
  <2>1. /\ job' \in [Ids -> JobRow]
        /\ \A i \in Ids : /\ job'[i].exec = job[i].exec /\ job'[i].exit = job[i].exit
                          /\ job'[i].answer = job[i].answer
    BY <1>0, <1>4, SMT DEF WorldTypes, JobRow
  <2>2. WorldTypes'
    BY <1>0, <1>2, <1>4, <2>1 DEF WorldTypes
  <2> QED
    BY <1>2, <1>3, <1>4, <2>1, <2>2, QuietInv
<1>5. CASE /\ items' = [items EXCEPT ![k] = RestoredRunning(k, r)]
           /\ resv' = IF g # None /\ resv[g].request = r
                      THEN [resv EXCEPT ![g] = NoReservation] ELSE resv
           /\ UNCHANGED job
  <2> DEFINE row == RestoredRunning(k, r)
  <2>0. items[k] \in ItemRow /\ ProcessFits(k) /\ TreeFits(k)
    BY DEF LegacyInv, ItemTypes, RowsInv
  <2>1. /\ row \in ItemRow
        /\ \/ row = items[k]
           \/ State(k) = "yielding" /\ items[k].request = r /\ row.state = "running"
        /\ row.deps = items[k].deps /\ row.segment = items[k].segment
        /\ row.gpu = items[k].gpu /\ row.pid = items[k].pid
        /\ row.path = items[k].path /\ row.removed = items[k].removed
        /\ row.error = items[k].error /\ row.dropped = items[k].dropped
    <3>1. CASE State(k) = "yielding" /\ items[k].request = r
      <4>1. row = [items[k] EXCEPT !.state = "running", !.request = None]
        BY <3>1 DEF RestoredRunning
      <4>2. [items[k] EXCEPT !.state = "running", !.request = None] \in ItemRow
        BY <2>0 DEF ItemRow, States, RunningStates
      <4> QED
        BY <2>0, <3>1, <4>1, <4>2 DEF ItemRow
    <3>2. CASE ~(State(k) = "yielding" /\ items[k].request = r)
      BY <2>0, <3>2 DEF RestoredRunning
    <3> QED
      BY <3>1, <3>2
  <2>2. items' = [items EXCEPT ![k] = row]
    BY <1>5
  <2> HIDE DEF row
  <2>3. /\ ItemTypes' /\ items'[k] = row
        /\ \A i \in Ids \ {k} : Bystander(i)
    BY <1>0, <2>1, <2>2, PutRow
  <2>4. Calm(k) /\ (items'[k].state \in RunningStates => Running(k))
    BY <1>2, <2>1, <2>3 DEF Calm, Gentle, State, Running, PendingStates, RunningStates,
         FinishedStates
  <2>5. (Running(k) => DependenciesSatisfied(k)') => ProcessFits(k)'
    BY <1>5, <2>0, <2>1, <2>3 DEF ProcessFits, State, Running, PendingStates, RunningStates
  <2>6. TreeFits(k)'
    BY <1>2, <2>0, <2>1, <2>3 DEF TreeFits, State, PendingStates, RunningStates
  <2>7. \A i \in Ids : Calm(i) /\ ProcessFits(i)' /\ TreeFits(i)'
    BY <1>2, <1>5, <2>3, <2>4, <2>5, <2>6, OneRowFits
  <2>8. ASSUME NEW h \in Gpus, resv'[h].status = "pending"
        PROVE  resv'[h] = resv[h] /\ (resv[h].item = k => row = items[k])
    <3>1. resv'[h] = resv[h] /\ ~(h = g /\ resv[g].request = r)
      BY <1>0, <1>5, <2>8, LegacyAssumption DEF WorldTypes, NoReservation
    <3>2. ASSUME resv[h].item = k, row # items[k]
          PROVE  FALSE
      <4>1. resv[h].request = r
        BY <1>0, <2>1, <2>8, <3>1, <3>2, SMT DEF ReservationInv, PendingReservationHasYielder
      <4>2. h = g
        BY <1>0, <1>1, <2>8, <3>1, <4>1 DEF OwesFits
      <4> QED
        BY <3>1, <4>1, <4>2
    <3> QED
      BY <3>1, <3>2
  <2>9. ResvKept
    BY <2>3, <2>8, OneRowResv
  <2>10. \A p \in Operators : OwesFits(p)'
    BY <1>3, <2>7, <2>9, KeptCommand, DoneCommand DEF Calm
  <2>11. WorldTypes'
    <3>1. resv' \in [Gpus -> ReservationRow]
      BY <1>0, <1>5 DEF WorldTypes, NoReservation, ReservationRow
    <3> QED
      BY <1>0, <1>2, <1>5, <3>1 DEF WorldTypes
  <2> QED
    BY <1>2, <1>3, <2>3, <2>7, <2>9, <2>10, <2>11, CalmInv
<1> QED
  BY <1>1, <1>4, <1>5 DEF WriteRequest

LEMMA WithdrawnFacts ==
    ASSUME WorldTypes, NEW k \in Ids
    PROVE  /\ Withdrawn(k) \in [Gpus -> ReservationRow]
           /\ \A g \in Gpus : Withdrawn(k)[g].status = "pending" =>
                  Withdrawn(k)[g] = resv[g] /\ resv[g].item # k
BY DEF WorldTypes, Withdrawn, NoReservation, ReservationRow

LEMMA RequestTerminationInv ==
    ASSUME LegacyInv, NEW o \in Operators, NEW k \in Ids, NEW force \in BOOLEAN,
           RequestTermination(o, k, force)
    PROVE  LegacyInv'
<1> DEFINE row == [items[k] EXCEPT !.state = IF force THEN "force_killing" ELSE "terminating",
                                   !.stage = IF force THEN "kill" ELSE "interrupt",
                                   !.request = None]
           owed == [NoCommand EXCEPT !.at = "signal", !.item = k,
                                     !.signal = IF force THEN "kill" ELSE "int",
                                     !.pid = items[k].pid]
<1>0. /\ items[k] \in ItemRow /\ items \in [Ids -> ItemRow] /\ ItemTypes /\ WorldTypes
      /\ ProcessFits(k) /\ TreeFits(k)
  BY DEF LegacyInv, ItemTypes, RowsInv
<1>1. /\ items' = [items EXCEPT ![k] = row] /\ Running(k)
      /\ UNCHANGED <<job, git, allow, host, locks, sched>>
  BY <1>0 DEF RequestTermination
<1>2. /\ row \in ItemRow /\ row.state \in {"terminating", "force_killing"}
      /\ row.deps = items[k].deps /\ row.segment = items[k].segment
      /\ row.gpu = items[k].gpu /\ row.pid = items[k].pid
      /\ row.path = items[k].path /\ row.removed = items[k].removed
      /\ row.error = items[k].error /\ row.dropped = items[k].dropped
  <2>1. PICK state \in {"terminating", "force_killing"}, stage \in {"interrupt", "kill"} :
          row = [items[k] EXCEPT !.state = state, !.stage = stage, !.request = None]
    OBVIOUS
  <2>2. state \in States /\ stage \in {"none", "interrupt", "terminate", "kill"}
        /\ None \in Requests \union {None}
    BY DEF States, RunningStates
  <2> HIDE DEF row
  <2>3. row \in ItemRow
    BY <1>0, <2>1, <2>2 DEF ItemRow
  <2> QED
    BY <1>0, <2>1, <2>3 DEF ItemRow
<1>3. owed \in CommandRow /\ owed.at = "signal" /\ owed.item = k
  <2>1. PICK signal \in {"int", "kill"}, pid \in BOOLEAN :
          owed = [NoCommand EXCEPT !.at = "signal", !.item = k, !.signal = signal, !.pid = pid]
    BY <1>0 DEF ItemRow
  <2>2. NoCommand \in CommandRow
    BY DEF NoCommand, CommandRow
  <2> HIDE DEF owed
  <2> QED
    BY <2>1, <2>2 DEF CommandRow
<1>4. Owes(o, owed)
  BY DEF RequestTermination
<1> HIDE DEF row, owed
<1>5. /\ ItemTypes' /\ items'[k] = row
      /\ \A i \in Ids \ {k} : Bystander(i)
  BY <1>0, <1>1, <1>2, PutRow
<1>6. /\ ops' \in [Operators -> CommandRow] /\ ops'[o] = owed
      /\ \A p \in Operators \ {o} : ops'[p] = ops[p]
  BY <1>3, <1>4, OwesOnly
<1>7. Calm(k)
  BY <1>1, <1>2, <1>5 DEF Calm, Gentle, State, Running, PendingStates, RunningStates,
       FinishedStates
<1>8. (Running(k) => DependenciesSatisfied(k)') => ProcessFits(k)'
  BY <1>0, <1>1, <1>2, <1>5
  DEF ProcessFits, State, Running, PendingStates, RunningStates
<1>9. TreeFits(k)'
  BY <1>0, <1>1, <1>2, <1>5 DEF TreeFits, State, Running, PendingStates, RunningStates
<1>10. \A i \in Ids : Calm(i) /\ ProcessFits(i)' /\ TreeFits(i)'
  BY <1>1, <1>5, <1>7, <1>8, <1>9, OneRowFits
<1>11. /\ resv' \in [Gpus -> ReservationRow]
       /\ \A g \in Gpus : resv'[g].status = "pending" =>
              resv'[g] = resv[g] /\ resv[g].item # k
  <2>1. CASE State(k) = "yielding"
    BY <1>0, <2>1, WithdrawnFacts DEF RequestTermination, ReservationsAfterStop
  <2>2. CASE State(k) # "yielding"
    BY <1>0, <2>2, NoReservationFor DEF RequestTermination, ReservationsAfterStop, WorldTypes
  <2> QED
    BY <2>1, <2>2
<1>12. ResvKept
  BY <1>5, <1>11, OneRowResv
<1>13. \A p \in Operators : OwesFits(p)'
  <2>1. OwesFits(o)'
    BY <1>3, <1>6 DEF OwesFits, Cleaning
  <2>2. \A p \in Operators \ {o} : OwesFits(p)'
    BY <1>6, <1>10, <1>12, KeptCommand DEF Calm
  <2> QED
    BY <2>1, <2>2
<1>14. WorldTypes'
  BY <1>0, <1>1, <1>11 DEF WorldTypes
<1> QED
  BY <1>1, <1>5, <1>6, <1>10, <1>12, <1>13, <1>14, CalmInv

\* A signal reaches only an executor that is there.
LEMMA SignalledFacts ==
    ASSUME LegacyInv, NEW k \in Ids, NEW s \in {"none", "int", "term", "kill"}, NEW pid,
           job' = Signalled(k, s, pid)
    PROVE  /\ job' \in [Ids -> JobRow]
           /\ \A i \in Ids :
                /\ job'[i].exit = job[i].exit /\ job'[i].answer = job[i].answer
                /\ job'[i].exec = job[i].exec \/ job[i].exec # "none"
                /\ job[i].answer = "ready" => items[i].segment < MaxSegments
<1>0. job \in [Ids -> JobRow] /\ \A i \in Ids : ProcessFits(i)
  BY DEF LegacyInv, WorldTypes, RowsInv
<1>1. CASE job' = job
  BY <1>0, <1>1 DEF ProcessFits
<1>2. CASE Alive(k) /\ job' = [job EXCEPT ![k].exec = "dead"]
  BY <1>0, <1>2, SMT DEF ProcessFits, Alive, JobRow
<1>3. ASSUME NEW t \in {"none", "int", "term"},
             job' = [job EXCEPT ![k].signal = IF Rank(t) > Rank(@) THEN t ELSE @]
      PROVE  /\ job' \in [Ids -> JobRow]
             /\ \A i \in Ids :
                  /\ job'[i].exit = job[i].exit /\ job'[i].answer = job[i].answer
                  /\ job'[i].exec = job[i].exec
                  /\ job[i].answer = "ready" => items[i].segment < MaxSegments
  <2>1. PICK u \in {"none", "int", "term"} : job' = [job EXCEPT ![k].signal = u]
    <3>1. CASE Rank(t) > Rank(job[k].signal)
      BY <1>0, <1>3, <3>1
    <3>2. CASE ~(Rank(t) > Rank(job[k].signal))
      <4>1. job[k].signal \in {"none", "int", "term"}
        BY <1>0 DEF JobRow
      <4> QED
        BY <1>0, <1>3, <3>2, <4>1
    <3> QED
      BY <3>1, <3>2
  <2> QED
    BY <1>0, <2>1, SMT DEF ProcessFits, JobRow
<1>4. \/ job' = job
      \/ Alive(k) /\ job' = [job EXCEPT ![k].exec = "dead"]
      \/ \E t \in {"none", "int", "term"} :
           job' = [job EXCEPT ![k].signal = IF Rank(t) > Rank(@) THEN t ELSE @]
  BY DEF Signalled
<1> QED
  BY <1>1, <1>2, <1>3, <1>4

LEMMA SendSignalInv ==
    ASSUME LegacyInv, NEW o \in Operators, SendSignal(o)
    PROVE  LegacyInv'
<1>0. WorldTypes /\ OwesFits(o) /\ ops[o].at = "signal" /\ ops[o] \in CommandRow
  BY DEF LegacyInv, CommandInv, SendSignal, ActorTypes
<1>1. Done(o) /\ UNCHANGED <<items, git, allow, resv, host, locks, sched>>
  BY DEF SendSignal
<1>2. /\ ops' \in [Operators -> CommandRow]
      /\ \A p \in Operators : ops'[p] = ops[p] \/ ops'[p] = NoCommand
  BY <1>1, DoneOnly
<1>3. ops[o].item \in Ids /\ ops[o].signal \in {"none", "int", "kill"}
  BY <1>0 DEF OwesFits, CommandRow
<1>4. /\ job' \in [Ids -> JobRow]
      /\ \A i \in Ids :
           /\ job'[i].exit = job[i].exit /\ job'[i].answer = job[i].answer
           /\ job'[i].exec = job[i].exec \/ job[i].exec # "none"
           /\ job[i].answer = "ready" => items[i].segment < MaxSegments
  BY <1>3, SignalledFacts DEF SendSignal
<1>5. WorldTypes'
  BY <1>0, <1>1, <1>4 DEF WorldTypes
<1> QED
  BY <1>1, <1>2, <1>4, <1>5, QuietInv

LEMMA JobInv ==
    ASSUME LegacyInv, NEW k \in Ids, JobStep(k) \/ ExecutorDies(k)
    PROVE  LegacyInv'
<1>0. WorldTypes /\ ActorTypes /\ job[k] \in JobRow /\ git[k] \in GitRow
  BY DEF LegacyInv, WorldTypes
<1>1. UNCHANGED <<items, allow, resv, host, locks, sched, ops>>
  BY DEF JobStep, JobAnswers, JobEnds, ExecutorExits, JobDirties, ExecutorDies
<1>2. ops' \in [Operators -> CommandRow]
  BY <1>0, <1>1 DEF ActorTypes
<1>3. ASSUME UNCHANGED git, NEW new \in JobRow, job' = [job EXCEPT ![k] = new],
             job[k].exec # "none", new.answer = "ready" => items[k].segment < MaxSegments
      PROVE  LegacyInv'
  <2>1. job' \in [Ids -> JobRow] /\ job'[k] = new /\ \A i \in Ids \ {k} : job'[i] = job[i]
    BY <1>0, <1>3 DEF WorldTypes
  <2>2. WorldTypes'
    BY <1>0, <1>1, <1>3, <2>1 DEF WorldTypes
  <2>3. \A i \in Ids :
          \/ /\ job'[i].exec = job[i].exec /\ job'[i].exit = job[i].exit
             /\ job'[i].answer = job[i].answer
          \/ /\ job[i].exec # "none"
             /\ job'[i].answer = "ready" => items[i].segment < MaxSegments
    BY <1>3, <2>1
  <2> QED
    BY <1>1, <1>2, <1>3, <2>2, <2>3, QuietInv
<1>4. job[k].answer = "ready" => items[k].segment < MaxSegments
  BY DEF LegacyInv, RowsInv, ProcessFits
<1>5. ASSUME NEW a \in Answers, JobAnswers(k, a)
      PROVE  LegacyInv'
  <2> DEFINE new == [job[k] EXCEPT !.answer = a, !.answered = job[k].request]
  <2>1. /\ new \in JobRow /\ new.answer = a /\ UNCHANGED git /\ job[k].exec # "none"
        /\ a = "ready" => items[k].segment < MaxSegments
    BY <1>0, <1>5 DEF JobRow, Answers, JobAnswers
  <2>2. job' = [job EXCEPT ![k] = new]
    BY <1>0, <1>5 DEF JobAnswers, WorldTypes
  <2> HIDE DEF new
  <2> QED
    BY <1>3, <2>1, <2>2
<1>6. ASSUME NEW c \in Codes, JobEnds(k, c)
      PROVE  LegacyInv'
  <2> DEFINE new == [job[k] EXCEPT !.exec = "reported", !.exit = c]
  <2>1. new \in JobRow /\ new.answer = job[k].answer /\ UNCHANGED git /\ job[k].exec # "none"
    BY <1>0, <1>6 DEF JobRow, JobEnds
  <2>2. job' = [job EXCEPT ![k] = new]
    BY <1>0, <1>6 DEF JobEnds, WorldTypes
  <2> HIDE DEF new
  <2> QED
    BY <1>3, <1>4, <2>1, <2>2
<1>7. CASE ExecutorExits(k) \/ ExecutorDies(k)
  <2> DEFINE new == [job[k] EXCEPT !.exec = "dead"]
  <2>1. new \in JobRow /\ new.answer = job[k].answer /\ UNCHANGED git /\ job[k].exec # "none"
    BY <1>0, <1>7 DEF JobRow, ExecutorExits, ExecutorDies
  <2>2. job' = [job EXCEPT ![k] = new]
    BY <1>0, <1>7 DEF ExecutorExits, ExecutorDies, WorldTypes
  <2> HIDE DEF new
  <2> QED
    BY <1>3, <1>4, <2>1, <2>2
<1>8. ASSUME NEW tree \in {"dirty", "altered"}, JobDirties(k, tree)
      PROVE  LegacyInv'
  <2>1. /\ git' \in [Ids -> GitRow] /\ UNCHANGED job
        /\ \A i \in Ids : /\ git'[i].ref = git[i].ref
                          /\ git'[i].tree = "none" <=> git[i].tree = "none"
    BY <1>0, <1>8 DEF JobDirties, WorldTypes, GitRow, Trees
  <2>2. WorldTypes'
    BY <1>0, <1>1, <2>1 DEF WorldTypes
  <2> QED
    BY <1>1, <1>2, <2>1, <2>2, QuietInv
<1> QED
  BY <1>5, <1>6, <1>7, <1>8 DEF JobStep

LEMMA OperatorDiesInv ==
    ASSUME LegacyInv, NEW o \in Operators, OperatorDies(o)
    PROVE  LegacyInv'
<1>1. Done(o) /\ UNCHANGED <<items, job, git, allow, resv, host, locks, sched>>
  BY DEF OperatorDies
<1>2. /\ ops' \in [Operators -> CommandRow]
      /\ \A p \in Operators : ops'[p] = ops[p] \/ ops'[p] = NoCommand
  BY <1>1, DoneOnly
<1>3. WorldTypes'
  BY <1>1 DEF LegacyInv, WorldTypes
<1> QED
  BY <1>1, <1>2, <1>3, QuietInv

-----------------------------------------------------------------------------
(***************************************************************************)
(* Cleaning a worktree, and steps of the scheduler alone.                  *)
(***************************************************************************)

\* A prune changes no ref and no directory.
LEMMA PrunedFacts ==
    ASSUME git \in [Ids -> GitRow], NEW lost
    PROVE  /\ Pruned(lost) \in [Ids -> GitRow]
           /\ \A i \in Ids : Pruned(lost)[i].ref = git[i].ref /\ Pruned(lost)[i].tree = git[i].tree
<1>1. ASSUME NEW row \in GitRow
      PROVE  /\ [row EXCEPT !.registered = FALSE] \in GitRow
             /\ [row EXCEPT !.registered = FALSE].ref = row.ref
             /\ [row EXCEPT !.registered = FALSE].tree = row.tree
  BY DEF GitRow
<1> QED
  BY <1>1 DEF Pruned

\* A removal, complete or not, keeps the ref.
LEMMA RemovalFacts ==
    ASSUME NEW row \in GitRow, NEW left \in FailedRemovals(row) \union {Gone(row)}
    PROVE  left \in GitRow /\ left.ref = row.ref
<1>1. row.tree \in Trees /\ "partial" \in Trees /\ "none" \in Trees /\ row.ref \in BOOLEAN
  BY DEF GitRow, Trees
<1>2. CASE left = Gone(row)
  BY <1>1, <1>2 DEF Gone, GitRow
<1>3. CASE left \in FailedRemovals(row) /\ row.registered
  BY <1>1, <1>3 DEF FailedRemovals, GitRow
<1>4. CASE left \in FailedRemovals(row) /\ ~row.registered
  BY <1>4 DEF FailedRemovals
<1> QED
  BY <1>2, <1>3, <1>4

\* What cleaning, or a command that is broken off, does to the Git rows.
LEMMA TreeStep ==
    ASSUME git \in [Ids -> GitRow], NEW p, CleanTree(p) \/ GitTimesOut(p),
           NEW k \in Ids, k = Cleaner(p).item
    PROVE  /\ git' \in [Ids -> GitRow]
           /\ \A i \in Ids \ {k} : git'[i].ref = git[i].ref /\ git'[i].tree = git[i].tree
           /\ git'[k].ref = git[k].ref
           /\ Cleaner(p).at = "tree" /\ git[k].tree = "none" => git'[k].tree = "none"
<1>1. CASE UNCHANGED git
  BY <1>1
<1>2. ASSUME NEW left \in GitRow, git' = [git EXCEPT ![k] = left], left.ref = git[k].ref,
             git[k].tree # "none" \/ Cleaner(p).at # "tree"
      PROVE  /\ git' \in [Ids -> GitRow]
             /\ \A i \in Ids \ {k} : git'[i].ref = git[i].ref /\ git'[i].tree = git[i].tree
             /\ git'[k].ref = git[k].ref
             /\ Cleaner(p).at = "tree" /\ git[k].tree = "none" => git'[k].tree = "none"
  BY <1>2
<1>3. git[k] \in GitRow
  OBVIOUS
<1>4. CASE \E left \in FailedRemovals(git[k]) \union {Gone(git[k])} :
             git[k].tree # "none" /\ git' = [git EXCEPT ![k] = left]
  BY <1>2, <1>3, <1>4, RemovalFacts
<1>5. CASE Cleaner(p).at = "prepare" /\ git' = [git EXCEPT ![k].tree = "partial", ![k].registered = TRUE]
  <2> DEFINE left == [git[k] EXCEPT !.tree = "partial", !.registered = TRUE]
  <2>1. left \in GitRow /\ left.ref = git[k].ref
    BY <1>3 DEF GitRow, Trees
  <2>2. git' = [git EXCEPT ![k] = left]
    BY <1>5
  <2> HIDE DEF left
  <2> QED
    BY <1>2, <1>5, <2>1, <2>2
<1> QED
  BY <1>1, <1>4, <1>5 DEF CleanTree, GitTimesOut

\* Git of an item that was removed from the queue changes, or the outcome of its
\* cleanup is recorded.
LEMMA DroppedInv ==
    ASSUME LegacyInv, NEW o \in Operators, NEW k \in Ids, items[k].dropped,
           NEW row \in ItemRow, items' = [items EXCEPT ![k] = row],
           row.state = State(k), row.deps = items[k].deps, row.segment = items[k].segment,
           row.gpu = items[k].gpu, row.pid = items[k].pid, row.request = items[k].request,
           row.dropped,
           git' \in [Ids -> GitRow],
           \A i \in Ids \ {k} : git'[i].ref = git[i].ref /\ git'[i].tree = git[i].tree,
           UNCHANGED <<job, allow, resv, host, locks, sched>>,
           ops' \in [Operators -> CommandRow], \A p \in Operators \ {o} : ops'[p] = ops[p],
           ops'[o] = NoCommand \/ (ops'[o].at \in Cleaning /\ ops'[o].item = k)
    PROVE  LegacyInv'
<1>0. ItemTypes /\ ProcessFits(k) /\ TreeFits(k)
  BY DEF LegacyInv, RowsInv
<1>1. /\ ItemTypes' /\ items'[k] = row
      /\ \A i \in Ids \ {k} : Bystander(i)
  BY <1>0, PutRow
<1>2. Gentle(k) /\ Calm(k)
  BY <1>1 DEF Calm, Gentle, State, Running
<1>3. \A i \in Ids : Gentle(i) /\ Calm(i)
  BY <1>0, <1>1, <1>2, BystanderCalm, SMT
<1>4. \A i \in Ids \ {k} : ProcessFits(i)' /\ TreeFits(i)'
  BY <1>1, <1>3, BystanderFits
<1>5. TreeFits(k)'
  BY <1>0, <1>1 DEF TreeFits, State
<1>6. ProcessFits(k)'
  <2>1. DependenciesSatisfied(k) /\ State(k) # "absent" => DependenciesSatisfied(k)'
    BY <1>0, <1>3, SatisfiedStays
  <2> QED
    BY <1>0, <1>1, <2>1, SMT DEF ProcessFits, State, Running, RunningStates
<1>7. ResvKept
  BY <1>1, OneRowResv, SMT DEF State
<1>8. \A p \in Operators : OwesFits(p)'
  <2>1. OwesFits(o)'
    BY <1>1, DoneCommand, SMT DEF OwesFits, Cleaning
  <2>2. \A p \in Operators \ {o} : OwesFits(p)'
    BY <1>3, <1>7, KeptCommand
  <2> QED
    BY <2>1, <2>2
<1>9. WorldTypes'
  BY DEF LegacyInv, WorldTypes
<1> QED
  BY <1>1, <1>3, <1>4, <1>5, <1>6, <1>7, <1>8, <1>9, CalmInv

LEMMA OperatorCleansInv ==
    ASSUME LegacyInv, NEW o \in Operators,
           CleanTree(o) \/ CleanRef(o) \/ CleanMark(o) \/ GitTimesOut(o)
    PROVE  LegacyInv'
<1>0. o # "scheduler"
  BY LegacyAssumption
<1>1. /\ Cleaner(o) = ops[o] /\ ops \in [Operators -> CommandRow] /\ OwesFits(o)
      /\ git \in [Ids -> GitRow] /\ items \in [Ids -> ItemRow]
  BY <1>0 DEF Cleaner, LegacyInv, ActorTypes, CommandInv, WorldTypes, ItemTypes
<1>2. PICK k \in Ids : k = ops[o].item /\ items[k].dropped
  BY <1>1 DEF CleanTree, CleanRef, CleanMark, GitTimesOut, OwesFits, Cleaning, CommandRow
<1>3. items[k] \in ItemRow /\ ops[o] \in CommandRow
  BY <1>1
<1>4. CASE CleanTree(o) \/ CleanRef(o)
  <2>1. UNCHANGED <<items, job, allow, resv, host, locks, sched>>
    BY <1>0, <1>4 DEF CleanTree, CleanRef, CleanerMoves
  <2>2. /\ git' \in [Ids -> GitRow]
        /\ \A i \in Ids \ {k} : git'[i].ref = git[i].ref /\ git'[i].tree = git[i].tree
    <3>1. CASE CleanTree(o)
      BY <1>1, <1>2, <3>1, TreeStep
    <3>2. CASE CleanRef(o)
      <4>1. UNCHANGED git \/ git' = [git EXCEPT ![k].ref = FALSE]
        BY <1>1, <1>2, <3>2 DEF CleanRef
      <4>2. [git[k] EXCEPT !.ref = FALSE] \in GitRow
        BY <1>1 DEF GitRow
      <4> QED
        BY <1>1, <4>1, <4>2
    <3> QED
      BY <1>4, <3>1, <3>2
  <2>3. PICK at \in {"ref", "mark"}, bad \in BOOLEAN :
          ops' = [ops EXCEPT ![o].at = at, ![o].bad = bad]
    BY <1>0, <1>4 DEF CleanTree, CleanRef, CleanerMoves
  <2>4. /\ ops' \in [Operators -> CommandRow] /\ \A p \in Operators \ {o} : ops'[p] = ops[p]
        /\ ops'[o].at \in Cleaning /\ ops'[o].item = k
    <3> DEFINE new == [ops[o] EXCEPT !.at = at, !.bad = bad]
    <3>1. new \in CommandRow /\ new.at \in Cleaning /\ new.item = k
      BY <1>2, <1>3 DEF CommandRow, Cleaning
    <3>2. ops' = [ops EXCEPT ![o] = new]
      BY <1>1, <2>3
    <3> HIDE DEF new
    <3> QED
      BY <1>1, <3>1, <3>2
  <2>5. items' = [items EXCEPT ![k] = items[k]]
    BY <1>1, <2>1
  <2> QED
    BY <1>2, <1>3, <2>1, <2>2, <2>4, <2>5, DroppedInv DEF State
<1>5. CASE CleanMark(o)
  <2>0. /\ git' \in [Ids -> GitRow]
        /\ \A i \in Ids : git'[i].ref = git[i].ref /\ git'[i].tree = git[i].tree
    <3>1. UNCHANGED git \/ \E lost : git' = Pruned(lost)
      BY <1>5 DEF CleanMark
    <3> QED
      BY <1>1, <3>1, PrunedFacts
  <2>1. Done(o) /\ UNCHANGED <<job, allow, resv, host, locks, sched>>
    BY <1>0, <1>5 DEF CleanMark
  <2>2. PICK removed \in BOOLEAN, error \in BOOLEAN :
          items' = [items EXCEPT ![k] = [items[k] EXCEPT !.removed = removed, !.error = error]]
    <3>1. CASE ops[o].bad
      <4>1. items' = [items EXCEPT ![k].error = TRUE] /\ items[k].removed \in BOOLEAN
        BY <1>1, <1>2, <1>3, <1>5, <3>1 DEF CleanMark, ItemRow
      <4>2. [items[k] EXCEPT !.error = TRUE]
              = [items[k] EXCEPT !.removed = items[k].removed, !.error = TRUE]
        BY <1>3 DEF ItemRow
      <4> QED
        BY <1>1, <4>1, <4>2
    <3>2. CASE ~ops[o].bad
      <4>1. items' = [items EXCEPT ![k].removed = TRUE, ![k].error = FALSE]
        BY <1>1, <1>2, <1>5, <3>2 DEF CleanMark
      <4> QED
        BY <1>1, <4>1
    <3> QED
      BY <3>1, <3>2
  <2> DEFINE row == [items[k] EXCEPT !.removed = removed, !.error = error]
  <2>3. /\ row \in ItemRow /\ row.state = State(k) /\ row.deps = items[k].deps
        /\ row.segment = items[k].segment /\ row.gpu = items[k].gpu
        /\ row.pid = items[k].pid /\ row.request = items[k].request /\ row.dropped
    <3>1. row \in ItemRow
      BY <1>3 DEF ItemRow
    <3> QED
      BY <1>2, <1>3, <3>1 DEF ItemRow, State
  <2> HIDE DEF row
  <2>4. /\ ops' \in [Operators -> CommandRow] /\ \A p \in Operators \ {o} : ops'[p] = ops[p]
        /\ ops'[o] = NoCommand
    BY <2>1, DoneOnly
  <2>5. items' = [items EXCEPT ![k] = row]
    BY <2>2 DEF row
  <2> QED
    BY <1>2, <2>0, <2>1, <2>3, <2>4, <2>5, DroppedInv
<1>6. CASE GitTimesOut(o)
  <2>1. Done(o) /\ UNCHANGED <<items, job, allow, resv, host, locks, sched>>
    BY <1>0, <1>6 DEF GitTimesOut
  <2>2. /\ git' \in [Ids -> GitRow]
        /\ \A i \in Ids \ {k} : git'[i].ref = git[i].ref /\ git'[i].tree = git[i].tree
    BY <1>1, <1>2, <1>6, TreeStep
  <2>3. /\ ops' \in [Operators -> CommandRow] /\ \A p \in Operators \ {o} : ops'[p] = ops[p]
        /\ ops'[o] = NoCommand
    BY <2>1, DoneOnly
  <2>4. items' = [items EXCEPT ![k] = items[k]]
    BY <1>1, <2>1
  <2> QED
    BY <1>2, <1>3, <2>1, <2>2, <2>3, <2>4, DroppedInv DEF State
<1> QED
  BY <1>4, <1>5, <1>6

\* The parts of SchedInv that say nothing at most control points.
LEMMA NothingToSee ==
    ASSUME sched'.at \notin Reconciling \union Cleaning \union {"sweep"}
    PROVE  SeenInv' /\ CleanInv'
BY DEF SeenInv, CleanInv, Reconciling

LEMMA NothingToClean ==
    ASSUME sched'.at \notin Cleaning
    PROVE  CleanInv'
BY DEF CleanInv

LEMMA NothingToDispatch ==
    ASSUME LegacyInv, \A i \in Ids : Gentle(i), sched'.avail \subseteq sched.avail,
           sched'.at \notin {"escalated", "signal"} \union Choosing \union Starting
    PROVE  DispatchInv'
<1>1. \A g \in sched'.avail : OnGpu(g)' = {}
  BY GpusStayFree DEF LegacyInv, SchedInv, DispatchInv
<1> QED
  BY <1>1 DEF DispatchInv, Choosing, Starting

LEMMA RestInv ==
    ASSUME \/ Rest
           \/ sched' = Down
    PROVE  sched' \in SchedRow /\ SchedInv'
<1>1. /\ sched' \in SchedRow /\ sched'.at \in {"idle", "down"} /\ sched'.avail = {}
  BY DownFacts DEF Rest, SchedRow, Points
<1>2. DispatchInv'
  BY <1>1 DEF DispatchInv, Choosing, Starting
<1>3. SeenInv' /\ CleanInv'
  BY <1>1, NothingToSee DEF Reconciling, Cleaning
<1> QED
  BY <1>1, <1>2, <1>3 DEF SchedInv

LEMMA NextGpuInv ==
    ASSUME LegacyInv, \A i \in Ids : Gentle(i), NextGpu
    PROVE  sched' \in SchedRow /\ SchedInv'
<1>1. /\ sched' \in SchedRow /\ sched'.at = "dispatch" /\ sched'.avail = sched.avail
  BY DEF NextGpu, SchedRow, Points, LegacyInv, ActorTypes
<1>2. DispatchInv'
  BY <1>1, NothingToDispatch DEF Choosing, Starting
<1>3. SeenInv' /\ CleanInv'
  BY <1>1, NothingToSee DEF Reconciling, Cleaning
<1> QED
  BY <1>1, <1>2, <1>3 DEF SchedInv

LEMMA NotLaunchedInv ==
    ASSUME LegacyInv, \A i \in Ids : Gentle(i), NEW paused, NotLaunched(paused)
    PROVE  sched' \in SchedRow /\ SchedInv'
BY RestInv, NextGpuInv DEF NotLaunched

\* The scheduler moves, and rows and Git stay.
LEMMA SchedOnly ==
    ASSUME LegacyInv, UNCHANGED <<items, git, ops>>, WorldTypes',
           \A i \in Ids :
               \/ /\ job'[i].exec = job[i].exec /\ job'[i].exit = job[i].exit
                  /\ job'[i].answer = job[i].answer
               \/ /\ job[i].exec # "none" \/ Running(i)
                  /\ job'[i].answer = "ready" => items[i].segment < MaxSegments,
           \A g \in Gpus : resv'[g].status = "pending" => resv'[g] = resv[g],
           sched' \in SchedRow, SchedInv'
    PROVE  LegacyInv'
<1>1. ItemTypes' /\ ActorTypes' /\ \A i \in Ids : Bystander(i)
  BY DEF LegacyInv, ItemTypes, ActorTypes, Bystander
<1>2. \A i \in Ids : Gentle(i)
  BY <1>1, BystanderCalm DEF LegacyInv
<1>3. ASSUME NEW i \in Ids
      PROVE  ProcessFits(i)' /\ TreeFits(i)'
  <2>1. ProcessFits(i) /\ TreeFits(i)
    BY DEF LegacyInv, RowsInv
  <2>2. DependenciesSatisfied(i) => DependenciesSatisfied(i)'
    BY DEF DependenciesSatisfied, State
  <2>3. ProcessFits(i)'
    BY <2>1, <2>2 DEF ProcessFits, State, Running, RunningStates, PendingStates
  <2>4. TreeFits(i)'
    BY <2>1 DEF TreeFits, State
  <2> QED
    BY <2>3, <2>4
<1>4. ResvKept
  BY DEF ResvKept
<1>5. \A o \in Operators : OwesFits(o)'
  BY <1>2, <1>4, KeptCommand
<1> QED
  BY <1>1, <1>2, <1>3, <1>4, <1>5, GentleInv

LEMMA SameRowsGentle ==
    ASSUME LegacyInv, UNCHANGED items
    PROVE  \A i \in Ids : Gentle(i)
BY DEF LegacyInv, ItemTypes, Gentle, State, Running

\* What the scheduler has read, as long as it is at a point where it may use it.
LEMMA SchedFacts ==
    ASSUME LegacyInv
    PROVE  /\ SeenInv /\ CleanInv /\ DispatchInv /\ sched \in SchedRow
           /\ DOMAIN sched.seen \subseteq Ids /\ WorldTypes /\ ItemTypes
           /\ \A i \in DOMAIN sched.seen :
                /\ Without(sched.seen, i) \in Snapshots
                /\ DOMAIN Without(sched.seen, i) = DOMAIN sched.seen \ {i}
BY SnapshotFacts DEF LegacyInv, SchedInv, ActorTypes, SchedRow

\* Rows that were read as running are running while the rows stay.
LEMMA SameRowsSeen ==
    ASSUME LegacyInv, UNCHANGED items, sched.at \in Reconciling, sched'.at \in Reconciling,
           sched'.back = sched.back, DOMAIN sched'.seen \subseteq DOMAIN sched.seen,
           sched'.at \in {"probe", "finalize"} => sched'.item \in DOMAIN sched'.seen
    PROVE  SeenInv'
<1>1. SeenInv
  BY DEF LegacyInv, SchedInv
<1>2. \A i : Running(i)' <=> Running(i)
  BY DEF Running, State
<1> QED
  BY <1>1, <1>2 DEF SeenInv, Reconciling, Cleaning

LEMMA ReconcilingInv ==
    ASSUME LegacyInv, LookForReceipt \/ ProbeProcess \/ YieldSuperseded
    PROVE  LegacyInv'
<1>0. /\ SeenInv /\ CleanInv /\ DispatchInv /\ sched \in SchedRow
      /\ DOMAIN sched.seen \subseteq Ids /\ WorldTypes /\ ItemTypes
      /\ \A i \in DOMAIN sched.seen :
           /\ Without(sched.seen, i) \in Snapshots
           /\ DOMAIN Without(sched.seen, i) = DOMAIN sched.seen \ {i}
  BY SchedFacts
<1>1. /\ UNCHANGED <<items, job, git, allow, resv, host, locks, ops>>
      /\ sched.at \in Reconciling /\ WorldTypes'
  BY <1>0 DEF LookForReceipt, ProbeProcess, YieldSuperseded, Reconciling, WorldTypes
<1>2. /\ sched' \in SchedRow /\ sched'.at \in Reconciling
      /\ sched'.back = sched.back /\ sched'.avail = sched.avail
      /\ DOMAIN sched'.seen \subseteq DOMAIN sched.seen
      /\ sched'.at \in {"probe", "finalize"} => sched'.item \in DOMAIN sched'.seen
  <2>1. CASE LookForReceipt
    <3>1. PICK i \in DOMAIN sched.seen, at \in {"finalize", "probe"}, receipt \in BOOLEAN :
            sched' = [sched EXCEPT !.at = at, !.item = i, !.receipt = receipt]
      BY <2>1 DEF LookForReceipt
    <3>2. i \in Ids
      BY <1>0
    <3> QED
      BY <1>0, <3>1, <3>2 DEF SchedRow, Points, Reconciling
  <2>2. CASE ProbeProcess
    <3>1. sched.item \in DOMAIN sched.seen
      BY <1>0, <2>2 DEF ProbeProcess, SeenInv
    <3>2. CASE sched' = [sched EXCEPT !.at = "finalize"]
      BY <1>0, <3>1, <3>2 DEF SchedRow, Points, Reconciling
    <3>3. CASE sched' = [sched EXCEPT !.at = "reconcile", !.item = 0,
                                      !.seen = Without(@, sched.item)]
      <4>1. PICK f \in Snapshots : f = Without(sched.seen, sched.item)
                                   /\ DOMAIN f \subseteq DOMAIN sched.seen
        BY <1>0, <3>1
      <4>2. sched' = [sched EXCEPT !.at = "reconcile", !.item = 0, !.seen = f]
        BY <1>0, <3>3, <4>1 DEF SchedRow
      <4> QED
        BY <1>0, <4>1, <4>2 DEF SchedRow, Points, Reconciling
    <3> QED
      BY <2>2, <3>2, <3>3 DEF ProbeProcess
  <2>3. CASE YieldSuperseded
    <3>1. sched.item \in DOMAIN sched.seen /\ sched.at = "finalize"
      BY <1>0, <2>3 DEF YieldSuperseded, SeenInv
    <3>2. PICK S \in SUBSET Ids : sched.seen \in [S -> SeenRow]
      BY <1>0 DEF SchedRow, Snapshots
    <3>3. PICK new \in SeenRow : new = [state |-> State(sched.item), request |-> None]
      BY <1>0, <3>1 DEF SeenRow, ItemTypes, ItemRow, State
    <3>4. PICK f \in [S -> SeenRow] : f = [sched.seen EXCEPT ![sched.item] = new]
      BY <3>1, <3>2
    <3>5. f \in Snapshots /\ DOMAIN f = DOMAIN sched.seen
      BY <3>2, <3>4 DEF Snapshots
    <3>6. sched' = [sched EXCEPT !.seen = f]
      BY <1>0, <2>3, <3>3, <3>4 DEF YieldSuperseded, SchedRow
    <3> QED
      BY <1>0, <3>1, <3>5, <3>6 DEF SchedRow, Reconciling
  <2> QED
    BY <2>1, <2>2, <2>3
<1>3. SeenInv'
  BY <1>1, <1>2, SameRowsSeen
<1>4. CleanInv'
  BY <1>2, NothingToClean DEF Reconciling, Cleaning
<1>5. DispatchInv'
  BY <1>1, <1>2, SameRowsGentle, NothingToDispatch DEF Reconciling, Choosing, Starting
<1> QED
  BY <1>1, <1>2, <1>3, <1>4, <1>5, SchedOnly DEF SchedInv

LEMMA BeginIterationInv ==
    ASSUME LegacyInv, BeginIteration
    PROVE  LegacyInv'
<1>0. WorldTypes /\ ItemTypes
  BY DEF LegacyInv
<1>1. PICK due \in SUBSET Gpus :
        resv' = [g \in Gpus |-> IF g \in due THEN NoReservation ELSE resv[g]]
  BY DEF BeginIteration
<1>2. /\ resv' \in [Gpus -> ReservationRow]
      /\ \A g \in Gpus : resv'[g].status = "pending" => resv'[g] = resv[g]
  BY <1>0, <1>1 DEF WorldTypes, NoReservation, ReservationRow
<1>3. UNCHANGED <<items, job, git, allow, host, locks, ops>>
  BY DEF BeginIteration
<1>4. WorldTypes'
  BY <1>0, <1>2, <1>3 DEF WorldTypes
<1>5. PICK f \in Snapshots : f = Rows({i \in Ids : Running(i)})
                             /\ DOMAIN f = {i \in Ids : Running(i)}
  BY <1>0, RowsSnapshot
<1>6. sched' = [Down EXCEPT !.at = "reconcile", !.seen = f]
  BY <1>5 DEF BeginIteration
<1>7. /\ sched' \in SchedRow /\ sched'.at = "reconcile" /\ sched'.seen = f
      /\ sched'.avail = {} /\ sched'.back = "reconcile"
  BY <1>6, DownFacts DEF SchedRow, Points, Reconciling
<1>8. SeenInv'
  BY <1>3, <1>5, <1>7 DEF SeenInv, Reconciling, Cleaning, Running, State
<1>9. CleanInv' /\ DispatchInv'
  BY <1>7 DEF CleanInv, DispatchInv, Cleaning, Choosing, Starting
<1> QED
  BY <1>2, <1>3, <1>4, <1>7, <1>8, <1>9, SchedOnly DEF SchedInv

LEMMA BeginSweepInv ==
    ASSUME LegacyInv, BeginSweep
    PROVE  LegacyInv'
<1> DEFINE S == {i \in Ids : State(i) \in TerminalStates /\ ~items[i].removed}
<1>0. WorldTypes /\ ItemTypes
  BY DEF LegacyInv
<1>1. UNCHANGED <<items, job, git, allow, resv, host, locks, ops>> /\ WorldTypes'
  BY <1>0 DEF BeginSweep, WorldTypes
<1>2. PICK f \in Snapshots : f = Rows(S) /\ DOMAIN f = S
  BY <1>0, RowsSnapshot
<1>3. sched' = [Down EXCEPT !.at = "sweep", !.back = "sweep", !.seen = f]
  BY <1>2 DEF BeginSweep
<1>4. /\ sched' \in SchedRow /\ sched'.at = "sweep" /\ sched'.seen = f
      /\ sched'.avail = {} /\ sched'.back = "sweep"
  BY <1>3, DownFacts DEF SchedRow, Points
<1>5. \A i \in S : Cleanable(i)'
  <2> SUFFICES ASSUME NEW i \in S
               PROVE  Cleanable(i)'
    OBVIOUS
  <2>1. TreeFits(i)
    BY DEF LegacyInv, RowsInv
  <2> QED
    BY <1>1, <2>1 DEF Cleanable, TreeFits, State, TerminalStates, FinishedStates
<1>6. SeenInv'
  BY <1>2, <1>4, <1>5 DEF SeenInv, Reconciling, Cleaning
<1>7. CleanInv' /\ DispatchInv'
  BY <1>4 DEF CleanInv, DispatchInv, Cleaning, Choosing, Starting
<1> QED
  BY <1>1, <1>4, <1>6, <1>7, SchedOnly DEF SchedInv

LEMMA SweepInv ==
    ASSUME LegacyInv, Sweep
    PROVE  LegacyInv'
<1>0. /\ SeenInv /\ CleanInv /\ DispatchInv /\ sched \in SchedRow
      /\ DOMAIN sched.seen \subseteq Ids /\ WorldTypes /\ ItemTypes
      /\ \A i \in DOMAIN sched.seen :
           /\ Without(sched.seen, i) \in Snapshots
           /\ DOMAIN Without(sched.seen, i) = DOMAIN sched.seen \ {i}
  BY SchedFacts
<1>1. /\ UNCHANGED <<items, job, git, allow, resv, host, locks, ops>>
      /\ sched.at = "sweep" /\ sched.back = "sweep" /\ WorldTypes'
      /\ \A i \in DOMAIN sched.seen : Cleanable(i)
  BY <1>0 DEF Sweep, WorldTypes, SeenInv
<1>2. PICK k \in DOMAIN sched.seen :
        \/ sched' = [sched EXCEPT !.at = "tree", !.item = k, !.seen = Without(@, k)]
        \/ sched' = [sched EXCEPT !.seen = Without(@, k)]
  BY DEF Sweep
<1>3. PICK f \in Snapshots : f = Without(sched.seen, k) /\ DOMAIN f = DOMAIN sched.seen \ {k}
  BY <1>0
<1>4. \/ sched' = [sched EXCEPT !.at = "tree", !.item = k, !.seen = f]
      \/ sched' = [sched EXCEPT !.seen = f]
  BY <1>0, <1>2, <1>3 DEF SchedRow
<1>5. k \in Ids
  BY <1>0
<1>6. /\ sched' \in SchedRow /\ sched'.seen = f /\ sched'.back = "sweep"
      /\ sched'.avail = sched.avail
      /\ sched'.at = "sweep" \/ (sched'.at = "tree" /\ sched'.item = k)
  BY <1>0, <1>1, <1>4, <1>5, ZenonT(40) DEF SchedRow, Points, Cleaning
<1>7. \A i \in DOMAIN sched.seen : Cleanable(i)'
  BY <1>1 DEF Cleanable, State
<1>8. SeenInv'
  BY <1>3, <1>6, <1>7 DEF SeenInv, Reconciling, Cleaning
<1>9. CleanInv'
  BY <1>2, <1>3, <1>5, <1>6, <1>7 DEF CleanInv, Cleaning
<1>10. DispatchInv'
  BY <1>1, <1>6, SameRowsGentle, NothingToDispatch DEF Choosing, Starting
<1> QED
  BY <1>1, <1>6, <1>8, <1>9, <1>10, SchedOnly DEF SchedInv

LEMMA RestingInv ==
    ASSUME LegacyInv, StartScheduler \/ StopScheduler \/ SchedulerDies \/ SkipPoll \/ PausePoll
    PROVE  LegacyInv'
<1>0. WorldTypes
  BY DEF LegacyInv
<1>1. UNCHANGED <<items, job, git, allow, resv, ops>> /\ (Rest \/ sched' = Down)
  BY DEF StartScheduler, StopScheduler, SchedulerDies, SkipPoll, PausePoll
<1>2. host' \in HostRow /\ locks' \subseteq Gpus
  BY <1>0
  DEF StartScheduler, StopScheduler, SchedulerDies, SkipPoll, PausePoll, WorldTypes,
       HostRow
<1>3. WorldTypes'
  BY <1>0, <1>1, <1>2 DEF WorldTypes
<1> QED
  BY <1>1, <1>3, RestInv, SchedOnly

LEMMA PollInv ==
    ASSUME LegacyInv, Poll
    PROVE  LegacyInv'
<1>0. WorldTypes /\ sched \in SchedRow
  BY DEF LegacyInv, ActorTypes
<1>1. UNCHANGED <<items, job, git, allow, resv, host, locks, ops>> /\ WorldTypes'
  BY <1>0 DEF Poll, WorldTypes
<1>2. PICK idle \in SUBSET Gpus :
        sched' = [sched EXCEPT !.at = "dispatch", !.avail = {g \in idle : Free(g)}]
  BY DEF Poll, Telemetry
<1>3. sched' \in SchedRow /\ sched'.at = "dispatch" /\ sched'.avail = {g \in idle : Free(g)}
  BY <1>0, <1>2 DEF SchedRow, Points
<1>4. \A g \in sched'.avail : OnGpu(g)' = {}
  BY <1>1, <1>3 DEF Free, OnGpu, Running, State
<1>5. DispatchInv'
  BY <1>3, <1>4 DEF DispatchInv, Choosing, Starting
<1>6. SeenInv' /\ CleanInv'
  BY <1>3, NothingToSee DEF Reconciling, Cleaning
<1> QED
  BY <1>1, <1>3, <1>5, <1>6, SchedOnly DEF SchedInv

LEMMA NextItemInv ==
    ASSUME LegacyInv, NextItem
    PROVE  LegacyInv'
<1>0. WorldTypes /\ sched \in SchedRow /\ DispatchInv
  BY DEF LegacyInv, ActorTypes, SchedInv
<1>1. UNCHANGED <<items, job, git, allow, resv, host, locks, ops>> /\ WorldTypes'
  BY <1>0 DEF NextItem, WorldTypes
<1>2. CASE Rest
  BY <1>1, <1>2, RestInv, SchedOnly
<1>3. ASSUME NEW g \in sched.avail, NEW i \in Candidates,
             sched' = [sched EXCEPT !.at = "prepare", !.gpu = g, !.item = i, !.avail = @ \ {g}]
      PROVE  LegacyInv'
  <2>1. i \in Ids /\ State(i) \in PendingStates /\ DependenciesSatisfied(i)
    BY DEF Candidates, PendingStates
  <2>2. g \in Gpus /\ sched.avail \subseteq Gpus
    BY <1>0 DEF SchedRow
  <2>3. /\ sched' \in SchedRow /\ sched'.at = "prepare" /\ sched'.gpu = g /\ sched'.item = i
        /\ sched'.avail = sched.avail \ {g}
    BY <1>0, <1>3, <2>1, <2>2 DEF SchedRow, Points, Choosing
  <2>4. \A h \in sched.avail : OnGpu(h)' = {}
    BY <1>0, <1>1, SameRowsGentle, GpusStayFree DEF DispatchInv
  <2>5. DependenciesSatisfied(i)' /\ State(i)' = State(i)
    BY <1>1, <2>1 DEF DependenciesSatisfied, State
  <2>6. DispatchInv'
    BY <2>1, <2>2, <2>3, <2>4, <2>5 DEF DispatchInv, Choosing, Starting
  <2>7. SeenInv' /\ CleanInv'
    BY <2>3, NothingToSee DEF Reconciling, Cleaning
  <2> QED
    BY <1>1, <2>3, <2>6, <2>7, SchedOnly DEF SchedInv
<1> QED
  BY <1>2, <1>3 DEF NextItem

-----------------------------------------------------------------------------
(***************************************************************************)
(* Steps of the scheduler that write a row.                                *)
(***************************************************************************)

LEMMA SchedPut ==
    ASSUME LegacyInv, NEW k \in Ids, ItemTypes', WorldTypes', UNCHANGED ops,
           \A i \in Ids \ {k} :
               /\ Bystander(i) /\ job'[i] = job[i]
               /\ git'[i].ref = git[i].ref /\ git'[i].tree = git[i].tree,
           Gentle(k), (Running(k) => DependenciesSatisfied(k)') => ProcessFits(k)',
           TreeFits(k)', ResvKept, sched' \in SchedRow,
           (\A i \in Ids : Gentle(i)) => SchedInv'
    PROVE  LegacyInv'
<1>0. ItemTypes /\ ProcessFits(k)
  BY DEF LegacyInv, RowsInv
<1>1. \A i \in Ids : Gentle(i)
  BY <1>0, BystanderCalm
<1>2. \A i \in Ids \ {k} : ProcessFits(i)' /\ TreeFits(i)'
  BY <1>1, BystanderFits
<1>3. ProcessFits(k)'
  <2>1. Running(k) => DependenciesSatisfied(k) /\ State(k) # "absent"
    BY <1>0 DEF ProcessFits, Running, RunningStates
  <2> QED
    BY <1>0, <1>1, <2>1, SatisfiedStays
<1>4. \A o \in Operators : OwesFits(o)'
  BY <1>1, KeptCommand
<1>5. ActorTypes'
  BY DEF LegacyInv, ActorTypes
<1> QED
  BY <1>1, <1>2, <1>3, <1>4, <1>5, GentleInv

\* The scheduler works on the worktree of one item, and the rows stay.
LEMMA GitStepInv ==
    ASSUME LegacyInv, NEW k \in Ids, UNCHANGED <<items, job, allow, resv, host, ops>>,
           locks' \subseteq Gpus, git' \in [Ids -> GitRow],
           \A i \in Ids \ {k} : git'[i].ref = git[i].ref /\ git'[i].tree = git[i].tree,
           TreeFits(k)', sched' \in SchedRow, SchedInv'
    PROVE  LegacyInv'
<1>0. ItemTypes /\ WorldTypes /\ ProcessFits(k)
  BY DEF LegacyInv, RowsInv
<1>1. ItemTypes' /\ WorldTypes'
  BY <1>0 DEF ItemTypes, WorldTypes
<1>2. \A i \in Ids : Bystander(i) /\ job'[i] = job[i]
  BY DEF Bystander
<1>3. Gentle(k)
  BY SameRowsGentle
<1>4. (Running(k) => DependenciesSatisfied(k)') => ProcessFits(k)'
  BY <1>0 DEF ProcessFits, State, Running
<1>5. ResvKept
  BY DEF ResvKept
<1> QED
  BY <1>1, <1>2, <1>3, <1>4, <1>5, SchedPut

\* Going back to the rows read as running, after the row of k was finished.
LEMMA SeenWithout ==
    ASSUME LegacyInv, sched.at \in Reconciling, NEW k, \A i \in Ids \ {k} : Bystander(i),
           DOMAIN sched'.seen \subseteq DOMAIN sched.seen \ {k},
           sched'.at = "reconcile" \/ sched'.at \in Cleaning, sched'.back = "reconcile"
    PROVE  SeenInv'
<1>1. /\ DOMAIN sched.seen \subseteq Ids /\ \A i \in DOMAIN sched.seen : Running(i)
  BY SchedFacts DEF SeenInv
<1>2. \A i \in DOMAIN sched'.seen : Running(i)'
  <2> SUFFICES ASSUME NEW i \in DOMAIN sched'.seen
               PROVE  Running(i)'
    OBVIOUS
  <2>1. i \in Ids \ {k} /\ Running(i)
    BY <1>1
  <2>2. items'[i] = items[i]
    BY <2>1 DEF Bystander, Running, RunningStates, State
  <2> QED
    BY <2>1, <2>2 DEF Running, State
<1> QED
  BY <1>2 DEF SeenInv, Reconciling, Cleaning

LEMMA FinalizeYieldInv ==
    ASSUME LegacyInv, FinalizeYield
    PROVE  LegacyInv'
<1>0. /\ SeenInv /\ sched \in SchedRow /\ DOMAIN sched.seen \subseteq Ids
      /\ WorldTypes /\ ItemTypes
      /\ \A i \in DOMAIN sched.seen :
           /\ Without(sched.seen, i) \in Snapshots
           /\ DOMAIN Without(sched.seen, i) = DOMAIN sched.seen \ {i}
  BY SchedFacts
<1>1. PICK k \in DOMAIN sched.seen : k = sched.item /\ k \in Ids /\ Running(k)
  BY <1>0 DEF FinalizeYield, SeenInv, Reconciling
<1>2. /\ State(k) = "yielding" /\ job[k].answer = "ready" /\ items' = Requeued(k)
      /\ sched.at \in Reconciling /\ UNCHANGED <<git, allow, ops>>
  BY <1>1 DEF FinalizeYield, StillYielding, YieldValidated, Reconciling
<1>3. items[k] \in ItemRow /\ ProcessFits(k) /\ TreeFits(k)
  BY <1>0, <1>1 DEF ItemTypes, LegacyInv, RowsInv
<1>4. items[k].segment < MaxSegments /\ items[k].segment \in 1 .. MaxSegments
  BY <1>2, <1>3 DEF ProcessFits, ItemRow
<1>5. PICK n \in 1 .. MaxSegments : n = items[k].segment + 1
  BY <1>4, LegacyAssumption, SMT
<1> DEFINE row == [items[k] EXCEPT !.state = "queued", !.segment = n, !.front = TRUE,
                                   !.gpu = None, !.pid = FALSE, !.request = None]
<1>6. items' = [items EXCEPT ![k] = row]
  BY <1>0, <1>1, <1>2, <1>5 DEF Requeued, ItemTypes
<1>7. /\ row \in ItemRow /\ row.state = "queued" /\ row.segment = n /\ row.pid = FALSE
      /\ row.deps = items[k].deps
      /\ row.path = items[k].path /\ row.removed = items[k].removed
      /\ row.error = items[k].error /\ row.dropped = items[k].dropped
  BY <1>3, <1>5, ZenonT(40) DEF ItemRow, States, PendingStates
<1> HIDE DEF row
<1>8. /\ ItemTypes' /\ items'[k] = row /\ \A i \in Ids \ {k} : Bystander(i)
  BY <1>0, <1>1, <1>6, <1>7, PutRow
<1>9. job' = [job EXCEPT ![k] = NoJob]
  BY <1>1, <1>4, <1>5, <1>7, <1>8, SMT DEF FinalizeYield
<1>10. /\ job' \in [Ids -> JobRow] /\ job'[k] = NoJob
       /\ \A i \in Ids \ {k} : job'[i] = job[i]
  <2>1. NoJob \in JobRow
    BY DEF NoJob, JobRow
  <2> QED
    BY <1>0, <1>1, <1>9, <2>1 DEF WorldTypes
<1>11. /\ resv' \in [Gpus -> ReservationRow]
       /\ \A g \in Gpus : resv'[g].status = "pending" => resv'[g] = resv[g] /\ resv[g].item # k
  BY <1>0, <1>1 DEF FinalizeYield, WorldTypes, ReservationRow, NoReservation
<1>12. WorldTypes'
  <2>1. locks' \subseteq Gpus /\ host' \in HostRow
    BY <1>0, LegacyAssumption, SMT DEF FinalizeYield, WorldTypes, HostRow
  <2> QED
    BY <1>0, <1>2, <1>10, <1>11, <2>1 DEF WorldTypes
<1>13. Gentle(k)
  BY <1>2, <1>7, <1>8 DEF Gentle, State, Running, RunningStates, FinishedStates
<1>14. ProcessFits(k)'
  <2>1. job'[k].exec = "none" /\ job'[k].exit = "none" /\ job'[k].answer = "none"
    <3>1. NoJob.exec = "none" /\ NoJob.exit = "none" /\ NoJob.answer = "none"
      BY DEF NoJob
    <3> QED
      BY <1>10, <3>1
  <2>2. ~items'[k].pid /\ ~Running(k)'
    BY <1>7, <1>8 DEF State, Running, RunningStates
  <2> QED
    BY <2>1, <2>2 DEF ProcessFits
<1>15. TreeFits(k)'
  BY <1>2, <1>3, <1>7, <1>8 DEF TreeFits, State, PendingStates, RunningStates
<1>16. ResvKept
  BY <1>1, <1>8, <1>11, OneRowResv, SMT
<1>17. PICK f \in Snapshots : f = Without(sched.seen, k) /\ DOMAIN f = DOMAIN sched.seen \ {k}
  BY <1>0, <1>1
<1>18. sched' = [sched EXCEPT !.at = "reconcile", !.item = 0, !.receipt = FALSE, !.seen = f]
  BY <1>0, <1>1, <1>17 DEF FinalizeYield, SchedRow
<1>19. /\ sched' \in SchedRow /\ sched'.at = "reconcile" /\ sched'.seen = f
       /\ sched'.avail = sched.avail /\ sched'.back = "reconcile"
  BY <1>0, <1>2, <1>18 DEF SchedRow, Points, Reconciling, SeenInv
<1>20. SeenInv'
  BY <1>2, <1>8, <1>17, <1>19, SeenWithout
<1>21. CleanInv'
  BY <1>19, NothingToClean DEF Cleaning
<1>22. (\A i \in Ids : Gentle(i)) => DispatchInv'
  BY <1>19, NothingToDispatch DEF Choosing, Starting
<1>23. (\A i \in Ids : Gentle(i)) => SchedInv'
  BY <1>20, <1>21, <1>22 DEF SchedInv
<1> QED
  BY <1>1, <1>2, <1>8, <1>10, <1>12, <1>13, <1>14, <1>15, <1>16, <1>19, <1>23, SchedPut

LEMMA FinalStates ==
    ASSUME NEW prior, NEW code, NEW receipt
    PROVE  FinalState(prior, code, receipt) \in FinishedStates
BY DEF FinalState, FinishedStates

LEMMA FinishedRow ==
    ASSUME ItemTypes, NEW k \in Ids, NEW final \in FinishedStates, items' = Finished(k, final)
    PROVE  /\ ItemTypes' /\ \A i \in Ids \ {k} : Bystander(i)
           /\ items'[k].state = final /\ items'[k].pid = FALSE
           /\ items'[k].deps = items[k].deps
           /\ items'[k].path = items[k].path /\ items'[k].removed = items[k].removed
           /\ items'[k].error = items[k].error /\ items'[k].dropped = items[k].dropped
<1> DEFINE row == [items[k] EXCEPT !.state = final, !.pid = FALSE, !.request = None]
<1>0. items[k] \in ItemRow /\ items \in [Ids -> ItemRow]
  BY DEF ItemTypes
<1>1. [items EXCEPT ![k].state = final, ![k].pid = FALSE, ![k].request = None]
        = [items EXCEPT ![k] = row]
  BY <1>0
<1>2. /\ row \in ItemRow /\ row.state = final /\ row.pid = FALSE
      /\ row.deps = items[k].deps
      /\ row.path = items[k].path /\ row.removed = items[k].removed
      /\ row.error = items[k].error /\ row.dropped = items[k].dropped
  <2>1. final \in States /\ FALSE \in BOOLEAN /\ None \in Requests \union {None}
    BY DEF States, TerminalStates, FinishedStates
  <2>2. row \in ItemRow
    BY <1>0, <2>1 DEF ItemRow
  <2> QED
    BY <1>0, <2>2 DEF ItemRow
<1>3. \/ items' = [items EXCEPT ![k] = row]
      \/ items' = HoldDependents([items EXCEPT ![k] = row], k)
  BY <1>1 DEF Finished
<1> HIDE DEF row
<1>4. row.state \notin {"queued", "blocked"}
  BY <1>2 DEF FinishedStates
<1>5. /\ ItemTypes' /\ items'[k] = row /\ \A i \in Ids \ {k} : Bystander(i)
  BY <1>2, <1>3, <1>4, PutRow, HeldDependents, SMT
<1> QED
  BY <1>2, <1>5

LEMMA FinalizeItemInv ==
    ASSUME LegacyInv, FinalizeItem
    PROVE  LegacyInv'
<1>0. /\ SeenInv /\ sched \in SchedRow /\ DOMAIN sched.seen \subseteq Ids
      /\ WorldTypes /\ ItemTypes
      /\ \A i \in DOMAIN sched.seen :
           /\ Without(sched.seen, i) \in Snapshots
           /\ DOMAIN Without(sched.seen, i) = DOMAIN sched.seen \ {i}
  BY SchedFacts
<1>1. PICK k \in DOMAIN sched.seen : k = sched.item /\ k \in Ids /\ Running(k)
  BY <1>0 DEF FinalizeItem, SeenInv, Reconciling
<1>2. PICK final \in FinishedStates :
        /\ items' = Finished(k, final)
        /\ host' = Counted(final)
        /\ resv' = Withdrawn(k)
        /\ allow' = Drained(items[k].gpu, k)
        /\ locks' = locks \ {items[k].gpu}
        /\ sched' = [sched EXCEPT !.at = "tree", !.back = "reconcile", !.receipt = FALSE,
                                  !.seen = Without(@, k)]
        /\ job' = [job EXCEPT ![k] = [NoJob EXCEPT !.exec = job[k].exec]]
  BY <1>1, FinalStates DEF FinalizeItem
<1>3. sched.at \in Reconciling /\ UNCHANGED <<git, ops>>
  BY DEF FinalizeItem, Reconciling
<1>4. items[k] \in ItemRow /\ ProcessFits(k) /\ TreeFits(k)
  BY <1>0, <1>1 DEF ItemTypes, LegacyInv, RowsInv
<1>5. /\ ItemTypes' /\ \A i \in Ids \ {k} : Bystander(i)
      /\ items'[k].state = final /\ items'[k].pid = FALSE
      /\ items'[k].deps = items[k].deps
      /\ items'[k].path = items[k].path /\ items'[k].removed = items[k].removed
      /\ items'[k].error = items[k].error /\ items'[k].dropped = items[k].dropped
  BY <1>0, <1>1, <1>2, FinishedRow
<1>6. /\ job' \in [Ids -> JobRow] /\ job'[k].answer = "none"
      /\ \A i \in Ids \ {k} : job'[i] = job[i]
  <2> DEFINE new == [NoJob EXCEPT !.exec = job[k].exec]
  <2>1. new \in JobRow /\ new.answer = "none"
    BY <1>0, <1>1 DEF NoJob, JobRow, WorldTypes
  <2> HIDE DEF new
  <2>2. job' = [job EXCEPT ![k] = new]
    BY <1>2 DEF new
  <2> QED
    BY <1>0, <1>1, <2>1, <2>2 DEF WorldTypes
<1>7. /\ resv' \in [Gpus -> ReservationRow]
      /\ \A g \in Gpus : resv'[g].status = "pending" => resv'[g] = resv[g] /\ resv[g].item # k
  BY <1>0, <1>1, <1>2, WithdrawnFacts, ZenonT(40)
<1>8. WorldTypes'
  <2>1. locks' \subseteq Gpus
    BY <1>0, <1>2 DEF WorldTypes
  <2>2. host' \in HostRow
    BY <1>0, <1>2, LegacyAssumption, SMT DEF WorldTypes, HostRow, Counted
  <2>3. allow' \in [Gpus -> {"off", "on", "draining"}]
    BY <1>0, <1>2 DEF WorldTypes, Drained
  <2> QED
    BY <1>0, <1>3, <1>6, <1>7, <2>1, <2>2, <2>3 DEF WorldTypes
<1>9. Gentle(k)
  BY <1>1, <1>5 DEF Gentle, State, Running, RunningStates, FinishedStates
<1>10. ProcessFits(k)'
  BY <1>5, <1>6 DEF ProcessFits, State, Running, RunningStates, PendingStates, FinishedStates
<1>11. TreeFits(k)' /\ Cleanable(k)'
  BY <1>1, <1>3, <1>4, <1>5
  DEF TreeFits, Cleanable, State, Running, PendingStates, RunningStates,
       FinishedStates
<1>12. ResvKept
  BY <1>1, <1>5, <1>7, OneRowResv
<1>13. PICK f \in Snapshots : f = Without(sched.seen, k) /\ DOMAIN f = DOMAIN sched.seen \ {k}
  BY <1>0, <1>1
<1>14. sched' = [sched EXCEPT !.at = "tree", !.back = "reconcile", !.receipt = FALSE, !.seen = f]
  BY <1>0, <1>2, <1>13 DEF SchedRow
<1>15. /\ sched' \in SchedRow /\ sched'.at = "tree" /\ sched'.seen = f /\ sched'.item = k
       /\ sched'.avail = sched.avail /\ sched'.back = "reconcile"
  BY <1>0, <1>1, <1>14 DEF SchedRow, Points, Cleaning
<1>16. SeenInv'
  BY <1>3, <1>5, <1>13, <1>15, SeenWithout DEF Cleaning
<1>17. CleanInv'
  BY <1>1, <1>11, <1>13, <1>15 DEF CleanInv
<1>18. (\A i \in Ids : Gentle(i)) => DispatchInv'
  BY <1>15, NothingToDispatch DEF Choosing, Starting
<1>19. (\A i \in Ids : Gentle(i)) => SchedInv'
  BY <1>16, <1>17, <1>18 DEF SchedInv
<1> QED
  BY <1>1, <1>3, <1>5, <1>6, <1>8, <1>9, <1>10, <1>11, <1>12, <1>15, <1>19, SchedPut

LEMMA YieldsInv ==
    ASSUME LegacyInv, BeginYields \/ EndYields
    PROVE  LegacyInv'
<1>0. sched \in SchedRow /\ WorldTypes /\ ItemTypes
  BY SchedFacts
<1>1. UNCHANGED <<items, job, git, allow, resv, host, locks, ops>> /\ WorldTypes'
  BY <1>0 DEF BeginYields, EndYields, WorldTypes
<1>2. sched' \in SchedRow /\ sched'.at \in {"yields", "escalate"} /\ sched'.avail = sched.avail
  <2>1. CASE BeginYields
    <3>1. PICK f \in Snapshots : f = Rows({i \in Ids : State(i) = "yielding"})
      BY <1>0, RowsSnapshot
    <3>2. sched' = [sched EXCEPT !.at = "yields", !.seen = f]
      BY <2>1, <3>1 DEF BeginYields
    <3> QED
      BY <1>0, <3>2 DEF SchedRow, Points
  <2>2. CASE EndYields
    BY <1>0, <2>2 DEF EndYields, Go, SchedRow, Points
  <2> QED
    BY <2>1, <2>2
<1>3. DispatchInv'
  BY <1>1, <1>2, SameRowsGentle, NothingToDispatch DEF Choosing, Starting
<1>4. SeenInv' /\ CleanInv'
  BY <1>2, NothingToSee DEF Reconciling, Cleaning
<1> QED
  BY <1>1, <1>2, <1>3, <1>4, SchedOnly DEF SchedInv

LEMMA ReconcileYieldInv ==
    ASSUME LegacyInv, ReconcileYield
    PROVE  LegacyInv'
<1>0. /\ sched \in SchedRow /\ DOMAIN sched.seen \subseteq Ids /\ WorldTypes /\ ItemTypes
      /\ \A i \in DOMAIN sched.seen : Without(sched.seen, i) \in Snapshots
  BY SchedFacts
<1>1. PICK k \in DOMAIN sched.seen :
        /\ sched' = [sched EXCEPT !.seen = Without(@, k)]
        /\ \/ UNCHANGED <<items, resv>>
           \/ /\ State(k) = "yielding"
              /\ items' = [items EXCEPT ![k].state = "running", ![k].request = None]
              /\ resv' = Withdrawn(k)
  BY DEF ReconcileYield
<1>2. sched.at = "yields" /\ UNCHANGED <<job, git, allow, host, locks, ops>> /\ k \in Ids
  BY <1>0 DEF ReconcileYield
<1>3. sched' \in SchedRow /\ sched'.at = "yields" /\ sched'.avail = sched.avail
  <2>1. PICK f \in Snapshots : f = Without(sched.seen, k)
    BY <1>0
  <2>2. sched' = [sched EXCEPT !.seen = f]
    BY <1>0, <1>1, <2>1 DEF SchedRow
  <2> QED
    BY <1>0, <1>2, <2>2 DEF SchedRow
<1>4. (\A i \in Ids : Gentle(i)) => SchedInv'
  <2>1. (\A i \in Ids : Gentle(i)) => DispatchInv'
    BY <1>3, NothingToDispatch DEF Choosing, Starting
  <2>2. SeenInv' /\ CleanInv'
    BY <1>3, NothingToSee DEF Reconciling, Cleaning
  <2> QED
    BY <2>1, <2>2 DEF SchedInv
<1>5. CASE UNCHANGED <<items, resv>>
  <2>1. WorldTypes'
    BY <1>0, <1>2, <1>5 DEF WorldTypes
  <2> QED
    BY <1>2, <1>3, <1>4, <1>5, <2>1, SameRowsGentle, SchedOnly
<1>6. CASE /\ State(k) = "yielding"
           /\ items' = [items EXCEPT ![k].state = "running", ![k].request = None]
           /\ resv' = Withdrawn(k)
  <2> DEFINE row == [items[k] EXCEPT !.state = "running", !.request = None]
  <2>1. items[k] \in ItemRow /\ ProcessFits(k) /\ TreeFits(k)
    BY <1>0, <1>2 DEF ItemTypes, LegacyInv, RowsInv
  <2>2. /\ row \in ItemRow /\ row.state = "running"
        /\ row.deps = items[k].deps /\ row.segment = items[k].segment
        /\ row.gpu = items[k].gpu /\ row.pid = items[k].pid
        /\ row.path = items[k].path /\ row.removed = items[k].removed
        /\ row.error = items[k].error /\ row.dropped = items[k].dropped
    BY <2>1 DEF ItemRow, States, RunningStates
  <2>3. items' = [items EXCEPT ![k] = row]
    BY <1>0, <1>2, <1>6 DEF ItemTypes
  <2> HIDE DEF row
  <2>4. ItemTypes' /\ items'[k] = row /\ \A i \in Ids \ {k} : Bystander(i)
    BY <1>0, <1>2, <2>2, <2>3, PutRow
  <2>5. Gentle(k)
    BY <1>6, <2>2, <2>4 DEF Gentle, State, Running, RunningStates, FinishedStates
  <2>6. (Running(k) => DependenciesSatisfied(k)') => ProcessFits(k)'
    BY <1>2, <1>6, <2>1, <2>2, <2>4 DEF ProcessFits, State, Running, RunningStates, PendingStates
  <2>7. TreeFits(k)'
    BY <1>2, <1>6, <2>1, <2>2, <2>4 DEF TreeFits, State, RunningStates, PendingStates
  <2>8. /\ resv' \in [Gpus -> ReservationRow]
        /\ \A g \in Gpus : resv'[g].status = "pending" => resv'[g] = resv[g] /\ resv[g].item # k
    BY <1>0, <1>2, <1>6, WithdrawnFacts
  <2>9. ResvKept
    BY <1>2, <2>4, <2>8, OneRowResv
  <2>10. WorldTypes'
    BY <1>0, <1>2, <2>8 DEF WorldTypes
  <2>11. \A i \in Ids \ {k} :
           /\ Bystander(i) /\ job'[i] = job[i]
           /\ git'[i].ref = git[i].ref /\ git'[i].tree = git[i].tree
    BY <1>2, <2>4
  <2> QED
    BY <1>2, <1>3, <1>4, <2>4, <2>5, <2>6, <2>7, <2>9, <2>10, <2>11, SchedPut
<1> QED
  BY <1>1, <1>5, <1>6

LEMMA GraceOverInv ==
    ASSUME LegacyInv, GraceOver
    PROVE  LegacyInv'
<1>0. WorldTypes /\ ItemTypes /\ sched \in SchedRow /\ DispatchInv
  BY DEF LegacyInv, ActorTypes, SchedInv
<1>1. PICK k \in Ids : /\ job' = Signalled(k, "term", items[k].pid)
                       /\ sched' = [sched EXCEPT !.at = "escalated", !.item = k]
  BY DEF GraceOver
<1>2. UNCHANGED <<items, git, allow, resv, host, locks, ops>>
  BY DEF GraceOver
<1>3. /\ job' \in [Ids -> JobRow]
      /\ \A i \in Ids :
           /\ job'[i].exit = job[i].exit /\ job'[i].answer = job[i].answer
           /\ job'[i].exec = job[i].exec \/ job[i].exec # "none"
           /\ job[i].answer = "ready" => items[i].segment < MaxSegments
  BY <1>1, SignalledFacts
<1>4. WorldTypes'
  BY <1>0, <1>2, <1>3 DEF WorldTypes
<1>5. /\ sched' \in SchedRow /\ sched'.at = "escalated" /\ sched'.item = k
      /\ sched'.avail = sched.avail
  BY <1>0, <1>1 DEF SchedRow, Points
<1>6. \A g \in sched'.avail : OnGpu(g)' = {}
  BY <1>0, <1>2, <1>5, SameRowsGentle, GpusStayFree DEF DispatchInv
<1>7. DispatchInv'
  BY <1>5, <1>6 DEF DispatchInv, Choosing, Starting
<1>8. SeenInv' /\ CleanInv'
  BY <1>5, NothingToSee DEF Reconciling, Cleaning
<1> QED
  BY <1>2, <1>3, <1>4, <1>5, <1>7, <1>8, SchedOnly DEF SchedInv

LEMMA RecordEscalationInv ==
    ASSUME LegacyInv, RecordEscalation
    PROVE  LegacyInv'
<1>0. WorldTypes /\ ItemTypes /\ sched \in SchedRow /\ DispatchInv
  BY DEF LegacyInv, ActorTypes, SchedInv
<1>1. PICK k \in Ids : k = sched.item
  BY <1>0 DEF RecordEscalation, DispatchInv
<1>2. items[k] \in ItemRow /\ ProcessFits(k) /\ TreeFits(k)
  BY <1>0 DEF ItemTypes, LegacyInv, RowsInv
<1> DEFINE row == [items[k] EXCEPT !.stage = "terminate"]
<1>3. /\ items' = [items EXCEPT ![k] = row] /\ UNCHANGED <<job, git, allow, resv, host, locks, ops>>
      /\ sched' = [sched EXCEPT !.at = "escalate", !.item = 0]
  BY <1>0, <1>1 DEF RecordEscalation, ItemTypes
<1>4. /\ row \in ItemRow /\ row.state = State(k)
      /\ row.deps = items[k].deps /\ row.segment = items[k].segment
      /\ row.gpu = items[k].gpu /\ row.pid = items[k].pid /\ row.request = items[k].request
      /\ row.path = items[k].path /\ row.removed = items[k].removed
      /\ row.error = items[k].error /\ row.dropped = items[k].dropped
  BY <1>2 DEF ItemRow, State
<1> HIDE DEF row
<1>5. /\ ItemTypes' /\ items'[k] = row /\ \A i \in Ids \ {k} : Bystander(i)
  BY <1>0, <1>3, <1>4, PutRow
<1>6. Gentle(k)
  BY <1>4, <1>5 DEF Gentle, State, Running
<1>7. (Running(k) => DependenciesSatisfied(k)') => ProcessFits(k)'
  BY <1>2, <1>3, <1>4, <1>5 DEF ProcessFits, State, Running
<1>8. TreeFits(k)'
  BY <1>2, <1>3, <1>4, <1>5 DEF TreeFits, State
<1>9. ResvKept
  BY <1>3, <1>4, <1>5, OneRowResv, SMT DEF State
<1>10. sched' \in SchedRow /\ sched'.at = "escalate" /\ sched'.avail = sched.avail
  BY <1>0, <1>3 DEF SchedRow, Points
<1>11. (\A i \in Ids : Gentle(i)) => DispatchInv'
  BY <1>10, NothingToDispatch DEF Choosing, Starting
<1>12. SeenInv' /\ CleanInv'
  BY <1>10, NothingToSee DEF Reconciling, Cleaning
<1>13. (\A i \in Ids : Gentle(i)) => SchedInv'
  BY <1>11, <1>12 DEF SchedInv
<1>14. WorldTypes'
  BY <1>0, <1>3 DEF WorldTypes
<1> QED
  BY <1>3, <1>5, <1>6, <1>7, <1>8, <1>9, <1>10, <1>13, <1>14, SchedPut

\* The scheduler goes on with the item it chose.
LEMMA ChoosingOn ==
    ASSUME LegacyInv, sched.at \in Choosing, NEW at \in Choosing, Go(at),
           \A i \in Ids : Gentle(i),
           items'[sched.item].state \in PendingStates \union {"removed"},
           items'[sched.item].dropped \/ git'[sched.item].tree # "none"
    PROVE  sched' \in SchedRow /\ SchedInv'
<1>0. ItemTypes /\ sched \in SchedRow /\ DispatchInv
  BY DEF LegacyInv, ActorTypes, SchedInv
<1>1. /\ sched' \in SchedRow /\ sched'.at = at /\ sched'.avail = sched.avail
      /\ sched'.item = sched.item /\ sched'.gpu = sched.gpu
  BY <1>0 DEF Go, SchedRow, Points
<1>2. PICK k \in Ids, g \in Gpus \ sched.avail : k = sched.item /\ g = sched.gpu
  BY <1>0 DEF DispatchInv
<1>3. State(k) # "absent" /\ DependenciesSatisfied(k) /\ OnGpu(g) = {}
  BY <1>0, <1>2 DEF DispatchInv, PendingStates
<1>4. DependenciesSatisfied(k)' /\ OnGpu(g)' = {}
  BY <1>0, <1>3, SatisfiedStays, GpusStayFree
<1>5. \A h \in sched'.avail : OnGpu(h)' = {}
  BY <1>0, <1>1, GpusStayFree DEF DispatchInv
<1>6. DispatchInv'
  BY <1>1, <1>2, <1>4, <1>5 DEF DispatchInv, Choosing, Starting, State
<1>7. SeenInv' /\ CleanInv'
  BY <1>1, NothingToSee DEF Reconciling, Cleaning, Choosing
<1> QED
  BY <1>1, <1>6, <1>7 DEF SchedInv

LEMMA ChosenItem ==
    ASSUME LegacyInv, sched.at \in Choosing
    PROVE  /\ WorldTypes /\ ItemTypes /\ sched \in SchedRow
           /\ sched.item \in Ids /\ State(sched.item) \in PendingStates \union {"removed"}
           /\ items[sched.item] \in ItemRow /\ ProcessFits(sched.item) /\ TreeFits(sched.item)
           /\ sched.at # "prepare" => items[sched.item].dropped \/ git[sched.item].tree # "none"
           /\ sched.gpu \in Gpus
BY DEF LegacyInv, ActorTypes, SchedInv, DispatchInv, ItemTypes, RowsInv

LEMMA PrepareTreeInv ==
    ASSUME LegacyInv, PrepareTree
    PROVE  LegacyInv'
<1>0. sched.at \in Choosing /\ UNCHANGED <<items, job, allow, resv, host, locks, ops>>
  BY DEF PrepareTree, Choosing
<1>1. PICK k \in Ids : k = sched.item
  BY <1>0, ChosenItem
<1>2. /\ WorldTypes /\ ItemTypes /\ State(k) \in PendingStates \union {"removed"}
      /\ ProcessFits(k) /\ TreeFits(k)
  BY <1>0, <1>1, ChosenItem
<1>3. \A i \in Ids : Gentle(i)
  BY <1>0, SameRowsGentle
<1>4. /\ git \in [Ids -> GitRow] /\ locks' \subseteq Gpus
  BY <1>0, <1>2 DEF WorldTypes
<1>5. CASE /\ \A i \in Ids : git'[i].ref = git[i].ref /\ git'[i].tree = git[i].tree
           /\ git' \in [Ids -> GitRow]
           /\ NotLaunched(host.paused) \/ (git[k].tree # "none" /\ Go("recordTree"))
  <2>1. sched' \in SchedRow /\ SchedInv'
    BY <1>0, <1>1, <1>2, <1>3, <1>5, NotLaunchedInv, ChoosingOn DEF State, Choosing
  <2>2. git'[k].ref = git[k].ref /\ git'[k].tree = git[k].tree
    BY <1>5
  <2>3. TreeFits(k)'
    BY <1>0, <1>2, <2>2 DEF TreeFits, State
  <2> QED
    BY <1>0, <1>4, <1>5, <2>1, <2>3, GitStepInv
<1>6. ASSUME NEW lost, git[k].tree = "none", git[k].ref,
             git' = [Pruned(lost) EXCEPT ![k].tree = "clean", ![k].registered = TRUE],
             Go("recordTree") \/ NotLaunched(host.paused)
      PROVE  LegacyInv'
  <2>1. /\ git' \in [Ids -> GitRow] /\ git'[k].ref /\ git'[k].tree = "clean"
        /\ \A i \in Ids \ {k} : git'[i].ref = git[i].ref /\ git'[i].tree = git[i].tree
    <3>1. PICK new \in [Ids -> GitRow] :
            /\ new = Pruned(lost)
            /\ \A i \in Ids : new[i].ref = git[i].ref /\ new[i].tree = git[i].tree
      BY <1>4, PrunedFacts
    <3> DEFINE row == [new[k] EXCEPT !.tree = "clean", !.registered = TRUE]
    <3>2. row \in GitRow /\ row.ref = git[k].ref /\ row.tree = "clean"
      BY <3>1 DEF GitRow, Trees
    <3>3. git' = [new EXCEPT ![k] = row]
      BY <1>6, <3>1
    <3> HIDE DEF row
    <3> QED
      BY <1>6, <3>1, <3>2, <3>3
  <2>2. sched' \in SchedRow /\ SchedInv'
    BY <1>0, <1>1, <1>2, <1>3, <1>6, <2>1, NotLaunchedInv, ChoosingOn DEF State, Choosing
  <2>3. TreeFits(k)'
    BY <1>0, <1>2, <1>6, <2>1 DEF TreeFits, State
  <2> QED
    BY <1>0, <1>4, <2>1, <2>2, <2>3, GitStepInv
<1>7. ASSUME NEW lost, git' = Pruned(lost), NotLaunched(host.paused)
      PROVE  LegacyInv'
  BY <1>4, <1>5, <1>7, PrunedFacts
<1>8. CASE UNCHANGED git /\ (NotLaunched(host.paused) \/ (IdentityMatches(k) /\ Go("recordTree")))
  BY <1>4, <1>5, <1>8 DEF IdentityMatches
<1> QED
  BY <1>1, <1>6, <1>7, <1>8 DEF PrepareTree

\* The row of the chosen item is written while it is out of the GPUs.
LEMMA ChosenPut ==
    ASSUME LegacyInv, sched.at \in Choosing, NEW k \in Ids, k = sched.item,
           NEW row \in ItemRow, items' = [items EXCEPT ![k] = row],
           UNCHANGED <<job, git, resv, ops>>, WorldTypes',
           row.state = State(k) \/ row.state \in PendingStates,
           row.deps = items[k].deps, row.segment = items[k].segment,
           row.pid = items[k].pid, row.dropped = items[k].dropped,
           ~row.dropped => /\ row.path => git[k].tree # "none"
                           /\ ~row.removed /\ ~row.error,
           sched' \in SchedRow, (\A i \in Ids : Gentle(i)) => SchedInv'
    PROVE  LegacyInv'
<1>1. /\ WorldTypes /\ ItemTypes /\ State(k) \in PendingStates \union {"removed"}
      /\ ProcessFits(k) /\ TreeFits(k)
  BY ChosenItem
<1>2. /\ ItemTypes' /\ items'[k] = row /\ \A i \in Ids \ {k} : Bystander(i)
  BY <1>1, PutRow
<1>3. Gentle(k)
  BY <1>1, <1>2 DEF Gentle, State, Running, PendingStates, RunningStates, FinishedStates
<1>4. ProcessFits(k)'
  BY <1>1, <1>2 DEF ProcessFits, State, Running, PendingStates, RunningStates
<1>5. TreeFits(k)'
  BY <1>1, <1>2 DEF TreeFits, State, PendingStates, RunningStates
<1>6. ResvKept
  <2>1. \A g \in Gpus : ~(resv[g].status = "pending" /\ resv[g].item = k)
    BY <1>1, NoReservationFor DEF PendingStates
  <2> QED
    BY <1>2, <2>1, OneRowResv
<1> QED
  BY <1>2, <1>3, <1>4, <1>5, <1>6, SchedPut

LEMMA RecordTreeInv ==
    ASSUME LegacyInv, RecordTree
    PROVE  LegacyInv'
<1>0. /\ sched.at \in Choosing /\ sched.at # "prepare"
      /\ UNCHANGED <<job, git, allow, resv, host, locks, ops>>
  BY DEF RecordTree, Choosing
<1>1. PICK k \in Ids : k = sched.item
  BY <1>0, ChosenItem
<1>2. /\ WorldTypes /\ ItemTypes /\ State(k) \in PendingStates \union {"removed"}
      /\ items[k] \in ItemRow /\ TreeFits(k)
      /\ items[k].dropped \/ git[k].tree # "none"
  BY <1>0, <1>1, ChosenItem
<1>3. WorldTypes'
  BY <1>0, <1>2 DEF WorldTypes
<1>4. PICK row : row = IF items[k].path THEN items[k]
                       ELSE [items[k] EXCEPT !.path = TRUE, !.removed = FALSE, !.error = FALSE]
  OBVIOUS
<1>5. /\ row \in ItemRow /\ row.state = State(k)
      /\ row.deps = items[k].deps /\ row.segment = items[k].segment
      /\ row.pid = items[k].pid /\ row.dropped = items[k].dropped
  BY <1>2, <1>4 DEF ItemRow, State
<1>6. ~row.dropped => /\ row.path => git[k].tree # "none"
                      /\ ~row.removed /\ ~row.error
  <2>1. CASE items[k].path
    <3>1. row = items[k]
      BY <1>4, <2>1
    <3> QED
      BY <1>2, <3>1 DEF TreeFits, PendingStates
  <2>2. CASE ~items[k].path
    BY <1>2, <1>4, <1>5, <2>2 DEF ItemRow
  <2> QED
    BY <2>1, <2>2
<1>7. CASE /\ IdentityMatches(k) /\ Go("identity") /\ items' = [items EXCEPT ![k] = row]
  <2>1. items'[k] = row
    BY <1>2, <1>7 DEF ItemTypes
  <2>2. git'[k].tree # "none"
    BY <1>0, <1>7 DEF IdentityMatches
  <2>3. sched' \in SchedRow
    BY <1>7 DEF Go, LegacyInv, ActorTypes, SchedRow, Points, Choosing
  <2>4. (\A i \in Ids : Gentle(i)) => SchedInv'
    BY <1>0, <1>1, <1>2, <1>5, <1>7, <2>1, <2>2, ChoosingOn DEF Choosing
  <2> QED
    BY <1>0, <1>1, <1>3, <1>5, <1>6, <1>7, <2>3, <2>4, ChosenPut
<1>8. ASSUME NotLaunched(host.paused), NEW new \in {row, [row EXCEPT !.state = IF @ = "queued" THEN "held" ELSE @]},
             items' = [items EXCEPT ![k] = new]
      PROVE  LegacyInv'
  <2>1. /\ new \in ItemRow /\ (new.state = State(k) \/ new.state \in PendingStates)
        /\ new.deps = items[k].deps /\ new.segment = items[k].segment
        /\ new.pid = items[k].pid /\ new.dropped = row.dropped
        /\ new.path = row.path /\ new.removed = row.removed /\ new.error = row.error
    <3>1. CASE new = row
      BY <1>5, <3>1
    <3>2. CASE new = [row EXCEPT !.state = "held"]
      <4>1. [row EXCEPT !.state = "held"] \in ItemRow
        BY <1>5 DEF ItemRow, States, PendingStates
      <4>2. new.state = "held"
        BY <1>5, <3>2 DEF ItemRow
      <4> QED
        BY <1>5, <3>2, <4>1, <4>2, SMT DEF ItemRow, PendingStates
    <3>3. [row EXCEPT !.state = row.state] = row
      BY <1>5 DEF ItemRow
    <3> QED
      BY <1>8, <3>1, <3>2, <3>3
  <2>2. sched' \in SchedRow
    <3>1. CASE Rest
      BY <3>1, RestInv
    <3>2. CASE NextGpu
      BY <3>2 DEF NextGpu, LegacyInv, ActorTypes, SchedRow, Points
    <3> QED
      BY <1>8, <3>1, <3>2 DEF NotLaunched
  <2>3. (\A i \in Ids : Gentle(i)) => SchedInv'
    BY <1>8, NotLaunchedInv
  <2> QED
    BY <1>0, <1>1, <1>3, <1>5, <1>6, <1>8, <2>1, <2>2, <2>3, ChosenPut
<1> QED
  BY <1>1, <1>4, <1>7, <1>8 DEF RecordTree

LEMMA IdentityMismatchInv ==
    ASSUME LegacyInv, IdentityMismatch
    PROVE  LegacyInv'
<1>0. /\ sched.at \in Choosing /\ sched.at # "prepare" /\ Rest
      /\ UNCHANGED <<job, git, allow, resv, locks, ops>>
  BY DEF IdentityMismatch, Choosing
<1>1. PICK k \in Ids : k = sched.item
  BY <1>0, ChosenItem
<1>2. /\ WorldTypes /\ ItemTypes /\ State(k) \in PendingStates \union {"removed"}
      /\ items[k] \in ItemRow /\ TreeFits(k)
  BY <1>0, <1>1, ChosenItem
<1>3. WorldTypes'
  BY <1>0, <1>2 DEF WorldTypes, IdentityMismatch, HostRow
<1> DEFINE row == [items[k] EXCEPT !.state = "blocked"]
<1>4. items' = [items EXCEPT ![k] = row]
  BY <1>1, <1>2 DEF IdentityMismatch, ItemTypes
<1>5. /\ row \in ItemRow /\ row.state \in PendingStates
      /\ row.deps = items[k].deps /\ row.segment = items[k].segment
      /\ row.pid = items[k].pid /\ row.dropped = items[k].dropped
      /\ row.path = items[k].path /\ row.removed = items[k].removed
      /\ row.error = items[k].error
  BY <1>2 DEF ItemRow, States, PendingStates
<1> HIDE DEF row
<1>6. ~row.dropped => /\ row.path => git[k].tree # "none"
                      /\ ~row.removed /\ ~row.error
  BY <1>2, <1>5 DEF TreeFits
<1>7. sched' \in SchedRow /\ SchedInv'
  BY <1>0, RestInv
<1> QED
  BY <1>0, <1>1, <1>3, <1>4, <1>5, <1>6, <1>7, ChosenPut

LEMMA LockGpuInv ==
    ASSUME LegacyInv, LockGpu
    PROVE  LegacyInv'
<1>0. /\ sched.at \in Choosing /\ sched.at # "prepare"
      /\ UNCHANGED <<items, job, git, allow, resv, ops>>
  BY DEF LockGpu, Choosing
<1>1. /\ WorldTypes /\ sched.item \in Ids
      /\ State(sched.item) \in PendingStates \union {"removed"}
      /\ items[sched.item].dropped \/ git[sched.item].tree # "none"
      /\ sched.gpu \in Gpus
  BY <1>0, ChosenItem
<1>2. locks' \subseteq Gpus /\ host' \in HostRow
  BY <1>1 DEF LockGpu, WorldTypes, HostRow
<1>3. WorldTypes'
  BY <1>0, <1>1, <1>2 DEF WorldTypes
<1>4. \A i \in Ids : Gentle(i)
  BY <1>0, SameRowsGentle
<1>5. sched' \in SchedRow /\ SchedInv'
  <2>1. CASE Rest \/ NotLaunched(host.paused)
    BY <1>4, <2>1, RestInv, NotLaunchedInv
  <2>2. CASE Go("claim")
    BY <1>0, <1>1, <1>4, <2>2, ChoosingOn DEF State, Choosing
  <2> QED
    BY <2>1, <2>2 DEF LockGpu
<1> QED
  BY <1>0, <1>3, <1>5, SchedOnly

LEMMA ClaimItemInv ==
    ASSUME LegacyInv, ClaimItem
    PROVE  LegacyInv'
<1>0. /\ sched.at \in Choosing /\ sched.at # "prepare"
      /\ UNCHANGED <<job, git, allow, resv, host, ops>>
  BY DEF ClaimItem, Choosing
<1>1. PICK k \in Ids, g \in Gpus : k = sched.item /\ g = sched.gpu
  BY <1>0, ChosenItem
<1>2. /\ WorldTypes /\ ItemTypes /\ items[k] \in ItemRow /\ ProcessFits(k) /\ TreeFits(k)
      /\ sched \in SchedRow
  BY <1>0, <1>1, ChosenItem
<1>3. locks' \subseteq Gpus
  BY <1>2 DEF ClaimItem, WorldTypes
<1>4. WorldTypes'
  BY <1>0, <1>2, <1>3 DEF WorldTypes
<1>5. CASE State(k) # "queued"
  <2>1. NotLaunched(host.paused) /\ UNCHANGED items
    BY <1>1, <1>5 DEF ClaimItem
  <2>2. sched' \in SchedRow /\ SchedInv'
    BY <2>1, SameRowsGentle, NotLaunchedInv
  <2> QED
    BY <1>0, <1>4, <2>1, <2>2, SchedOnly
<1>6. CASE State(k) = "queued"
  <2> DEFINE row == [items[k] EXCEPT !.state = "starting", !.gpu = g, !.front = FALSE]
  <2>1. items' = [items EXCEPT ![k] = row] /\ Go("spawn")
    BY <1>1, <1>2, <1>6 DEF ClaimItem, ItemTypes
  <2>2. /\ row \in ItemRow /\ row.state = "starting" /\ row.gpu = g
        /\ row.deps = items[k].deps /\ row.segment = items[k].segment
        /\ row.pid = items[k].pid /\ row.path = items[k].path
        /\ row.removed = items[k].removed /\ row.error = items[k].error
        /\ row.dropped = items[k].dropped
    BY <1>2 DEF ItemRow, States, RunningStates
  <2> HIDE DEF row
  <2>3. ItemTypes' /\ items'[k] = row /\ \A i \in Ids \ {k} : items'[i] = items[i]
    BY <1>2, <2>1, <2>2 DEF ItemTypes
  <2>4. /\ DependenciesSatisfied(k) /\ OnGpu(g) = {} /\ g \notin sched.avail
        /\ \A h \in sched.avail : OnGpu(h) = {}
    BY <1>0, <1>1 DEF LegacyInv, SchedInv, DispatchInv
  <2>5. ASSUME NEW i \in Ids, DependenciesSatisfied(i)
        PROVE  DependenciesSatisfied(i)'
    <3>1. items'[i].deps = items[i].deps /\ items[i].deps \subseteq Ids
      BY <1>2, <2>2, <2>3 DEF ItemTypes, ItemRow
    <3>2. ASSUME NEW d \in items[i].deps
          PROVE  items'[d].state = "succeeded"
      BY <1>6, <2>3, <2>5, <3>1, SMT DEF DependenciesSatisfied, State
    <3> QED
      BY <3>1, <3>2 DEF DependenciesSatisfied, State
  <2>6. ASSUME NEW i \in Ids
        PROVE  ProcessFits(i)' /\ TreeFits(i)'
    <3>1. ProcessFits(i) /\ TreeFits(i)
      BY DEF LegacyInv, RowsInv
    <3>2. CASE i = k
      <4>1. ProcessFits(k)'
        BY <1>0, <1>2, <1>6, <2>2, <2>3, <2>4, <2>5, LegacyAssumption
           DEF ProcessFits, State, Running, RunningStates, PendingStates
      <4>2. TreeFits(k)'
        BY <1>0, <1>2, <1>6, <2>2, <2>3
        DEF TreeFits, State, RunningStates, PendingStates
      <4> QED
        BY <3>2, <4>1, <4>2
    <3>3. CASE i # k
      BY <1>0, <2>3, <2>5, <3>1, <3>3 DEF ProcessFits, TreeFits, State, Running
    <3> QED
      BY <3>2, <3>3
  <2>7. OneItemPerGpu'
    <3>1. OneItemPerGpu
      BY DEF LegacyInv
    <3>2. ASSUME NEW i \in Ids \ {k}, Running(i)'
          PROVE  Running(i) /\ items'[i].gpu = items[i].gpu /\ items[i].gpu # g
      BY <2>3, <2>4, <3>2 DEF Running, State, OnGpu
    <3> QED
      BY <2>2, <2>3, <3>1, <3>2, SMT DEF OneItemPerGpu
  <2>8. /\ sched' \in SchedRow /\ sched'.at = "spawn" /\ sched'.item = k
        /\ sched'.avail = sched.avail
    BY <1>1, <1>2, <2>1 DEF Go, SchedRow, Points, Starting
  <2>9. \A h \in sched'.avail : OnGpu(h)' = {}
    BY <2>2, <2>3, <2>4, <2>8, SMT DEF OnGpu, Running, State
  <2>10. ~items'[k].pid
    BY <1>2, <1>6, <2>2, <2>3 DEF ProcessFits, Running, RunningStates
  <2>11. DispatchInv'
    BY <2>2, <2>3, <2>8, <2>9, <2>10 DEF DispatchInv, Choosing, Starting, State
  <2>12. SeenInv' /\ CleanInv'
    BY <2>8, NothingToSee DEF Reconciling, Cleaning
  <2>13. ReservationInv'
    <3> SUFFICES ASSUME NEW h \in Gpus, resv'[h].status = "pending"
                 PROVE  /\ resv[h].item \in Ids
                        /\ items'[resv[h].item].state = "yielding"
                        /\ items'[resv[h].item].request = resv[h].request
                        /\ items'[resv[h].item].gpu = h
      BY <1>0 DEF ReservationInv, PendingReservationHasYielder, State
    <3>1. /\ resv[h].item \in Ids /\ State(resv[h].item) = "yielding"
          /\ items[resv[h].item].request = resv[h].request /\ items[resv[h].item].gpu = h
      BY <1>0 DEF LegacyInv, ReservationInv, PendingReservationHasYielder
    <3> QED
      BY <1>6, <2>3, <3>1 DEF State
  <2>14. CommandInv'
    <3> SUFFICES ASSUME NEW o \in Operators
                 PROVE  OwesFits(o)'
      BY DEF CommandInv
    <3>1. OwesFits(o) /\ \A i \in Ids : items'[i].dropped = items[i].dropped
      BY <2>2, <2>3 DEF LegacyInv, CommandInv
    <3> QED
      BY <1>0, <3>1 DEF OwesFits, Cleaning
  <2>15. ActorTypes' /\ RowsInv' /\ SchedInv'
    BY <1>0, <2>6, <2>8, <2>11, <2>12 DEF LegacyInv, ActorTypes, RowsInv, SchedInv
  <2> QED
    BY <1>4, <2>3, <2>7, <2>13, <2>14, <2>15 DEF LegacyInv
<1> QED
  BY <1>5, <1>6

LEMMA StartingItem ==
    ASSUME LegacyInv, sched.at \in Starting
    PROVE  /\ WorldTypes /\ ItemTypes /\ sched \in SchedRow
           /\ sched.item \in Ids /\ State(sched.item) \in {"starting", "terminating", "force_killing"}
           /\ items[sched.item] \in ItemRow /\ ProcessFits(sched.item) /\ TreeFits(sched.item)
           /\ \A g \in sched.avail : OnGpu(g) = {}
BY DEF LegacyInv, ActorTypes, SchedInv, DispatchInv, ItemTypes, RowsInv

LEMMA SpawnExecutorInv ==
    ASSUME LegacyInv, SpawnExecutor
    PROVE  LegacyInv'
<1>0. sched.at = "spawn" /\ sched.at \in Starting /\ UNCHANGED <<git, allow, resv, ops>>
  BY DEF SpawnExecutor, Starting
<1>1. PICK k \in Ids : k = sched.item
  BY <1>0, StartingItem
<1>2. /\ WorldTypes /\ ItemTypes /\ sched \in SchedRow
      /\ State(k) \in {"starting", "terminating", "force_killing"}
      /\ items[k] \in ItemRow /\ ProcessFits(k) /\ TreeFits(k)
      /\ \A g \in sched.avail : OnGpu(g) = {}
  BY <1>0, <1>1, StartingItem
<1>3. CASE job' = [job EXCEPT ![k].exec = "live"] /\ Go("record") /\ UNCHANGED <<items, host, locks>>
  <2>1. /\ job' \in [Ids -> JobRow] /\ \A i \in Ids : job'[i].answer = job[i].answer
        /\ \A i \in Ids \ {k} : job'[i] = job[i]
    BY <1>2, <1>3, SMT DEF WorldTypes, JobRow
  <2>2. WorldTypes'
    BY <1>0, <1>2, <1>3, <2>1 DEF WorldTypes
  <2>3. /\ sched' \in SchedRow /\ sched'.at = "record" /\ sched'.item = k
        /\ sched'.avail = sched.avail
    BY <1>1, <1>2, <1>3 DEF Go, SchedRow, Points, Starting
  <2>4. \A g \in sched'.avail : OnGpu(g)' = {}
    BY <1>2, <1>3, <2>3, SameRowsGentle, GpusStayFree
  <2>5. DispatchInv'
    BY <1>2, <1>3, <2>3, <2>4 DEF DispatchInv, Choosing, Starting, State
  <2>6. SeenInv' /\ CleanInv'
    BY <2>3, NothingToSee DEF Reconciling, Cleaning
  <2>7. Running(k) /\ (job'[k].answer = "ready" => items[k].segment < MaxSegments)
    BY <1>2, <2>1 DEF Running, RunningStates, ProcessFits
  <2> QED
    BY <1>0, <1>3, <2>1, <2>2, <2>3, <2>5, <2>6, <2>7, SchedOnly DEF SchedInv
<1>4. CASE /\ items' = [items EXCEPT ![k].state = "failed"]
           /\ host' = [host EXCEPT !.paused = TRUE]
           /\ locks' = locks \ {sched.gpu}
           /\ sched' = [sched EXCEPT !.at = "tree", !.back = "idle", !.gpu = None, !.avail = {}]
           /\ UNCHANGED job
  <2> DEFINE row == [items[k] EXCEPT !.state = "failed"]
  <2>1. items' = [items EXCEPT ![k] = row]
    BY <1>2, <1>4 DEF ItemTypes
  <2>2. /\ row \in ItemRow /\ row.state = "failed"
        /\ row.deps = items[k].deps /\ row.segment = items[k].segment
        /\ row.pid = items[k].pid /\ row.path = items[k].path
        /\ row.removed = items[k].removed /\ row.error = items[k].error
        /\ row.dropped = items[k].dropped
    BY <1>2 DEF ItemRow, States, TerminalStates, FinishedStates
  <2> HIDE DEF row
  <2>3. /\ ItemTypes' /\ items'[k] = row /\ \A i \in Ids \ {k} : Bystander(i)
    BY <1>2, <2>1, <2>2, PutRow
  <2>4. ~items[k].pid
    BY <1>0, <1>1 DEF LegacyInv, SchedInv, DispatchInv
  <2>5. Gentle(k)
    BY <1>2, <2>2, <2>3 DEF Gentle, State, Running, RunningStates, FinishedStates
  <2>6. ProcessFits(k)'
    BY <1>2, <1>4, <2>2, <2>3, <2>4 DEF ProcessFits, State, Running, RunningStates, PendingStates
  <2>7. TreeFits(k)' /\ Cleanable(k)'
    BY <1>0, <1>2, <2>2, <2>3
    DEF TreeFits, Cleanable, State, RunningStates, PendingStates,
         FinishedStates
  <2>8. ResvKept
    <3>1. \A g \in Gpus : ~(resv[g].status = "pending" /\ resv[g].item = k)
      BY <1>2, NoReservationFor
    <3> QED
      BY <1>0, <2>3, <3>1, OneRowResv
  <2>9. /\ sched' \in SchedRow /\ sched'.at = "tree" /\ sched'.item = k
        /\ sched'.back = "idle" /\ sched'.avail = {}
    BY <1>1, <1>2, <1>4 DEF SchedRow, Points, Cleaning
  <2>10. SchedInv'
    <3>1. SeenInv' /\ DispatchInv'
      BY <2>9 DEF SeenInv, DispatchInv, Reconciling, Cleaning, Choosing, Starting
    <3>2. CleanInv'
      BY <2>7, <2>9 DEF CleanInv
    <3> QED
      BY <3>1, <3>2 DEF SchedInv
  <2>11. WorldTypes'
    BY <1>0, <1>2, <1>4 DEF WorldTypes, HostRow
  <2> QED
    BY <1>0, <1>4, <2>3, <2>5, <2>6, <2>7, <2>8, <2>9, <2>10, <2>11, SchedPut
<1> QED
  BY <1>1, <1>3, <1>4 DEF SpawnExecutor

LEMMA RecordLaunchInv ==
    ASSUME LegacyInv, RecordLaunch
    PROVE  LegacyInv'
<1>0. sched.at \in Starting /\ UNCHANGED <<job, git, allow, resv, host, locks, ops>>
  BY DEF RecordLaunch, Starting
<1>1. PICK k \in Ids : k = sched.item
  BY <1>0, StartingItem
<1>2. /\ WorldTypes /\ ItemTypes /\ sched \in SchedRow
      /\ State(k) \in {"starting", "terminating", "force_killing"}
      /\ items[k] \in ItemRow /\ ProcessFits(k) /\ TreeFits(k)
      /\ \A g \in sched.avail : OnGpu(g) = {}
  BY <1>0, <1>1, StartingItem
<1>3. PICK s \in {"running", "terminating", "force_killing"} : s = NextState(State(k))
  BY <1>2 DEF NextState
<1> DEFINE row == [items[k] EXCEPT !.state = s, !.pid = TRUE, !.started = TRUE]
<1>4. items' = [items EXCEPT ![k] = row]
  BY <1>1, <1>2, <1>3 DEF RecordLaunch, ItemTypes, State
<1>5. /\ row \in ItemRow /\ row.state = s
      /\ row.deps = items[k].deps /\ row.segment = items[k].segment
      /\ row.gpu = items[k].gpu /\ row.path = items[k].path
      /\ row.removed = items[k].removed /\ row.error = items[k].error
      /\ row.dropped = items[k].dropped
  BY <1>2, ZenonT(40) DEF ItemRow, States, RunningStates
<1> HIDE DEF row
<1>6. /\ ItemTypes' /\ items'[k] = row /\ \A i \in Ids \ {k} : Bystander(i)
  BY <1>2, <1>4, <1>5, PutRow
<1>7. Gentle(k) /\ Running(k)
  BY <1>2, <1>5, <1>6 DEF Gentle, State, Running, RunningStates, FinishedStates
<1>8. (Running(k) => DependenciesSatisfied(k)') => ProcessFits(k)'
  BY <1>0, <1>2, <1>5, <1>6, <1>7
  DEF ProcessFits, State, Running, RunningStates, PendingStates
<1>9. TreeFits(k)'
  BY <1>0, <1>2, <1>5, <1>6 DEF TreeFits, State, RunningStates, PendingStates
<1>10. ResvKept
  <2>1. \A g \in Gpus : ~(resv[g].status = "pending" /\ resv[g].item = k)
    BY <1>2, NoReservationFor
  <2> QED
    BY <1>0, <1>6, <2>1, OneRowResv
<1>11. WorldTypes'
  BY <1>0, <1>2 DEF WorldTypes
<1>12. sched' \in SchedRow /\ ((\A i \in Ids : Gentle(i)) => SchedInv')
  <2>1. CASE NextGpu
    <3>1. sched' \in SchedRow
      BY <1>2, <2>1 DEF NextGpu, SchedRow, Points
    <3> QED
      BY <2>1, <3>1, NextGpuInv
  <2>2. CASE sched' = [sched EXCEPT !.at = "signal", !.bad = State(k) = "force_killing"]
    <3>1. PICK bad \in BOOLEAN : sched' = [sched EXCEPT !.at = "signal", !.bad = bad]
      BY <2>2
    <3>2. /\ sched' \in SchedRow /\ sched'.at = "signal" /\ sched'.item = k
          /\ sched'.avail = sched.avail
      BY <1>1, <1>2, <3>1 DEF SchedRow, Points
    <3>3. ASSUME \A i \in Ids : Gentle(i)
          PROVE  DispatchInv'
      <4>1. \A g \in sched'.avail : OnGpu(g)' = {}
        BY <1>2, <3>2, <3>3, GpusStayFree
      <4> QED
        BY <3>2, <4>1 DEF DispatchInv, Choosing, Starting
    <3>4. SeenInv' /\ CleanInv'
      BY <3>2, NothingToSee DEF Reconciling, Cleaning
    <3> QED
      BY <3>2, <3>3, <3>4 DEF SchedInv
  <2> QED
    BY <1>1, <2>1, <2>2 DEF RecordLaunch
<1> QED
  BY <1>0, <1>6, <1>7, <1>8, <1>9, <1>10, <1>11, <1>12, SchedPut

LEMMA SignalAfterLaunchInv ==
    ASSUME LegacyInv, SignalAfterLaunch
    PROVE  LegacyInv'
<1>0. WorldTypes /\ sched.item \in Ids
  BY DEF LegacyInv, SchedInv, DispatchInv, SignalAfterLaunch
<1>1. UNCHANGED <<items, git, allow, resv, host, locks, ops>> /\ NextGpu
  BY DEF SignalAfterLaunch
<1>2. PICK s \in {"kill", "int"} : job' = Signalled(sched.item, s, TRUE)
  BY DEF SignalAfterLaunch
<1>3. /\ job' \in [Ids -> JobRow]
      /\ \A i \in Ids :
           /\ job'[i].exit = job[i].exit /\ job'[i].answer = job[i].answer
           /\ job'[i].exec = job[i].exec \/ job[i].exec # "none"
           /\ job[i].answer = "ready" => items[i].segment < MaxSegments
  BY <1>0, <1>2, SignalledFacts
<1>4. WorldTypes'
  BY <1>0, <1>1, <1>3 DEF WorldTypes
<1>5. sched' \in SchedRow /\ SchedInv'
  BY <1>1, SameRowsGentle, NextGpuInv
<1> QED
  BY <1>1, <1>3, <1>4, <1>5, SchedOnly

LEMMA SchedulerCleansInv ==
    ASSUME LegacyInv,
           CleanTree("scheduler") \/ CleanRef("scheduler") \/ CleanMark("scheduler")
    PROVE  LegacyInv'
<1>0. /\ SeenInv /\ CleanInv /\ DispatchInv /\ sched \in SchedRow
      /\ DOMAIN sched.seen \subseteq Ids /\ WorldTypes /\ ItemTypes
  BY SchedFacts
<1>1. Cleaner("scheduler") = sched
  BY DEF Cleaner
<1>2. sched.at \in Cleaning /\ UNCHANGED <<job, allow, resv, host, locks, ops>>
  BY <1>1 DEF CleanTree, CleanRef, CleanMark, CleanerMoves, Cleaning
<1>3. PICK k \in Ids : k = sched.item
  BY <1>0, <1>2 DEF CleanInv
<1>4. /\ items[k] \in ItemRow /\ git[k] \in GitRow /\ ProcessFits(k) /\ TreeFits(k)
      /\ Cleanable(k)
      /\ sched.back # "idle" => k \notin DOMAIN sched.seen
      /\ ~items[k].dropped => /\ sched.at = "ref" => git[k].tree = "none"
                              /\ sched.at = "mark" /\ ~sched.bad =>
                                   ~git[k].ref /\ git[k].tree = "none"
  BY <1>0, <1>2, <1>3 DEF ItemTypes, WorldTypes, LegacyInv, RowsInv, CleanInv
<1>5. CASE CleanTree("scheduler") \/ CleanRef("scheduler")
  <2>1. UNCHANGED items
    BY <1>5 DEF CleanTree, CleanRef
  <2>2. PICK at \in {"ref", "mark"}, bad \in BOOLEAN :
          /\ sched' = [sched EXCEPT !.at = at, !.bad = bad]
          /\ sched.at = "tree" /\ at = "ref" => git'[k].tree = "none"
          /\ sched.at = "ref" /\ at = "mark" /\ ~bad => git' = [git EXCEPT ![k].ref = FALSE]
          /\ sched.at = "ref" => at = "mark" /\ (bad => git' = git)
          /\ sched.at = "tree" /\ at = "mark" => bad
    <3>1. CASE CleanTree("scheduler")
      <4>1. git[k].tree # "none" /\ git' = [git EXCEPT ![k] = Gone(@)] => git'[k].tree = "none"
        BY <1>0 DEF WorldTypes, GitRow, Gone
      <4> QED
        BY <1>1, <1>3, <3>1, <4>1 DEF CleanTree, CleanerMoves
    <3>2. CASE CleanRef("scheduler")
      BY <1>1, <1>3, <3>2 DEF CleanRef, CleanerMoves
    <3> QED
      BY <1>5, <3>1, <3>2
  <2>3. git \in [Ids -> GitRow]
    BY <1>0 DEF WorldTypes
  <2>4. /\ git' \in [Ids -> GitRow]
        /\ \A i \in Ids \ {k} : git'[i].ref = git[i].ref /\ git'[i].tree = git[i].tree
        /\ sched.at = "tree" =>
             /\ git'[k].ref = git[k].ref /\ (git[k].tree = "none" => git'[k].tree = "none")
             /\ at = "ref" => git'[k].tree = "none"
             /\ at = "mark" => bad
        /\ sched.at = "ref" =>
             /\ at = "mark" /\ git'[k].tree = git[k].tree
             /\ bad \/ ~git'[k].ref
             /\ git'[k].ref => git[k].ref
             /\ git'[k].ref \/ ~git[k].ref \/ ~bad
        /\ sched.at \in {"tree", "ref"}
    <3>1. CASE CleanTree("scheduler")
      <4>1. sched.at = "tree"
        BY <1>1, <3>1 DEF CleanTree
      <4> QED
        BY <1>1, <1>3, <2>2, <2>3, <3>1, <4>1, TreeStep
    <3>2. CASE CleanRef("scheduler")
      <4>1. sched.at = "ref"
        BY <1>1, <3>2 DEF CleanRef
      <4>2. CASE bad
        BY <2>2, <2>3, <4>1, <4>2
      <4>3. CASE ~bad
        <5>1. [git[k] EXCEPT !.ref = FALSE] \in GitRow
          BY <1>4 DEF GitRow
        <5>2. git'[k].ref = FALSE /\ git'[k].tree = git[k].tree
          BY <2>2, <2>3, <4>1, <4>3 DEF GitRow
        <5> QED
          BY <2>2, <2>3, <4>1, <4>3, <5>1, <5>2
      <4> QED
        BY <4>2, <4>3
    <3> QED
      BY <1>5, <3>1, <3>2
  <2>5. /\ sched' \in SchedRow /\ sched'.at = at /\ sched'.bad = bad /\ sched'.item = k
        /\ sched'.seen = sched.seen /\ sched'.back = sched.back /\ sched'.avail = sched.avail
    BY <1>0, <1>3, <2>2 DEF SchedRow, Points, Cleaning
  <2>6. WorldTypes' /\ ItemTypes'
    BY <1>0, <1>2, <2>1, <2>4 DEF WorldTypes, ItemTypes
  <2>7. TreeFits(k)'
    BY <1>4, <2>1, <2>4
    DEF TreeFits, Cleanable, State, FinishedStates, PendingStates, RunningStates
  <2>8. (Running(k) => DependenciesSatisfied(k)') => ProcessFits(k)'
    BY <1>2, <1>4, <2>1 DEF ProcessFits, State, Running
  <2>9. ResvKept
    BY <1>2, <2>1 DEF ResvKept
  <2>10. \A i \in Ids : Bystander(i)
    BY <2>1 DEF Bystander
  <2>11. \A i \in Ids : Gentle(i)
    BY <2>1, SameRowsGentle
  <2>12. \A i : (Cleanable(i)' <=> Cleanable(i)) /\ (Running(i)' <=> Running(i))
    BY <2>1 DEF Cleanable, Running, State
  <2>13. SeenInv'
    BY <1>0, <1>2, <2>5, <2>12 DEF SeenInv, Reconciling, Cleaning
  <2>14. CleanInv'
    BY <1>4, <2>1, <2>4, <2>5, <2>12 DEF CleanInv
  <2>15. DispatchInv'
    BY <2>5, <2>11, NothingToDispatch DEF Choosing, Starting
  <2>16. SchedInv'
    BY <2>13, <2>14, <2>15 DEF SchedInv
  <2> QED
    BY <1>2, <2>4, <2>5, <2>6, <2>7, <2>8, <2>9, <2>10, <2>11, <2>16, SchedPut
<1>6. CASE CleanMark("scheduler")
  <2>1. PICK removed \in BOOLEAN, error \in BOOLEAN :
          /\ items' = [items EXCEPT ![k] = [items[k] EXCEPT !.removed = removed, !.error = error]]
          /\ \/ sched.bad /\ removed = items[k].removed /\ error = TRUE
             \/ ~sched.bad /\ removed = TRUE /\ error = FALSE
    <3>1. CASE sched.bad
      <4>1. items' = [items EXCEPT ![k].error = TRUE] /\ items[k].removed \in BOOLEAN
        BY <1>1, <1>3, <1>4, <1>6, <3>1 DEF CleanMark, ItemRow
      <4>2. [items[k] EXCEPT !.error = TRUE]
              = [items[k] EXCEPT !.removed = items[k].removed, !.error = TRUE]
        BY <1>4 DEF ItemRow
      <4> QED
        BY <1>0, <3>1, <4>1, <4>2 DEF ItemTypes
    <3>2. CASE ~sched.bad
      BY <1>0, <1>1, <1>3, <1>6, <3>2 DEF CleanMark, ItemTypes
    <3> QED
      BY <3>1, <3>2
  <2> DEFINE row == [items[k] EXCEPT !.removed = removed, !.error = error]
  <2>2. /\ row \in ItemRow /\ row.state = State(k) /\ row.deps = items[k].deps
        /\ row.segment = items[k].segment /\ row.gpu = items[k].gpu
        /\ row.pid = items[k].pid /\ row.request = items[k].request
        /\ row.path = items[k].path /\ row.dropped = items[k].dropped
        /\ row.removed = removed /\ row.error = error
    BY <1>4 DEF ItemRow, State
  <2>3. /\ items' = [items EXCEPT ![k] = row] /\ git' \in [Ids -> GitRow]
        /\ \A i \in Ids : git'[i].ref = git[i].ref /\ git'[i].tree = git[i].tree
    <3>1. UNCHANGED git \/ \E lost : git' = Pruned(lost)
      BY <1>6 DEF CleanMark
    <3>2. git \in [Ids -> GitRow]
      BY <1>0 DEF WorldTypes
    <3> QED
      BY <2>1, <3>1, <3>2, PrunedFacts
  <2> HIDE DEF row
  <2>4. /\ ItemTypes' /\ items'[k] = row
        /\ \A i \in Ids \ {k} : Bystander(i) /\ items'[i] = items[i]
    BY <1>0, <2>2, <2>3, PutRow DEF ItemTypes
  <2>5. Gentle(k)
    BY <2>2, <2>4 DEF Gentle, State, Running
  <2>6. (Running(k) => DependenciesSatisfied(k)') => ProcessFits(k)'
    BY <1>2, <1>4, <2>2, <2>4 DEF ProcessFits, State, Running
  <2>7. TreeFits(k)'
    <3>1. sched.at = "mark"
      BY <1>1, <1>6 DEF CleanMark
    <3> QED
      BY <1>4, <2>1, <2>2, <2>3, <2>4, <3>1 DEF TreeFits, Cleanable, State, FinishedStates,
           PendingStates, RunningStates
  <2>8. ResvKept
    BY <1>2, <2>2, <2>4, OneRowResv DEF State
  <2>9. WorldTypes'
    BY <1>0, <1>2, <2>3 DEF WorldTypes
  <2>10. sched' \in SchedRow /\ ((\A i \in Ids : Gentle(i)) => SchedInv')
    <3>1. CASE sched.back = "idle"
      <4>1. sched' = [Down EXCEPT !.at = "idle", !.item = 0, !.bad = FALSE]
        BY <1>6, <3>1 DEF CleanMark
      <4>2. /\ sched' \in SchedRow /\ sched'.at = "idle" /\ sched'.avail = {}
        BY <4>1, DownFacts DEF SchedRow, Points
      <4>3. DispatchInv'
        BY <4>2 DEF DispatchInv, Choosing, Starting
      <4>4. SeenInv' /\ CleanInv'
        BY <4>2, NothingToSee DEF Reconciling, Cleaning
      <4> QED
        BY <4>2, <4>3, <4>4 DEF SchedInv
    <3>2. CASE sched.back # "idle"
      <4>0. sched.back \in {"reconcile", "sweep"} /\ k \notin DOMAIN sched.seen
        BY <1>0, <1>4, <3>2 DEF SchedRow
      <4>1. sched' = [sched EXCEPT !.at = sched.back, !.item = 0, !.bad = FALSE]
        BY <1>6, <3>2 DEF CleanMark
      <4>2. /\ sched' \in SchedRow /\ sched'.at = sched.back /\ sched'.back = sched.back
            /\ sched'.seen = sched.seen /\ sched'.avail = sched.avail
        BY <1>0, <4>0, <4>1 DEF SchedRow, Points, Reconciling
      <4>3. \A i \in DOMAIN sched.seen : items'[i] = items[i]
        BY <1>0, <2>4, <4>0
      <4>4. \A i \in DOMAIN sched.seen : /\ Running(i)' <=> Running(i)
                                         /\ Cleanable(i)' <=> Cleanable(i)
        BY <4>3 DEF Cleanable, Running, State
      <4>5. SeenInv'
        BY <1>0, <1>2, <4>0, <4>2, <4>4 DEF SeenInv, Reconciling, Cleaning
      <4>6. CleanInv'
        BY <4>0, <4>2, NothingToClean DEF Cleaning
      <4>7. (\A i \in Ids : Gentle(i)) => DispatchInv'
        BY <4>0, <4>2, NothingToDispatch DEF Choosing, Starting
      <4> QED
        BY <4>2, <4>5, <4>6, <4>7 DEF SchedInv
    <3> QED
      BY <3>1, <3>2
  <2> QED
    BY <1>2, <2>3, <2>4, <2>5, <2>6, <2>7, <2>8, <2>9, <2>10, SchedPut
<1> QED
  BY <1>5, <1>6

\* A Git command of the scheduler is broken off, and the scheduler with it.
LEMMA SchedulerTimesOutInv ==
    ASSUME LegacyInv, GitTimesOut("scheduler")
    PROVE  LegacyInv'
<1>0. CleanInv /\ DispatchInv /\ WorldTypes
  BY SchedFacts
<1>1. Cleaner("scheduler") = sched
  BY DEF Cleaner
<1>2. /\ UNCHANGED <<items, job, allow, resv, host, ops>> /\ sched' = Down /\ locks' \subseteq Gpus
      /\ sched.at \in {"tree", "prepare"}
  BY <1>1 DEF GitTimesOut
<1>3. PICK k \in Ids : k = sched.item
  BY <1>0, <1>2 DEF CleanInv, DispatchInv, Cleaning, Choosing
<1>4. TreeFits(k) /\ git \in [Ids -> GitRow]
  BY <1>0 DEF LegacyInv, RowsInv, WorldTypes
<1>5. /\ git' \in [Ids -> GitRow]
      /\ \A i \in Ids \ {k} : git'[i].ref = git[i].ref /\ git'[i].tree = git[i].tree
      /\ git'[k].ref = git[k].ref
      /\ sched.at = "tree" /\ git[k].tree = "none" => git'[k].tree = "none"
  BY <1>1, <1>3, <1>4, TreeStep
<1>6. TreeFits(k)'
  <2>1. CASE sched.at = "tree"
    <3>1. Cleanable(k)
      BY <1>0, <1>3, <2>1 DEF CleanInv, Cleaning
    <3> QED
      BY <1>2, <1>4, <1>5, <2>1, <3>1
      DEF TreeFits, Cleanable, State, FinishedStates, PendingStates, RunningStates
  <2>2. CASE sched.at = "prepare"
    <3>1. State(k) \in PendingStates \union {"removed"}
      BY <1>0, <1>3, <2>2 DEF DispatchInv, Choosing
    <3>2. git[k].ref /\ git' = [git EXCEPT ![k].tree = "partial", ![k].registered = TRUE]
      BY <1>1, <1>3, <2>2 DEF GitTimesOut
    <3>3. git'[k].tree = "partial"
      BY <1>4, <3>2 DEF GitRow
    <3> QED
      BY <1>2, <1>4, <1>5, <3>1, <3>2, <3>3 DEF TreeFits, State, PendingStates
  <2> QED
    BY <1>2, <2>1, <2>2
<1>7. sched' \in SchedRow /\ SchedInv'
  BY <1>2, RestInv
<1> QED
  BY <1>2, <1>5, <1>6, <1>7, GitStepInv

-----------------------------------------------------------------------------
(***************************************************************************)
(* The invariant holds.                                                    *)
(***************************************************************************)

LEMMA CommandStepInv ==
    ASSUME LegacyInv, NEW o \in Operators, Command(o) \/ OperatorFinishes(o)
    PROVE  LegacyInv'
<1>1. CASE OperatorFinishes(o)
  BY <1>1, WriteRequestInv, SendSignalInv, OperatorCleansInv DEF OperatorFinishes
<1>2. ASSUME NEW i \in Ids, NEW e \in Experiments, NEW deps \in SUBSET Admitted,
             NEW held \in BOOLEAN, NEW preemptible \in BOOLEAN, NEW again \in BOOLEAN,
             AddExperiment(o, i, e, deps, held, preemptible, again)
      PROVE  LegacyInv'
  BY <1>2, AddExperimentInv
<1>3. ASSUME NEW i \in Ids, HoldItem(o, i) \/ ReleaseItem(o, i)
      PROVE  LegacyInv'
  BY <1>3, TransitionInv DEF HoldItem, ReleaseItem, PendingStates
<1>4. ASSUME NEW i \in Ids, RemoveItem(o, i) \/ RequestPreemption(o, i)
      PROVE  LegacyInv'
  BY <1>4, RemoveItemInv, RequestPreemptionInv
<1>5. ASSUME NEW i \in Ids, NEW n \in Priorities, SetPriority(o, i, n)
      PROVE  LegacyInv'
  BY <1>5, SetPriorityInv
<1>6. ASSUME NEW i \in Ids, NEW force \in BOOLEAN, RequestTermination(o, i, force)
      PROVE  LegacyInv'
  BY <1>6, RequestTerminationInv
<1>7. ASSUME NEW g \in Gpus, ReserveGpu(o, g)
      PROVE  LegacyInv'
  BY <1>7, ReserveGpuInv
<1>8. ASSUME \/ \E paused \in BOOLEAN : SetDispatchPaused(o, paused)
             \/ \E g \in Gpus : AllowGpu(o, g) \/ DisallowGpu(o, g) \/ ReleaseReservation(o, g)
      PROVE  LegacyInv'
  BY <1>8, HostCommandInv
<1> QED
  BY <1>1, <1>2, <1>3, <1>4, <1>5, <1>6, <1>7, <1>8, SMT DEF Command

LEMMA SchedulerStepInv ==
    ASSUME LegacyInv, SchedulerStep
    PROVE  LegacyInv'
<1>1. CASE BeginIteration \/ LookForReceipt \/ ProbeProcess \/ FinalizeYield \/ YieldSuperseded
           \/ FinalizeItem \/ BeginSweep \/ Sweep \/ BeginYields \/ ReconcileYield
           \/ EndYields
  BY <1>1, BeginIterationInv, ReconcilingInv, FinalizeYieldInv, FinalizeItemInv,
     BeginSweepInv, SweepInv, YieldsInv, ReconcileYieldInv
<1>2. CASE GraceOver \/ RecordEscalation \/ SkipPoll \/ PausePoll \/ Poll \/ NextItem
           \/ PrepareTree \/ RecordTree \/ IdentityMismatch
  BY <1>2, GraceOverInv, RecordEscalationInv, RestingInv, PollInv, NextItemInv,
     PrepareTreeInv, RecordTreeInv, IdentityMismatchInv
<1>3. CASE LockGpu \/ ClaimItem \/ SpawnExecutor \/ RecordLaunch \/ SignalAfterLaunch
  BY <1>3, LockGpuInv, ClaimItemInv, SpawnExecutorInv, RecordLaunchInv, SignalAfterLaunchInv
<1>4. CASE CleanTree("scheduler") \/ CleanRef("scheduler") \/ CleanMark("scheduler")
           \/ GitTimesOut("scheduler")
  BY <1>4, SchedulerCleansInv, SchedulerTimesOutInv
<1> QED
  BY <1>1, <1>2, <1>3, <1>4 DEF SchedulerStep

LEMMA StutterInv ==
    ASSUME LegacyInv, UNCHANGED vars
    PROVE  LegacyInv'
<1>1. UNCHANGED <<items, job, git, allow, resv, host, locks, sched, ops>>
  BY DEF vars
<1>2. WorldTypes' /\ ops' \in [Operators -> CommandRow]
  BY <1>1 DEF LegacyInv, WorldTypes, ActorTypes
<1> QED
  BY <1>1, <1>2, QuietInv

LEMMA LegacyStepInv == LegacyInv /\ [Next]_vars => LegacyInv'
<1> SUFFICES ASSUME LegacyInv, [Next]_vars
             PROVE  LegacyInv'
  OBVIOUS
<1>1. CASE UNCHANGED vars
  BY <1>1, StutterInv
<1>2. CASE StartScheduler \/ SchedulerStep
  BY <1>2, RestingInv, SchedulerStepInv
<1>3. CASE Faults
  BY <1>3, JobInv, RestingInv, OperatorDiesInv DEF Faults
<1>4. ASSUME NEW i \in Ids, JobStep(i)
      PROVE  LegacyInv'
  BY <1>4, JobInv
<1>5. ASSUME NEW o \in Operators, Command(o) \/ OperatorFinishes(o)
      PROVE  LegacyInv'
  BY <1>5, CommandStepInv
<1> QED
  BY <1>1, <1>2, <1>3, <1>4, <1>5 DEF Next

LEMMA LegacyInitInv == Init => LegacyInv
<1> SUFFICES ASSUME Init
             PROVE  LegacyInv
  OBVIOUS
<1>1. /\ items = [i \in Ids |-> Absent] /\ job = [i \in Ids |-> NoJob]
      /\ git = [i \in Ids |-> NoGit] /\ resv = [g \in Gpus |-> NoReservation]
      /\ sched = Down /\ ops = [o \in Operators |-> NoCommand]
  BY DEF Init
<1>2. \A i \in Ids : State(i) = "absent" /\ ~items[i].dropped /\ ~items[i].pid
  BY <1>1 DEF State, Absent
<1>3. ItemTypes
  <2>1. Absent \in ItemRow
    <3>1. /\ "absent" \in States /\ 0 \in Priorities /\ 1 \in 1..MaxSegments
          /\ {} \in SUBSET Ids /\ None \in Experiments \union {None}
          /\ None \in Gpus \union {None} /\ None \in Requests \union {None}
          /\ FALSE \in BOOLEAN /\ "none" \in {"none", "interrupt", "terminate", "kill"}
      BY LegacyAssumption, SMT DEF States
    <3> QED
      BY <3>1 DEF Absent, ItemRow
  <2> QED
    BY <1>1, <2>1 DEF ItemTypes
<1>4. WorldTypes
  <2>1. NoJob \in JobRow /\ NoGit \in GitRow /\ NoReservation \in ReservationRow
    BY DEF NoJob, JobRow, NoGit, GitRow, Trees, NoReservation, ReservationRow
  <2>2. host \in HostRow /\ locks \subseteq Gpus /\ allow \in [Gpus -> {"off", "on", "draining"}]
    BY LegacyAssumption, SMT DEF Init, HostRow
  <2> QED
    BY <1>1, <2>1, <2>2 DEF WorldTypes
<1>5. ActorTypes
  <2>1. NoCommand \in CommandRow
    BY DEF NoCommand, CommandRow
  <2> QED
    BY <1>1, <2>1, DownFacts DEF ActorTypes
<1>6. RowsInv /\ OneItemPerGpu
  <2>1. \A i \in Ids : ~Running(i)
    BY <1>2 DEF Running, RunningStates
  <2>2. ASSUME NEW i \in Ids
        PROVE  ProcessFits(i) /\ TreeFits(i)
    <3>1. job[i] = NoJob /\ git[i] = NoGit /\ items[i] = Absent
      BY <1>1
    <3>2. ProcessFits(i)
      BY <3>1, <1>2, <2>1, SMT DEF ProcessFits, NoJob
    <3>3. TreeFits(i)
      <4>1. git[i].tree = "none" /\ ~items[i].removed /\ ~items[i].error
        <5>1. NoGit.tree = "none" /\ ~Absent.removed /\ ~Absent.error
          BY DEF NoGit, Absent
        <5> QED
          BY <3>1, <5>1
      <4> QED
        BY <4>1, <1>2 DEF TreeFits, PendingStates, RunningStates
    <3> QED
      BY <3>2, <3>3
  <2> QED
    BY <2>1, <2>2 DEF RowsInv, OneItemPerGpu
<1>7. SchedInv
  BY <1>1, DownFacts
  DEF SchedInv, SeenInv, CleanInv, DispatchInv, Reconciling, Cleaning,
       Choosing, Starting
<1>8. CommandInv
  BY <1>1 DEF CommandInv, OwesFits, NoCommand, Cleaning
<1>9. ReservationInv
  BY <1>1 DEF ReservationInv, PendingReservationHasYielder, NoReservation
<1> QED
  BY <1>3, <1>4, <1>5, <1>6, <1>7, <1>8, <1>9 DEF LegacyInv

\* The invariant that the theorems about the schema-v4 queue share.
LEMMA LegacyInvariance == Spec => []LegacyInv
BY LegacyInitInv, LegacyStepInv, PTL DEF Spec

\* Rows and processes agree at every step of the schema-v4 queue: only a running
\* row names a process, and a pending item starts its segment from nothing
\* (_reconcile_processes, _finalize_yield, _launch).
THEOREM RowsMatch == Spec => []RowsMatchProcesses
<1>1. ASSUME LegacyInv
      PROVE  RowsMatchProcesses
  <2>1. LegacyTypeOK
    BY <1>1 DEF LegacyInv, ItemTypes, WorldTypes, LegacyTypeOK, ItemRow, States, JobRow, GitRow,
         Trees, ReservationRow, HostRow
  <2>2. ASSUME NEW i \in Ids
        PROVE  /\ items[i].pid => Running(i)
               /\ Running(i) => items[i].gpu # None
               /\ State(i) \in PendingStates => ~Alive(i) /\ job[i].exit = "none"
    <3>1. ProcessFits(i)
      BY <1>1 DEF LegacyInv, RowsInv
    <3> QED
      BY <3>1 DEF ProcessFits, Alive
  <2> QED
    BY <2>1, <2>2 DEF RowsMatchProcesses
<1> QED
  BY <1>1, LegacyInvariance, PTL

\* The cardinality of the items on a GPU is needed below only.
INSTANCE FiniteSetTheorems

\* No two items that run are assigned one GPU, and an item runs only after its
\* dependencies have succeeded, although _poll_and_dispatch reads the free GPUs
\* and _next_item the dependencies some steps before the claim.
THEOREM SoundDispatch == Spec => []DispatchIsSound
<1>1. ASSUME LegacyInv
      PROVE  DispatchIsSound
  <2>1. ASSUME NEW g \in Gpus
        PROVE  Cardinality(OnGpu(g)) <= 1
    <3>1. \A i, j \in OnGpu(g) : i = j
      BY <1>1 DEF LegacyInv, OneItemPerGpu, OnGpu
    <3>2. CASE OnGpu(g) = {}
      BY <3>2, FS_EmptySet, SMT
    <3>3. CASE OnGpu(g) # {}
      <4>1. PICK i \in OnGpu(g) : TRUE
        BY <3>3
      <4>2. OnGpu(g) = {i}
        BY <3>1, <4>1
      <4>3. Cardinality({i}) = 1
        BY FS_Singleton
      <4> QED
        BY <4>2, <4>3, SMT
    <3> QED
      BY <3>2, <3>3
  <2>2. ASSUME NEW i \in Ids, Running(i)
        PROVE  \A d \in items[i].deps : State(d) = "succeeded"
    <3>1. ProcessFits(i)
      BY <1>1 DEF LegacyInv, RowsInv
    <3> QED
      BY <2>2, <3>1 DEF ProcessFits, DependenciesSatisfied
  <2> QED
    BY <2>1, <2>2 DEF DispatchIsSound
<1> QED
  BY <1>1, LegacyInvariance, PTL

\* A pending reservation always has the item that will free its GPU, whatever
\* terminations, failed checkpoints and failed request files come between
\* (request_gpu_reservation).
THEOREM ReservationHasYielder == Spec => []PendingReservationHasYielder
<1>1. LegacyInv => PendingReservationHasYielder
  BY DEF LegacyInv, ReservationInv
<1> QED
  BY <1>1, LegacyInvariance, PTL

\* Cleanup and preparation, interrupted between any two of their writes, leave
\* the ref and the worktree of every item no operator removed as the importer
\* demands them, unless a Git command was broken off inside the directory, a job
\* moved its HEAD, or a prune lost its registration; and a row that says the
\* worktree is removed is right even then (cleanup_item_worktree,
\* _verify_legacy_git_runtime).
THEOREM EvidenceImportable == Spec => []EvidenceStaysImportable
<1>1. ASSUME LegacyInv
      PROVE  EvidenceStaysImportable
  <2> SUFFICES ASSUME NEW i \in Admitted, ~Running(i), ~items[i].dropped
               PROVE  /\ Unharmed(i) => GitRuntimeVerified(Evidence(i))
                      /\ items[i].removed => git[i].tree = "none" /\ ~git[i].ref
    BY DEF EvidenceStaysImportable
  <2> PICK r : r = Evidence(i)
    OBVIOUS
  <2>0. i \in Ids
    BY DEF Admitted
  <2>1. /\ git[i].ref \/ git[i].tree = "none"
        /\ ~(items[i].removed /\ items[i].error)
        /\ items[i].removed => ~git[i].ref /\ git[i].tree = "none"
        /\ State(i) \in PendingStates =>
             /\ git[i].ref /\ ~items[i].removed /\ ~items[i].error
             /\ items[i].path => git[i].tree # "none"
    BY <1>1, <2>0 DEF LegacyInv, RowsInv, TreeFits
  <2> SUFFICES ASSUME Unharmed(i)
               PROVE  GitRuntimeVerified(r)
    BY <2>1
  <2>2. /\ r.state = State(i) /\ r.pinned /\ r.path = items[i].path
        /\ r.removed = items[i].removed /\ r.error = items[i].error
        /\ r.target = IF git[i].ref THEN "commit" ELSE "none"
        /\ r.tree = IF git[i].tree = "none" THEN "absent" ELSE "live"
        /\ r.registered <=> git[i].tree # "none"
    <3>1. git[i].tree \in {"none", "clean", "dirty"} /\ (git[i].registered <=> git[i].tree # "none")
      BY DEF Unharmed
    <3>2. (CASE git[i].tree = "none" -> "absent"
             [] git[i].tree \in {"clean", "dirty"} -> "live"
             [] OTHER -> "wrong") = IF git[i].tree = "none" THEN "absent" ELSE "live"
      BY <3>1, SMT
    <3> QED
      BY <3>1, <3>2 DEF Evidence
  <2>3. r.path \in BOOLEAN /\ r.removed \in BOOLEAN /\ r.error \in BOOLEAN
    BY <1>1, <2>0, <2>2, ZenonT(40) DEF LegacyInv, ItemTypes, ItemRow
  <2>4. ColumnsConsistent(r)
    BY <2>1, <2>2 DEF ColumnsConsistent
  <2>5. r.target \in {"none", "commit"}
    BY <2>2
  <2>6. CASE r.removed
    <3>1. r.target = "none" /\ ~Present(r) /\ ~Listed(r)
      BY <2>1, <2>2, <2>6 DEF Present, Listed
    <3> QED
      BY <2>4, <2>5, <2>6, <3>1 DEF GitRuntimeVerified
  <2>7. CASE ~r.removed /\ Present(r)
    <3>1. r.target = "commit" /\ LiveWorktree(r)
      BY <2>1, <2>2, <2>7 DEF Present, LiveWorktree
    <3> QED
      BY <2>4, <2>5, <2>7, <3>1 DEF GitRuntimeVerified
  <2>8. CASE ~r.removed /\ ~Present(r)
    <3>1. ~Listed(r) /\ (r.state \in PendingStates => ~r.path /\ r.target = "commit")
      BY <2>1, <2>2, <2>8 DEF Present, Listed
    <3> QED
      BY <2>4, <2>5, <2>8, <3>1 DEF GitRuntimeVerified
  <2> QED
    BY <2>3, <2>6, <2>7, <2>8
<1> QED
  BY <1>1, LegacyInvariance, PTL

-----------------------------------------------------------------------------
(***************************************************************************)
(* Terminations are final.                                                 *)
(***************************************************************************)

Stopping == {"terminating", "force_killing"}

\* Where a row that stops may go.
StopKept(i) ==
    /\ State(i) = "terminating" => items'[i].state \in Stopping \union FinishedStates
    /\ State(i) = "force_killing" => items'[i].state \in {"force_killing"} \union FinishedStates

\* Writing one row keeps the others, and its own stop unless it is restarted.
LEMMA StopRow ==
    ASSUME ItemTypes, NEW i \in Ids, NEW row, items' = [items EXCEPT ![i] = row],
           \/ State(i) \notin Stopping
           \/ row.state = State(i)
           \/ row.state \in FinishedStates,
           NEW k \in Ids
    PROVE  StopKept(k)
BY DEF ItemTypes, StopKept, Stopping, State

\* Holding the dependents of an item touches no row that stops.
LEMMA StopHeld ==
    ASSUME NEW i, NEW rows, NEW k \in Ids, items' = HoldDependents(rows, i),
           \/ rows[k] = items[k]
           \/ State(k) \notin Stopping
           \/ rows[k].state \in FinishedStates
    PROVE  StopKept(k)
<1>1. items'[k] = rows[k] \/ rows[k].state \in {"queued", "blocked"}
  BY DEF HoldDependents
<1> QED
  BY <1>1 DEF StopKept, Stopping, State, FinishedStates

LEMMA CommandStops ==
    ASSUME LegacyInv, NEW o \in Operators, Command(o) \/ OperatorFinishes(o), NEW k \in Ids
    PROVE  StopKept(k)
<1>0. ItemTypes /\ items \in [Ids -> ItemRow]
  BY DEF LegacyInv, ItemTypes
<1>1. UNCHANGED items => StopKept(k)
  BY DEF StopKept, State, Stopping
<1>2. ASSUME NEW i \in Ids, NEW e \in Experiments, NEW deps \in SUBSET Admitted,
             NEW held \in BOOLEAN, NEW preemptible \in BOOLEAN, NEW again \in BOOLEAN,
             AddExperiment(o, i, e, deps, held, preemptible, again)
      PROVE  StopKept(k)
  BY <1>0, <1>2, StopRow DEF AddExperiment, Stopping
<1>3. ASSUME NEW i \in Ids, NEW from \in SUBSET PendingStates, NEW to, Transition(o, i, from, to)
      PROVE  StopKept(k)
  BY <1>0, <1>3 DEF Transition, StopKept, State, PendingStates, Stopping, ItemRow
<1>4. ASSUME NEW i \in Ids, HoldItem(o, i) \/ ReleaseItem(o, i)
      PROVE  StopKept(k)
  BY <1>3, <1>4 DEF HoldItem, ReleaseItem, PendingStates
<1>5. ASSUME NEW i \in Ids, RemoveItem(o, i)
      PROVE  StopKept(k)
  <2>1. State(i) \in PendingStates
    BY <1>5 DEF RemoveItem
  <2>2. \/ State(k) \notin Stopping
        \/ [items EXCEPT ![i].state = "removed", ![i].dropped = TRUE][k] = items[k]
    BY <1>0, <2>1 DEF PendingStates, Stopping
  <2> QED
    BY <1>5, <2>2, StopHeld DEF RemoveItem
<1>6. ASSUME NEW i \in Ids, RequestPreemption(o, i)
      PROVE  StopKept(k)
  <2>1. State(i) \notin Stopping /\ \E row : items' = [items EXCEPT ![i] = row]
    BY <1>6 DEF RequestPreemption, Stopping
  <2> QED
    BY <1>0, <2>1, StopRow
<1>7. ASSUME NEW i \in Ids, NEW n \in Priorities, SetPriority(o, i, n)
      PROVE  StopKept(k)
  BY <1>0, <1>7, SMT DEF SetPriority, StopKept, State, Stopping, ItemRow
<1>8. ASSUME NEW i \in Ids, NEW force \in BOOLEAN, RequestTermination(o, i, force)
      PROVE  StopKept(k)
  <2>1. items'[k].state = IF k = i THEN (IF force THEN "force_killing" ELSE "terminating")
                          ELSE State(k)
    BY <1>0, <1>8, SMT DEF RequestTermination, State, ItemRow
  <2>2. State(i) = "force_killing" => force
    BY <1>8 DEF RequestTermination
  <2> QED
    BY <2>1, <2>2 DEF StopKept, Stopping
<1>9. ASSUME NEW g \in Gpus, ReserveGpu(o, g)
      PROVE  StopKept(k)
  <2>1. \/ UNCHANGED items
        \/ \E i \in Ids : State(i) = "running" /\ \E row : items' = [items EXCEPT ![i] = row]
    BY <1>9 DEF ReserveGpu, OnGpu
  <2> QED
    BY <1>0, <1>1, <2>1, StopRow DEF Stopping
<1>10. CASE WriteRequest(o)
  <2>1. PICK i \in Ids : i = ops[o].item
    BY <1>10 DEF WriteRequest, LegacyInv, CommandInv, OwesFits
  <2>2. \/ UNCHANGED items
        \/ \E r : items' = [items EXCEPT ![i] = RestoredRunning(i, r)]
    BY <1>10, <2>1 DEF WriteRequest
  <2>3. \A r : State(i) \in Stopping => RestoredRunning(i, r) = items[i]
    BY DEF RestoredRunning, Stopping
  <2> QED
    BY <1>0, <1>1, <2>2, <2>3, StopRow DEF State
<1>11. CASE CleanMark(o)
  BY <1>0, <1>11, SMT DEF CleanMark, StopKept, State, Stopping, ItemRow
<1>12. CASE SendSignal(o) \/ CleanTree(o) \/ CleanRef(o) \/ GitTimesOut(o)
  BY <1>1, <1>12 DEF SendSignal, CleanTree, CleanRef, GitTimesOut
<1>13. ASSUME \/ \E paused \in BOOLEAN : SetDispatchPaused(o, paused)
              \/ \E g \in Gpus : AllowGpu(o, g) \/ DisallowGpu(o, g) \/ ReleaseReservation(o, g)
       PROVE  StopKept(k)
  BY <1>1, <1>13 DEF SetDispatchPaused, AllowGpu, DisallowGpu, ReleaseReservation
<1> QED
  BY <1>2, <1>4, <1>5, <1>6, <1>7, <1>8, <1>9, <1>10, <1>11, <1>12, <1>13, SMT
     DEF Command, OperatorFinishes

LEMMA SchedulerStops ==
    ASSUME LegacyInv, SchedulerStep, NEW k \in Ids
    PROVE  StopKept(k)
<1>0. ItemTypes /\ items \in [Ids -> ItemRow]
  BY DEF LegacyInv, ItemTypes
<1>1. UNCHANGED items => StopKept(k)
  BY DEF StopKept, State, Stopping
<1>2. CASE BeginIteration \/ LookForReceipt \/ ProbeProcess \/ YieldSuperseded
           \/ BeginSweep \/ Sweep \/ BeginYields \/ EndYields \/ GraceOver \/ SkipPoll \/ PausePoll \/ Poll \/ NextItem
  BY <1>1, <1>2
  DEF BeginIteration, LookForReceipt, ProbeProcess, YieldSuperseded, BeginSweep,
       Sweep, BeginYields, EndYields, GraceOver, SkipPoll, PausePoll, Poll, NextItem
<1>3. CASE \/ PrepareTree \/ LockGpu \/ SignalAfterLaunch
           \/ CleanTree("scheduler") \/ CleanRef("scheduler") \/ GitTimesOut("scheduler")
  BY <1>1, <1>3
  DEF PrepareTree, LockGpu, SignalAfterLaunch, CleanTree, CleanRef, GitTimesOut
<1>4. CASE FinalizeYield
  <2>1. PICK i \in Ids : i = sched.item
    BY <1>4, SchedFacts DEF FinalizeYield, SeenInv
  <2>2. State(i) = "yielding" /\ items' = Requeued(i)
    BY <1>4, <2>1 DEF FinalizeYield, StillYielding
  <2>3. State(i) \notin Stopping /\ \E row : items' = [items EXCEPT ![i] = row]
    BY <2>2 DEF Stopping, Requeued
  <2> QED
    BY <1>0, <2>3, StopRow
<1>5. CASE FinalizeItem
  <2>1. PICK i \in Ids : i = sched.item
    BY <1>5, SchedFacts DEF FinalizeItem, SeenInv
  <2>2. PICK final \in FinishedStates : items' = Finished(i, final)
    BY <1>5, <2>1, FinalStates DEF FinalizeItem
  <2> DEFINE rows == [items EXCEPT ![i].state = final, ![i].pid = FALSE, ![i].request = None]
  <2>3. rows[k] = items[k] \/ rows[k].state \in FinishedStates
    BY <1>0, SMT DEF ItemRow
  <2>4. items' = rows \/ items' = HoldDependents(rows, i)
    BY <2>2 DEF Finished
  <2> HIDE DEF rows
  <2>5. CASE items' = rows
    BY <2>3, <2>5 DEF StopKept, State, Stopping
  <2> QED
    BY <2>3, <2>4, <2>5, StopHeld
<1>6. CASE ReconcileYield
  <2>1. \/ UNCHANGED items
        \/ \E i : /\ State(i) = "yielding"
                 /\ items' = [items EXCEPT ![i].state = "running", ![i].request = None]
    BY <1>6 DEF ReconcileYield
  <2> QED
    BY <1>0, <1>1, <2>1 DEF StopKept, State, Stopping
<1>7. CASE RecordEscalation \/ CleanMark("scheduler")
  BY <1>0, <1>7, SMT DEF RecordEscalation, CleanMark, StopKept, State, Stopping, ItemRow
<1>8. CASE RecordTree \/ IdentityMismatch
  <2>1. /\ sched.item \in Ids
        /\ State(sched.item) \in PendingStates \union {"removed"}
    BY <1>8 DEF RecordTree, IdentityMismatch, LegacyInv, SchedInv, DispatchInv, Choosing
  <2>2. items' = [items EXCEPT ![sched.item] = items'[sched.item]]
    BY <1>0, <1>8, <2>1 DEF RecordTree, IdentityMismatch
  <2>3. PICK i \in Ids : i = sched.item
    BY <2>1
  <2>4. State(i) \notin Stopping /\ \A j \in Ids \ {i} : items'[j] = items[j]
    BY <1>0, <2>1, <2>2, <2>3 DEF Stopping, PendingStates
  <2> QED
    BY <2>4 DEF StopKept, Stopping, State
<1>9. CASE ClaimItem
  <2>1. sched.item \in Ids
    BY <1>9 DEF ClaimItem, LegacyInv, SchedInv, DispatchInv, Choosing
  <2> QED
    BY <1>0, <1>9, <2>1 DEF ClaimItem, StopKept, Stopping, State
<1>10. CASE SpawnExecutor \/ RecordLaunch
  <2>1. sched.item \in Ids
    BY <1>10 DEF SpawnExecutor, RecordLaunch, LegacyInv, SchedInv, DispatchInv, Starting
  <2>2. PICK i \in Ids : i = sched.item
    BY <2>1
  <2>3. CASE SpawnExecutor
    <3>1. UNCHANGED items \/ items' = [items EXCEPT ![i].state = "failed"]
      BY <2>2, <2>3 DEF SpawnExecutor
    <3> QED
      BY <1>0, <1>1, <3>1 DEF StopKept, Stopping, State, ItemRow, FinishedStates
  <2>4. CASE RecordLaunch
    <3>1. items'[k].state = IF k = i THEN NextState(State(k)) ELSE State(k)
      BY <1>0, <2>2, <2>4, SMT DEF RecordLaunch, State, ItemRow
    <3> QED
      BY <3>1 DEF StopKept, Stopping, NextState
  <2> QED
    BY <1>10, <2>3, <2>4
<1> QED
  BY <1>2, <1>3, <1>4, <1>5, <1>6, <1>7, <1>8, <1>9, <1>10 DEF SchedulerStep

LEMMA StopSteps ==
    ASSUME LegacyInv, [Next]_vars, NEW k \in Ids
    PROVE  StopKept(k)
<1>1. UNCHANGED items => StopKept(k)
  BY DEF StopKept, State, Stopping
<1>2. CASE UNCHANGED vars \/ StartScheduler \/ Faults
  BY <1>1, <1>2 DEF vars, StartScheduler, Faults, ExecutorDies, SchedulerDies, StopScheduler,
       OperatorDies
<1>3. ASSUME NEW i \in Ids, JobStep(i)
      PROVE  StopKept(k)
  BY <1>1, <1>3 DEF JobStep, JobAnswers, JobEnds, ExecutorExits, JobDirties
<1> QED
  BY <1>2, <1>3, CommandStops, SchedulerStops DEF Next

\* A termination is final: the item ends, is never requeued or set running
\* again, and a force kill never becomes a graceful one, whatever yield, launch
\* or checkpoint failure is under way (request_termination).
THEOREM StopsAreFinal == Spec => StopIsFinal
<1>1. LegacyInv /\ [Next]_vars =>
        [\A i \in Ids :
           /\ State(i) = "terminating" =>
                State(i)' \in {"terminating", "force_killing"} \union FinishedStates
           /\ State(i) = "force_killing" =>
                State(i)' \in {"force_killing"} \union FinishedStates]_vars
  BY StopSteps DEF StopKept, Stopping, State
<1> QED
  BY <1>1, LegacyInvariance, PTL DEF Spec, StopIsFinal
=============================================================================
