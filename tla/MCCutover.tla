------------------------------ MODULE MCCutover -----------------------------
(***************************************************************************)
(* The schema-v4 queue and the importer that reads what it leaves, on      *)
(* small instances.  Each behaviour explores one scope, chosen in the      *)
(* initial state:                                                          *)
(*   life    one item and its GPU: yields, reservations, terminations      *)
(*   pair    two items with a dependency: order, failure, draining GPUs    *)
(*   tidy    preparation, removal and cleanup of one item's worktree; only *)
(*           here do Git commands break off                                *)
(*   import  the importer, on sources of every kind                        *)
(***************************************************************************)
EXTENDS LegacyQueue, Migration

CONSTANTS e1, e2, g1, g2, r1, r2, o1, o2, p1, p2

VARIABLE scope

mcVars == <<vars, migrationVars, scope>>

(* One row per source: every shape of a pinned or unpinned, pending or     *)
(* finished row that is refused, and one for each accepted disposition.    *)
Row == [state |-> "succeeded", pinned |-> TRUE, path |-> TRUE, removed |-> FALSE, error |-> FALSE,
        target |-> "commit", tree |-> "live", registered |-> TRUE, files |-> "intact"]
Refused ==
    {r \in EvidenceRecords :
        /\ r.state \in {"queued", "succeeded"} /\ r.files = "intact"
        /\ ~r.path => r.tree = "absent" /\ ~r.registered
        /\ ~r.pinned => r.target = "none"
        /\ ~Importable(r)}
    \union {[Row EXCEPT !.state = "running"]}
    \union {[Row EXCEPT !.files = f] : f \in FileStates \ {"intact"}}
Unlisted == [Row EXCEPT !.tree = "absent", !.registered = FALSE]
AcceptedRows ==
    {[Row EXCEPT !.state = "queued"],
     [Unlisted EXCEPT !.state = "queued", !.path = FALSE],
     [Unlisted EXCEPT !.removed = TRUE, !.target = "none"],
     [Unlisted EXCEPT !.pinned = FALSE, !.path = FALSE, !.target = "none"]}
MCSources ==
    [database : {"sound"}, rows : {{}} \union {{r} : r \in Refused \union AcceptedRows}]
    \union [database : {"invalid", "unreadable"}, rows : {{}}]

Legacy == scope # "import"

MCInit ==
    /\ scope \in {"life", "pair", "tidy", "import"}
    /\ Init
    /\ MigrationInit
    /\ Legacy => source = CHOOSE s \in MCSources : TRUE

LifeCommand ==
    \/ AddExperiment(o1, 1, e1, {}, FALSE, TRUE, FALSE)
    \/ ReleaseItem(o1, 1) \/ RequestPreemption(o1, 1)
    \/ \E force \in BOOLEAN : RequestTermination(o1, 1, force)
    \/ SetDispatchPaused(o1, FALSE)
    \/ AllowGpu(o1, g1) \/ ReserveGpu(o1, g1) \/ ReleaseReservation(o1, g1)

PairCommand ==
    \/ AddExperiment(o1, 1, e1, {}, FALSE, FALSE, FALSE)
    \/ \E deps \in SUBSET Admitted : AddExperiment(o1, 2, e2, deps, FALSE, FALSE, FALSE)
    \/ ReleaseItem(o1, 2) \/ RemoveItem(o1, 1)
    \/ \E n \in Priorities : SetPriority(o1, 2, n)
    \/ \E g \in Gpus : AllowGpu(o1, g)
    \/ DisallowGpu(o1, g1)

TidyCommand(o) ==
    \/ \E i \in Ids, again \in BOOLEAN : AddExperiment(o, i, e1, {}, TRUE, FALSE, again)
    \/ HoldItem(o, 1) \/ ReleaseItem(o, 1) \/ RemoveItem(o, 1)
    \/ AllowGpu(o, g1)
    \/ \E paused \in BOOLEAN : SetDispatchPaused(o, paused)

LifeJob == JobEnds(1, "ok") \/ JobEnds(1, "int") \/ JobEnds(1, "yield") \/ ExecutorExits(1)
           \/ \E a \in Answers : JobAnswers(1, a)
PairJob(i) == JobEnds(i, "ok") \/ JobEnds(i, "bad") \/ ExecutorExits(i)
TidyJob == JobEnds(1, "ok") \/ ExecutorExits(1)
           \/ \E tree \in {"dirty", "altered"} : JobDirties(1, tree)

LifeStep == scope = "life" /\ (LifeCommand \/ LifeJob \/ Faults)
PairStep == scope = "pair" /\ (PairCommand \/ \E i \in Ids : PairJob(i))
TidyStep ==
    /\ scope = "tidy"
    /\ \/ \E o \in Operators : TidyCommand(o)
       \/ TidyJob \/ Faults
ImportStep ==
    \/ \E p \in Paths, dry \in BOOLEAN : (runs = 0 => p = p1) /\ Start(p, dry)
    \/ Import
    \/ ForeignAppears \/ ForeignReceipt \/ SourceChanges \/ ProcessDies \/ HostCrashes

MCNext ==
    \/ /\ Legacy
       /\ \/ LifeStep \/ PairStep \/ TidyStep
          \/ \E o \in Operators : OperatorFinishes(o)
          \/ StartScheduler \/ SchedulerStep
       /\ scope # "tidy" => \A i \in Ids : Unharmed(i)'
       /\ UNCHANGED <<migrationVars, scope>>
    \/ /\ ~Legacy
       /\ ImportStep
       /\ UNCHANGED <<vars, scope>>

MCSpec == MCInit /\ [][MCNext]_mcVars
=============================================================================
