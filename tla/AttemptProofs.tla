---------------------------- MODULE AttemptProofs -----------------------------
(***************************************************************************)
(* What the receipts of a segment promise, for any number of operator      *)
(* processes and of crashes. The inductive invariant says what each        *)
(* receipt is at every point of the executor, and what the scheduler may   *)
(* rely on between listing a directory and reading what it found.          *)
(***************************************************************************)
EXTENDS AttemptControl, TLAPS

\* A leaf that names no prover is a first-order step, left to Zenon.
USE Zenon

Stages == {"none", "interrupt", "terminate", "kill"}
Points == {"idle", "write", "start", "spawn", "await", "readLaunch", "record", "readAdopt", "adopt",
           "readExit", "recover", "publish", "publishing", "claim", "signal", "result", "replay",
           "deliver", "down"}
Outcomes == {"none", "exited", "requeued", "isolated", "interrupted", "force_killed", "failed", "launch"}

Rows == [state : {"queued", "ended"} \cup Active, stage : Stages, identity : BOOLEAN,
         forced : BOOLEAN, outcome : Outcomes]
Disks == [payload : Files, request : Files, yield : {"none", "ready"}, launch : Receipts,
          exit : Receipts]
Execs == [phase : {"none", "booting", "announcing", "forking", "replaying", "running", "draining",
                   "reporting", "gone"},
          step : {"none", "start", "stable", "linked", "final"}]
Controls == [pc : Points, listed : BOOLEAN, told : BOOLEAN, stage : Stages]
Jobs == {"none", "running", "rest", "over"}

RowType == row \in Rows
DiskType == disk \in Disks
ExecType == exec \in Execs /\ job \in Jobs
ProcType == proc \in [Procs -> Controls]

Shape == RowType /\ DiskType /\ ExecType /\ ProcType

(* The launch receipt at each point of the executor.                       *)
LaunchInv ==
    /\ disk.launch.final = "volatile" => disk.launch.staging = "kept"
    /\ exec.phase = "booting" => disk.launch.final = "none"
    /\ exec.phase = "announcing" =>
         /\ exec.step \in {"start", "stable"} => disk.launch.final = "none"
         /\ exec.step = "stable" => disk.launch.staging = "kept"
         /\ exec.step = "final" => disk.launch.final = "durable"
    /\ exec.phase \in {"forking", "replaying", "running", "draining", "reporting"} =>
         disk.launch.final = "durable"
    /\ exec.phase \in {"booting", "announcing", "forking"} => job = "none"
    /\ job # "none" => disk.launch.final = "durable"

(* The exit receipt.                                                       *)
ExitInv ==
    /\ disk.exit.final = "volatile" => disk.exit.staging = "kept"
    /\ disk.exit.final # "none" => exec.phase \in {"reporting", "gone"} /\ job \in {"none", "over"}
    /\ exec.phase = "reporting" =>
         /\ job \in {"none", "over"}
         /\ exec.step \in {"start", "stable"} => disk.exit.final = "none"
         /\ exec.step = "stable" => disk.exit.staging = "kept"
         /\ exec.step = "final" => disk.exit.final = "durable"

(* What the scheduler and the row have taken from them.                    *)
ReaderInv ==
    LET me == proc[Scheduler] IN
    /\ me.pc \in {"record", "adopt"} => disk.launch.final = "durable"
    /\ me.pc \in {"readLaunch", "readAdopt"} /\ ~me.listed => disk.launch.final = "durable"
    /\ me.pc = "readExit" /\ ~me.listed =>
         \/ disk.exit.final = "durable"
         \/ disk.exit.final = "none" /\ exec.phase \in {"none", "gone"}
    /\ row.identity => disk.launch.final = "durable"
    /\ row.outcome \in {"exited", "requeued"} => disk.exit.final = "durable"

EvidenceInv == Shape /\ LaunchInv /\ ExitInv /\ ReaderInv

-------------------------------------------------------------------------------
(* How the steps change a process, the disk and the row.                   *)

LEMMA Processes == Scheduler \in Procs /\ Operators \subseteq Procs
BY DEF Procs

LEMMA IdleType == Idle \in Controls /\ Idle.pc = "idle" /\ Idle.listed = FALSE
BY DEF Idle, Controls, Points, Stages

LEMMA Become ==
    ASSUME ProcType, NEW p \in Procs, NEW c \in Controls, proc' = [proc EXCEPT ![p] = c]
    PROVE  ProcType' /\ proc'[p] = c /\ \A q \in Procs \ {p} : proc'[q] = proc[q]
BY DEF ProcType

LEMMA ReturnStep ==
    ASSUME ProcType, NEW p \in Procs, Return(p)
    PROVE  ProcType' /\ proc'[p] = Idle /\ \A q \in Procs \ {p} : proc'[q] = proc[q]
BY IdleType, Become DEF Return

LEMMA GotoStep ==
    ASSUME ProcType, NEW p \in Procs, NEW pc \in Points, Goto(p, pc)
    PROVE  /\ ProcType' /\ proc'[p].pc = pc /\ proc'[p].listed = proc[p].listed
           /\ proc'[p].stage = proc[p].stage /\ proc'[p].told = proc[p].told
           /\ \A q \in Procs \ {p} : proc'[q] = proc[q]
<1> DEFINE c == [proc[p] EXCEPT !.pc = pc]
<1>1. proc[p] \in Controls
    BY DEF ProcType
<1>2. /\ c \in Controls /\ c.pc = pc /\ c.listed = proc[p].listed
      /\ c.stage = proc[p].stage /\ c.told = proc[p].told
    BY <1>1 DEF Controls
<1>3. proc' = [proc EXCEPT ![p] = c]
    BY DEF Goto
<1> HIDE DEF c
<1> QED
    BY <1>2, <1>3, Become

LEMMA ListStep ==
    ASSUME ProcType, NEW p \in Procs, NEW d, NEW pc \in Points, List(p, d, pc)
    PROVE  /\ ProcType' /\ proc'[p].pc = pc /\ proc'[p].listed = (disk[d].staging = "kept")
           /\ \A q \in Procs \ {p} : proc'[q] = proc[q]
<1> DEFINE seen == disk[d].staging = "kept"
           c == [proc[p] EXCEPT !.pc = pc, !.listed = seen]
<1>1. proc[p] \in Controls /\ seen \in BOOLEAN
    BY DEF ProcType
<1>2. proc' = [proc EXCEPT ![p] = c]
    BY DEF List, ProcType
<1> HIDE DEF seen
<1>3. c \in Controls /\ c.pc = pc /\ c.listed = seen
    BY <1>1 DEF Controls
<1> HIDE DEF c
<1>4. ProcType' /\ proc'[p] = c /\ \A q \in Procs \ {p} : proc'[q] = proc[q]
    BY <1>2, <1>3, Become
<1> QED
    BY <1>3, <1>4 DEF seen

LEMMA StageStep ==
    ASSUME ProcType, NEW p \in Procs, NEW pc \in Points, NEW stage \in Stages,
           proc' = [proc EXCEPT ![p].pc = pc, ![p].stage = stage]
    PROVE  /\ ProcType' /\ proc'[p].pc = pc /\ proc'[p].stage = stage
           /\ \A q \in Procs \ {p} : proc'[q] = proc[q]
<1> DEFINE c == [proc[p] EXCEPT !.pc = pc, !.stage = stage]
<1>1. proc[p] \in Controls
    BY DEF ProcType
<1>2. c \in Controls /\ c.pc = pc /\ c.stage = stage
    BY <1>1 DEF Controls
<1>3. proc' = [proc EXCEPT ![p] = c]
    BY DEF ProcType
<1> HIDE DEF c
<1> QED
    BY <1>2, <1>3, Become

LEMMA ToldStep ==
    ASSUME ProcType, NEW p \in Procs, NEW told \in BOOLEAN,
           proc' = [proc EXCEPT ![p].pc = "result", ![p].told = told]
    PROVE  /\ ProcType' /\ proc'[p].pc = "result"
           /\ \A q \in Procs \ {p} : proc'[q] = proc[q]
<1> DEFINE c == [proc[p] EXCEPT !.pc = "result", !.told = told]
<1>1. proc[p] \in Controls
    BY DEF ProcType
<1>2. c \in Controls /\ c.pc = "result"
    BY <1>1 DEF Controls, Points
<1>3. proc' = [proc EXCEPT ![p] = c]
    BY DEF ProcType
<1> HIDE DEF c
<1> QED
    BY <1>2, <1>3, Become

LEMMA ExitStep ==
    ASSUME ProcType, Exit
    PROVE  /\ ProcType' /\ proc'[Scheduler].pc = "down"
           /\ \A q \in Procs \ {Scheduler} : proc'[q] = proc[q]
<1>1. [Idle EXCEPT !.pc = "down"] \in Controls /\ [Idle EXCEPT !.pc = "down"].pc = "down"
    BY DEF Idle, Controls, Points, Stages
<1> QED
    BY <1>1, Become, Processes DEF Exit

(* A step that leaves the receipts, the executor, the job and what the row *)
(* took from the receipts alone, and with which the scheduler does not     *)
(* come to rely on a receipt.                                              *)
Relying == {"readLaunch", "record", "readAdopt", "adopt", "readExit"}

SameEvidence ==
    /\ disk'.launch = disk.launch /\ disk'.exit = disk.exit
    /\ UNCHANGED <<exec, job>>
    /\ row'.identity = row.identity
    /\ row'.outcome = row.outcome

Quiet ==
    /\ SameEvidence
    /\ \/ proc'[Scheduler].pc = proc[Scheduler].pc /\ proc'[Scheduler].listed = proc[Scheduler].listed
       \/ proc'[Scheduler].pc \notin Relying

LEMMA QuietStep ==
    ASSUME EvidenceInv, Shape', Quiet
    PROVE  EvidenceInv'
<1>1. LaunchInv'
    BY DEF EvidenceInv, Quiet, SameEvidence, LaunchInv
<1>2. ExitInv'
    BY DEF EvidenceInv, Quiet, SameEvidence, ExitInv
<1>3. ReaderInv'
    BY DEF EvidenceInv, Quiet, SameEvidence, ReaderInv, Relying
<1> QED
    BY <1>1, <1>2, <1>3 DEF EvidenceInv

LEMMA PayloadStep ==
    ASSUME DiskType, NEW f \in Files, disk' = [disk EXCEPT !.payload = f]
    PROVE  DiskType' /\ disk'.launch = disk.launch /\ disk'.exit = disk.exit /\ disk'.request = disk.request
BY DEF DiskType, Disks

LEMMA RequestStep ==
    ASSUME DiskType, NEW f \in Files, disk' = [disk EXCEPT !.request = f]
    PROVE  DiskType' /\ disk'.launch = disk.launch /\ disk'.exit = disk.exit /\ disk'.request = f
BY DEF DiskType, Disks

LEMMA StateStep ==
    ASSUME RowType, NEW st \in {"queued", "ended"} \cup Active, row' = [row EXCEPT !.state = st]
    PROVE  /\ RowType' /\ row'.state = st /\ row'.identity = row.identity /\ row'.outcome = row.outcome
           /\ row'.stage = row.stage /\ row'.forced = row.forced
BY DEF RowType, Rows

LEMMA EndStep ==
    ASSUME RowType, NEW outcome \in Outcomes, End(outcome)
    PROVE  /\ RowType' /\ row'.state = "ended" /\ row'.identity = row.identity
           /\ row'.outcome = outcome /\ row'.stage = row.stage /\ row'.forced = row.forced
BY DEF RowType, Rows, End

-------------------------------------------------------------------------------
(* Quiet steps.                                                            *)

LEMMA PreparePayloadQuiet == ASSUME Shape, PreparePayload PROVE Shape' /\ Quiet
<1>1. UNCHANGED <<row, exec, job>>
    BY DEF PreparePayload, execVars
<1>2. DiskType' /\ disk'.launch = disk.launch /\ disk'.exit = disk.exit
    BY PayloadStep DEF Shape, DiskType, PreparePayload, Files
<1>3. ProcType' /\ (proc'[Scheduler].pc \in {"write", "start"} \/ UNCHANGED proc)
    BY GotoStep, Processes DEF Shape, ProcType, PreparePayload, Points
<1> QED
    BY <1>1, <1>2, <1>3 DEF Shape, RowType, ExecType, Quiet, SameEvidence, Relying

LEMMA WritePayloadQuiet == ASSUME Shape, WritePayload PROVE Shape' /\ Quiet
<1>1. UNCHANGED <<row, exec, job>>
    BY DEF WritePayload, execVars
<1>2. DiskType' /\ disk'.launch = disk.launch /\ disk'.exit = disk.exit
    BY PayloadStep DEF Shape, WritePayload, Files
<1>3. ProcType' /\ proc'[Scheduler].pc \in {"start", "idle"}
    BY GotoStep, ReturnStep, IdleType, Processes DEF Shape, WritePayload, Points
<1> QED
    BY <1>1, <1>2, <1>3 DEF Shape, RowType, ExecType, Quiet, SameEvidence, Relying

LEMMA StartQuiet == ASSUME Shape, Start PROVE Shape' /\ Quiet
<1>1. UNCHANGED <<disk, exec, job>>
    BY DEF Start, execVars
<1>2. RowType' /\ row'.identity = row.identity /\ row'.outcome = row.outcome
    BY StateStep DEF Shape, Start, Active
<1>3. ProcType' /\ proc'[Scheduler].pc = "spawn"
    BY GotoStep, Processes DEF Shape, Start, Points
<1> QED
    BY <1>1, <1>2, <1>3 DEF Shape, DiskType, ExecType, Quiet, SameEvidence, Relying

LEMMA AttendQuiet == ASSUME Shape, Attend PROVE Shape' /\ Quiet
<1>1. UNCHANGED <<row, disk, exec, job>>
    BY DEF Attend, dbVars, execVars
<1>2. ProcType' /\ proc'[Scheduler].pc \in {"recover", "replay"}
    <2>1. row.stage \in Stages
        BY DEF Shape, RowType, Rows
    <2>2. CASE Goto(Scheduler, "recover")
        BY <2>2, GotoStep, Processes DEF Shape, Points
    <2>3. CASE proc' = [proc EXCEPT ![Scheduler].pc = "replay", ![Scheduler].stage = row.stage]
        BY <2>1, <2>3, StageStep, Processes DEF Shape, Points
    <2> QED
        BY <2>2, <2>3 DEF Attend
<1> QED
    BY <1>1, <1>2 DEF Shape, RowType, DiskType, ExecType, Quiet, SameEvidence, Relying

LEMMA UncertainStep ==
    ASSUME ProcType, NEW p \in Procs, Uncertain(p)
    PROVE  ProcType' /\ proc'[p] = Idle /\ \A q \in Procs \ {p} : proc'[q] = proc[q]
BY ReturnStep DEF Uncertain

LEMMA PauseAmbiguousQuiet == ASSUME Shape, PauseAmbiguous PROVE Shape' /\ Quiet
BY DEF PauseAmbiguous, execVars, Shape, RowType, DiskType, ExecType, ProcType, Quiet, SameEvidence

LEMMA RecoverPendingQuiet == ASSUME Shape, RecoverPending PROVE Shape' /\ Quiet
<1>1. UNCHANGED <<row, disk, exec, job>>
    BY DEF RecoverPending, execVars
<1>2. ProcType' /\ proc'[Scheduler].pc \in {"publish", "idle"}
    BY GotoStep, UncertainStep, IdleType, Processes DEF Shape, RecoverPending, Points
<1> QED
    BY <1>1, <1>2 DEF Shape, RowType, DiskType, ExecType, Quiet, SameEvidence, Relying

LEMMA ReplayStageQuiet == ASSUME Shape, ReplayStage PROVE Shape' /\ Quiet
<1>1. UNCHANGED <<disk, exec, job>>
    BY DEF ReplayStage, execVars
<1>2. /\ RowType' /\ row'.identity = row.identity /\ row'.outcome = row.outcome
      /\ row'.stage \in Stages
    BY DEF Shape, RowType, Rows, ReplayStage, Stages, Active, Terminating
<1>3. ProcType' /\ proc'[Scheduler].pc \in {"deliver", "idle"}
    <2>1. CASE Goto(Scheduler, "deliver")
        BY <2>1, GotoStep, Processes DEF Shape, Points
    <2>2. CASE proc' = [proc EXCEPT ![Scheduler].pc = "deliver", ![Scheduler].stage = row'.stage]
        BY <1>2, <2>2, StageStep, Processes, ZenonT(40) DEF Shape, Points
    <2>3. CASE Return(Scheduler)
        BY <2>3, ReturnStep, IdleType, Processes DEF Shape
    <2> QED
        BY <2>1, <2>2, <2>3 DEF ReplayStage
<1> QED
    BY <1>1, <1>2, <1>3 DEF Shape, DiskType, ExecType, Quiet, SameEvidence, Relying

LEMMA SomeoneMoves ==
    ASSUME NEW p \in Procs, SameEvidence, proc'[p].pc \notin Relying,
           \A q \in Procs \ {p} : proc'[q] = proc[q]
    PROVE  Quiet
BY Processes DEF Quiet

LEMMA PublishQuiet == ASSUME Shape, NEW p \in Procs, Publish(p) PROVE Shape' /\ Quiet
<1>1. UNCHANGED <<row, exec, job>>
    BY DEF Publish, execVars
<1>2. DiskType' /\ disk'.launch = disk.launch /\ disk'.exit = disk.exit
    BY RequestStep DEF Shape, DiskType, Publish, Files
<1>3. /\ ProcType' /\ proc'[p].pc \in {"publishing", "claim", "idle"}
      /\ \A q \in Procs \ {p} : proc'[q] = proc[q]
    BY GotoStep, UncertainStep, IdleType DEF Shape, Publish, Points
<1> QED
    BY <1>1, <1>2, <1>3, SomeoneMoves DEF Shape, RowType, ExecType, SameEvidence, Relying

LEMMA PublishedQuiet == ASSUME Shape, NEW p \in Procs, Published(p) PROVE Shape' /\ Quiet
<1>1. UNCHANGED <<row, exec, job>>
    BY DEF Published, execVars
<1>2. DiskType' /\ disk'.launch = disk.launch /\ disk'.exit = disk.exit
    BY RequestStep DEF Shape, Published, Files
<1>3. /\ ProcType' /\ proc'[p].pc \in {"claim", "idle"}
      /\ \A q \in Procs \ {p} : proc'[q] = proc[q]
    BY GotoStep, UncertainStep, IdleType DEF Shape, Published, Points
<1> QED
    BY <1>1, <1>2, <1>3, SomeoneMoves DEF Shape, RowType, ExecType, SameEvidence, Relying

LEMMA ClaimSignalQuiet == ASSUME Shape, NEW p \in Procs, ClaimSignal(p) PROVE Shape' /\ Quiet
<1>1. UNCHANGED <<row, disk, exec, job>>
    BY DEF ClaimSignal, execVars
<1>2. /\ ProcType' /\ proc'[p].pc \in {"signal", "idle"}
      /\ \A q \in Procs \ {p} : proc'[q] = proc[q]
    BY GotoStep, ReturnStep, IdleType DEF Shape, ClaimSignal, Points
<1> QED
    BY <1>1, <1>2, SomeoneMoves DEF Shape, RowType, DiskType, ExecType, SameEvidence, Relying

LEMMA RecordResultQuiet == ASSUME Shape, NEW p \in Procs, RecordResult(p) PROVE Shape' /\ Quiet
<1>1. UNCHANGED <<row, disk, exec, job>>
    BY DEF RecordResult, execVars
<1>2. /\ ProcType' /\ proc'[p].pc = "idle"
      /\ \A q \in Procs \ {p} : proc'[q] = proc[q]
    BY ReturnStep, UncertainStep, IdleType DEF Shape, RecordResult
<1> QED
    BY <1>1, <1>2, SomeoneMoves DEF Shape, RowType, DiskType, ExecType, SameEvidence, Relying

LEMMA RequestYieldQuiet == ASSUME Shape, NEW o \in Operators, RequestYield(o) PROVE Shape' /\ Quiet
<1>1. UNCHANGED <<disk, exec, job>>
    BY DEF RequestYield, execVars
<1>2. RowType' /\ row'.identity = row.identity /\ row'.outcome = row.outcome
    BY StateStep DEF Shape, RequestYield, Active
<1>3. /\ ProcType' /\ proc'[o].pc = "publish"
      /\ \A q \in Procs \ {o} : proc'[q] = proc[q]
    BY GotoStep, Processes DEF Shape, RequestYield, Points
<1> QED
    BY <1>1, <1>2, <1>3, SomeoneMoves, Processes
    DEF Shape, DiskType, ExecType, SameEvidence, Relying

LEMMA RequestedRow ==
    ASSUME RowType, NEW force \in BOOLEAN, row' = Requested(force)
    PROVE  /\ RowType' /\ row'.identity = row.identity /\ row'.outcome = row.outcome
           /\ row'.stage \in Stages
BY DEF RowType, Rows, Requested, Stages, Active, Terminating

LEMMA RequestTerminationQuiet ==
    ASSUME Shape, NEW o \in Operators, RequestTermination(o)
    PROVE  Shape' /\ Quiet
<1>1. UNCHANGED <<disk, exec, job>>
    BY DEF RequestTermination, execVars
<1>2. /\ RowType' /\ row'.identity = row.identity /\ row'.outcome = row.outcome
      /\ row'.stage \in Stages
    BY RequestedRow DEF Shape, RequestTermination
<1>3. proc' = [proc EXCEPT ![o].pc = "deliver", ![o].stage = row'.stage]
    BY DEF RequestTermination
<1>4. /\ ProcType' /\ proc'[o].pc = "deliver"
      /\ \A q \in Procs \ {o} : proc'[q] = proc[q]
    BY <1>2, <1>3, StageStep, Processes DEF Shape, Points
<1> QED
    BY <1>1, <1>2, <1>4, SomeoneMoves, Processes
    DEF Shape, DiskType, ExecType, SameEvidence, Relying

LEMMA JobAnswersQuiet == ASSUME Shape, JobAnswers PROVE Shape' /\ Quiet
<1>1. UNCHANGED <<row, exec, job, proc>>
    BY DEF JobAnswers, dbVars, execVars
<1>2. DiskType' /\ disk'.launch = disk.launch /\ disk'.exit = disk.exit
    BY DEF Shape, DiskType, Disks, JobAnswers
<1> QED
    BY <1>1, <1>2 DEF Shape, RowType, ExecType, ProcType, Quiet, SameEvidence

LEMMA TimeQuiet == ASSUME Shape, GraceEnds \/ RetryLeaseEnds PROVE Shape' /\ Quiet
<1>1. UNCHANGED <<row, disk, exec, job, proc>>
    BY DEF GraceEnds, RetryLeaseEnds, execVars
<1> QED
    BY <1>1 DEF Shape, RowType, DiskType, ExecType, ProcType, Quiet, SameEvidence

LEMMA RestartQuiet ==
    ASSUME Shape, SchedulerCrashes \/ StartScheduler
    PROVE  Shape' /\ Quiet
<1>1. UNCHANGED <<row, disk, exec, job>>
    BY DEF SchedulerCrashes, StartScheduler, dbVars, execVars
<1>2. ProcType' /\ proc'[Scheduler].pc \in {"down", "idle"}
    BY ExitStep, ReturnStep, IdleType, Processes DEF Shape, SchedulerCrashes, StartScheduler
<1> QED
    BY <1>1, <1>2 DEF Shape, RowType, DiskType, ExecType, Quiet, SameEvidence, Relying

LEMMA OperatorDiesQuiet == ASSUME Shape, NEW o \in Operators, OperatorDies(o) PROVE Shape' /\ Quiet
<1>1. UNCHANGED <<row, disk, exec, job>>
    BY DEF OperatorDies, dbVars, execVars
<1>2. /\ ProcType' /\ proc'[o].pc = "idle"
      /\ \A q \in Procs \ {o} : proc'[q] = proc[q]
    BY ReturnStep, IdleType, Processes DEF Shape, OperatorDies
<1> QED
    BY <1>1, <1>2, SomeoneMoves, Processes
    DEF Shape, RowType, DiskType, ExecType, SameEvidence, Relying

LEMMA StutterQuiet == ASSUME Shape, UNCHANGED vars PROVE Shape' /\ Quiet
BY DEF vars, dbVars, execVars, Shape, RowType, DiskType, ExecType, ProcType, Quiet, SameEvidence

-------------------------------------------------------------------------------
(* Steps of the executor and of the job.                                   *)

(* A step that takes nothing away from what a reader may rely on.          *)
Lasting ==
    /\ \A d \in {"launch", "exit"} : disk[d].final = "durable" => disk'[d].final = "durable"
    /\ disk.exit.final = "none" /\ exec.phase \in {"none", "gone"} =>
           disk'.exit.final = "none" /\ exec'.phase \in {"none", "gone"}
    /\ row'.identity = row.identity
    /\ row'.outcome \in {"exited", "requeued"} => row'.outcome = row.outcome
    /\ \/ proc'[Scheduler].pc = proc[Scheduler].pc /\ proc'[Scheduler].listed = proc[Scheduler].listed
       \/ proc'[Scheduler].pc \notin Relying

LEMMA ReaderKeeps == ASSUME ReaderInv, Lasting PROVE ReaderInv'
BY DEF ReaderInv, Lasting, Relying

LEMMA Overwrite ==
    ASSUME DiskType, NEW d \in {"launch", "exit"}, NEW r \in Receipts, disk' = [disk EXCEPT ![d] = r]
    PROVE  /\ DiskType' /\ disk'[d] = r
           /\ \A e \in {"launch", "exit"} \ {d} : disk'[e] = disk[e]
           /\ disk'.request = disk.request
BY DEF DiskType, Disks

LEMMA ReceiptTypes == ASSUME DiskType PROVE disk.launch \in Receipts /\ disk.exit \in Receipts
BY DEF DiskType, Disks

LEMMA PublicationEffect ==
    ASSUME Shape, NEW from, NEW next \in Execs, NEW r \in Receipts, PublicationStep(from, next, r)
    PROVE  /\ Shape' /\ UNCHANGED <<row, job, proc>> /\ exec' = next /\ exec.step = from
           /\ \/ exec.phase = "announcing" /\ disk'.launch = r /\ disk'.exit = disk.exit
              \/ exec.phase = "reporting" /\ disk'.exit = r /\ disk'.launch = disk.launch
<1>1. UNCHANGED <<row, job, proc>> /\ exec' = next /\ exec.step = from
    BY DEF PublicationStep, dbVars
<1>2. CASE exec.phase = "announcing"
    <2>1. disk' = [disk EXCEPT !["launch"] = r]
        BY <1>2 DEF PublicationStep, Publishing
    <2>2. DiskType' /\ disk'.launch = r /\ disk'.exit = disk.exit
        BY <2>1, Overwrite DEF Shape
    <2> QED
        BY <1>1, <1>2, <2>2 DEF Shape, RowType, ExecType, ProcType
<1>3. CASE exec.phase = "reporting"
    <2>1. disk' = [disk EXCEPT !["exit"] = r]
        BY <1>3 DEF PublicationStep, Publishing
    <2>2. DiskType' /\ disk'.exit = r /\ disk'.launch = disk.launch
        BY <2>1, Overwrite DEF Shape
    <2> QED
        BY <1>1, <1>3, <2>2 DEF Shape, RowType, ExecType, ProcType
<1> QED
    BY <1>2, <1>3 DEF PublicationStep

LEMMA HereType ==
    ASSUME Shape
    PROVE  /\ Here \in Receipts
           /\ exec.phase = "announcing" => Here = disk.launch
           /\ exec.phase = "reporting" => Here = disk.exit
BY ReceiptTypes DEF Shape, Here, Publishing

LEMMA StepType ==
    ASSUME Shape, NEW step \in {"none", "start", "stable", "linked", "final"}
    PROVE  Step(step) \in Execs /\ Step(step).phase = exec.phase /\ Step(step).step = step
BY DEF Shape, ExecType, Execs, Step

LEMMA StageInv == ASSUME EvidenceInv, Stage PROVE EvidenceInv'
<1> DEFINE r == [Here EXCEPT !.staging = "kept"]
<1>1. r \in Receipts /\ r.staging = "kept" /\ r.final = "none"
    BY HereType DEF EvidenceInv, Receipts, Stage
<1>2. PublicationStep("start", Step("stable"), r)
    BY DEF Stage
<1> HIDE DEF r
<1>3. /\ Shape' /\ UNCHANGED <<row, job, proc>> /\ exec'.phase = exec.phase /\ exec'.step = "stable"
      /\ exec.step = "start"
      /\ \/ exec.phase = "announcing" /\ disk'.launch = r /\ disk'.exit = disk.exit
         \/ exec.phase = "reporting" /\ disk'.exit = r /\ disk'.launch = disk.launch
    BY <1>1, <1>2, StepType, PublicationEffect DEF EvidenceInv
<1>4. LaunchInv' /\ ExitInv'
    BY <1>1, <1>3 DEF EvidenceInv, LaunchInv, ExitInv
<1>5. Lasting
    BY <1>1, <1>3 DEF EvidenceInv, LaunchInv, ExitInv, Lasting
<1> QED
    BY <1>3, <1>4, <1>5, ReaderKeeps DEF EvidenceInv

LEMMA LinkInv == ASSUME EvidenceInv, Link PROVE EvidenceInv'
<1> DEFINE r == [Here EXCEPT !.final = "volatile"]
<1>1. r \in Receipts /\ r.staging = Here.staging /\ r.final = "volatile"
    BY HereType DEF EvidenceInv, Receipts
<1>2. PublicationStep("stable", Step("linked"), r)
    BY DEF Link
<1> HIDE DEF r
<1>3. /\ Shape' /\ UNCHANGED <<row, job, proc>> /\ exec'.phase = exec.phase /\ exec'.step = "linked"
      /\ exec.step = "stable"
      /\ \/ exec.phase = "announcing" /\ disk'.launch = r /\ disk'.exit = disk.exit
         \/ exec.phase = "reporting" /\ disk'.exit = r /\ disk'.launch = disk.launch
    BY <1>1, <1>2, StepType, PublicationEffect DEF EvidenceInv
<1>4. LaunchInv' /\ ExitInv'
    BY <1>1, <1>3, HereType DEF EvidenceInv, LaunchInv, ExitInv
<1>5. Lasting
    BY <1>1, <1>3 DEF EvidenceInv, LaunchInv, ExitInv, Lasting
<1> QED
    BY <1>3, <1>4, <1>5, ReaderKeeps DEF EvidenceInv

LEMMA SettleInv == ASSUME EvidenceInv, Settle PROVE EvidenceInv'
<1> DEFINE r == [Here EXCEPT !.final = "durable"]
<1>1. r \in Receipts /\ r.final = "durable"
    BY HereType DEF EvidenceInv, Receipts
<1>2. PublicationStep("linked", Step("final"), r)
    BY DEF Settle
<1> HIDE DEF r
<1>3. /\ Shape' /\ UNCHANGED <<row, job, proc>> /\ exec'.phase = exec.phase /\ exec'.step = "final"
      /\ exec.step = "linked"
      /\ \/ exec.phase = "announcing" /\ disk'.launch = r /\ disk'.exit = disk.exit
         \/ exec.phase = "reporting" /\ disk'.exit = r /\ disk'.launch = disk.launch
    BY <1>1, <1>2, StepType, PublicationEffect DEF EvidenceInv
<1>4. LaunchInv' /\ ExitInv'
    BY <1>1, <1>3 DEF EvidenceInv, LaunchInv, ExitInv
<1>5. Lasting
    BY <1>1, <1>3 DEF EvidenceInv, LaunchInv, ExitInv, Lasting
<1> QED
    BY <1>3, <1>4, <1>5, ReaderKeeps DEF EvidenceInv

LEMMA UnstageInv == ASSUME EvidenceInv, Unstage PROVE EvidenceInv'
<1>1. PICK left \in {"none", Here.staging} :
          PublicationStep("final", AfterPublication, [Here EXCEPT !.staging = left])
    BY DEF Unstage
<1> DEFINE r == [Here EXCEPT !.staging = left]
<1>2. r \in Receipts /\ r.final = Here.final
    BY <1>1, HereType DEF EvidenceInv, Receipts
<1>3. PublicationStep("final", AfterPublication, r)
    BY <1>1
<1>4. /\ AfterPublication \in Execs
      /\ exec.phase = "announcing" => AfterPublication.phase = "forking"
      /\ exec.phase # "announcing" => AfterPublication.phase = "gone"
    BY DEF AfterPublication, Execs
<1> HIDE DEF r
<1>5. /\ Shape' /\ UNCHANGED <<row, job, proc>> /\ exec' = AfterPublication /\ exec.step = "final"
      /\ \/ exec.phase = "announcing" /\ disk'.launch = r /\ disk'.exit = disk.exit
         \/ exec.phase = "reporting" /\ disk'.exit = r /\ disk'.launch = disk.launch
    BY <1>2, <1>3, <1>4, PublicationEffect DEF EvidenceInv
<1>6. LaunchInv' /\ ExitInv'
    BY <1>2, <1>4, <1>5, HereType DEF EvidenceInv, LaunchInv, ExitInv
<1>7. Lasting
    BY <1>2, <1>4, <1>5, HereType, SMT DEF EvidenceInv, LaunchInv, ExitInv, Lasting
<1> QED
    BY <1>5, <1>6, <1>7, ReaderKeeps DEF EvidenceInv

LEMMA BootInv == ASSUME EvidenceInv, Boot PROVE EvidenceInv'
<1>1. /\ UNCHANGED <<row, disk, job, proc>> /\ exec.phase = "booting" /\ exec' \in Execs
      /\ exec'.phase \in {"announcing", "gone"}
      /\ exec'.phase = "announcing" => exec'.step = "start"
    BY DEF Boot, ExecStep, dbVars, Execs
<1>2. Shape'
    BY <1>1 DEF EvidenceInv, Shape, RowType, DiskType, ExecType, ProcType
<1>3. LaunchInv' /\ ExitInv'
    BY <1>1 DEF EvidenceInv, LaunchInv, ExitInv
<1>4. Lasting
    BY <1>1 DEF Lasting
<1> QED
    BY <1>2, <1>3, <1>4, ReaderKeeps DEF EvidenceInv

LEMMA ForkInv == ASSUME EvidenceInv, Fork PROVE EvidenceInv'
<1>1. /\ UNCHANGED <<row, disk, proc>> /\ exec.phase = "forking" /\ exec' \in Execs
      /\ \/ exec'.phase = "replaying" /\ job' = "running"
         \/ exec'.phase = "reporting" /\ exec'.step = "start" /\ UNCHANGED job
    BY SMT DEF Fork, ExecStep, dbVars, Execs
<1>2. Shape'
    BY <1>1 DEF EvidenceInv, Shape, RowType, DiskType, ExecType, ProcType, Jobs
<1>3. LaunchInv' /\ ExitInv'
    BY <1>1 DEF EvidenceInv, LaunchInv, ExitInv
<1>4. Lasting
    BY <1>1 DEF Lasting
<1> QED
    BY <1>2, <1>3, <1>4, ReaderKeeps DEF EvidenceInv

LEMMA ReplayInv == ASSUME EvidenceInv, Replay PROVE EvidenceInv'
<1>1. /\ UNCHANGED <<row, disk, job, proc>> /\ exec.phase = "replaying" /\ exec' \in Execs
      /\ exec'.phase \in {"replaying", "running"}
    BY DEF Replay, dbVars, EvidenceInv, Shape, ExecType, Execs
<1>2. Shape'
    BY <1>1 DEF EvidenceInv, Shape, RowType, DiskType, ExecType, ProcType
<1>3. LaunchInv' /\ ExitInv'
    BY <1>1 DEF EvidenceInv, LaunchInv, ExitInv
<1>4. Lasting
    BY <1>1 DEF Lasting
<1> QED
    BY <1>2, <1>3, <1>4, ReaderKeeps DEF EvidenceInv

LEMMA ReapInv == ASSUME EvidenceInv, Reap \/ Drain PROVE EvidenceInv'
<1>1. /\ UNCHANGED <<row, disk, job, proc>> /\ exec' \in Execs
      /\ \/ exec.phase = "running" /\ exec'.phase = "draining"
         \/ /\ exec.phase = "draining" /\ exec'.phase = "reporting" /\ exec'.step = "start"
            /\ job = "over"
    BY SMT DEF Reap, Drain, ExecStep, dbVars, Execs
<1>2. Shape'
    BY <1>1 DEF EvidenceInv, Shape, RowType, DiskType, ExecType, ProcType
<1>3. LaunchInv' /\ ExitInv'
    BY <1>1 DEF EvidenceInv, LaunchInv, ExitInv
<1>4. Lasting
    BY <1>1 DEF Lasting
<1> QED
    BY <1>2, <1>3, <1>4, ReaderKeeps DEF EvidenceInv

LEMMA JobEndsInv == ASSUME EvidenceInv, JobEnds PROVE EvidenceInv'
<1>1. UNCHANGED <<row, disk, exec, proc>> /\ job \in {"running", "rest"} /\ job' \in {"rest", "over"}
    BY DEF JobEnds, dbVars
<1>2. Shape'
    BY <1>1 DEF EvidenceInv, Shape, RowType, DiskType, ExecType, ProcType, Jobs
<1>3. LaunchInv' /\ ExitInv'
    BY <1>1 DEF EvidenceInv, LaunchInv, ExitInv
<1>4. Lasting
    BY <1>1 DEF Lasting
<1> QED
    BY <1>2, <1>3, <1>4, ReaderKeeps DEF EvidenceInv

(* The executor goes, alone or with its group.                             *)
Stopped ==
    /\ exec' = [phase |-> "gone", step |-> "none"]
    /\ UNCHANGED job \/ (job # "none" /\ job' = "over")

LEMMA StoppedInv ==
    ASSUME EvidenceInv, Shape', Stopped, Lasting, disk'.launch = disk.launch,
           disk'.exit.final = disk.exit.final,
           disk'.exit = disk.exit \/ disk.exit.final = "none"
    PROVE  EvidenceInv'
<1>1. LaunchInv' /\ ExitInv'
    BY DEF EvidenceInv, Stopped, LaunchInv, ExitInv
<1> QED
    BY <1>1, ReaderKeeps DEF EvidenceInv

LEMMA StoppedType == ASSUME ExecType, Stopped PROVE ExecType'
BY DEF ExecType, Execs, Jobs, Stopped

LEMMA StopGroupStep == ASSUME StopGroup PROVE Stopped
BY DEF StopGroup, Stopped

LEMMA ExecutorEndsInv == ASSUME EvidenceInv, PublicationFails \/ ExecutorDies PROVE EvidenceInv'
<1>1. UNCHANGED <<row, disk, job, proc>> /\ Stopped
    BY DEF PublicationFails, ExecutorDies, dbVars, Stopped
<1>2. Shape' /\ Lasting
    BY <1>1, StoppedType DEF EvidenceInv, Shape, RowType, DiskType, ProcType, Stopped, Lasting
<1> QED
    BY <1>1, <1>2, StoppedInv

-------------------------------------------------------------------------------
(* Signals.                                                                *)

LEMMA ReceiveStep ==
    ASSUME EvidenceInv, NEW s, Receive(s)
    PROVE  \/ UNCHANGED <<exec, disk>>
           \/ /\ exec' = [phase |-> "gone", step |-> "none"] /\ DiskType'
              /\ disk'.launch = disk.launch /\ disk'.exit.final = disk.exit.final
              /\ disk'.request = disk.request
              /\ disk'.exit = disk.exit \/ disk.exit.final = "none"
<1>1. CASE exec.phase # "reporting" \/ s # "INT" \/ exec.step # "stable"
    BY <1>1 DEF Receive, EvidenceInv, Shape, DiskType
<1>2. CASE exec.phase = "reporting" /\ s = "INT" /\ exec.step = "stable"
    <2> DEFINE r == [disk.exit EXCEPT !.staging = "none"]
    <2>1. r \in Receipts /\ r.final = disk.exit.final /\ disk.exit.final = "none"
        BY <1>2, ReceiptTypes DEF EvidenceInv, Shape, ExitInv, Receipts
    <2>2. exec' = [phase |-> "gone", step |-> "none"] /\ disk' = [disk EXCEPT !["exit"] = r]
        BY <1>2 DEF Receive
    <2> HIDE DEF r
    <2>3. /\ DiskType' /\ disk'.exit = r /\ disk'.launch = disk.launch
          /\ disk'.request = disk.request
        BY <2>1, <2>2, Overwrite DEF EvidenceInv, Shape
    <2> QED
        BY <2>1, <2>2, <2>3
<1> QED
    BY <1>1, <1>2

LEMMA SignalledInv ==
    ASSUME EvidenceInv, NEW p \in Procs, NEW s, Receive(s), UNCHANGED <<row, job>>, ProcType',
           proc'[p].pc \notin Relying, \A q \in Procs \ {p} : proc'[q] = proc[q]
    PROVE  EvidenceInv'
<1>1. \/ proc'[Scheduler].pc = proc[Scheduler].pc /\ proc'[Scheduler].listed = proc[Scheduler].listed
      \/ proc'[Scheduler].pc \notin Relying
    BY Processes
<1>2. CASE UNCHANGED <<exec, disk>>
    BY <1>1, <1>2, QuietStep
    DEF EvidenceInv, Shape, RowType, DiskType, ExecType, Quiet, SameEvidence
<1>3. CASE /\ exec' = [phase |-> "gone", step |-> "none"] /\ DiskType'
           /\ disk'.launch = disk.launch /\ disk'.exit.final = disk.exit.final
           /\ disk'.exit = disk.exit \/ disk.exit.final = "none"
    <2>1. Stopped /\ Lasting
        BY <1>1, <1>3 DEF Stopped, Lasting
    <2>2. Shape'
        BY <1>3, <2>1, StoppedType DEF EvidenceInv, Shape, RowType
    <2> QED
        BY <1>3, <2>1, <2>2, StoppedInv
<1> QED
    BY <1>2, <1>3, ReceiveStep

LEMMA SignalYieldInv == ASSUME EvidenceInv, NEW p \in Procs, SignalYield(p) PROVE EvidenceInv'
<1>1. /\ ProcType' /\ proc'[p].pc = "result"
      /\ \A q \in Procs \ {p} : proc'[q] = proc[q]
    BY ToldStep DEF EvidenceInv, Shape, SignalYield, Authentic, Alive
<1>2. CASE Authentic
    BY <1>1, <1>2, SignalledInv DEF SignalYield, dbVars, Relying
<1>3. CASE ~Authentic
    <2>1. UNCHANGED <<row, disk, exec, job>>
        BY <1>3 DEF SignalYield, dbVars
    <2>2. Shape' /\ Quiet
        BY <1>1, <2>1, SomeoneMoves
        DEF EvidenceInv, Shape, RowType, DiskType, ExecType, SameEvidence, Relying
    <2> QED
        BY <2>2, QuietStep
<1> QED
    BY <1>2, <1>3

LEMMA DeliverInv == ASSUME EvidenceInv, NEW p \in Procs, Deliver(p) PROVE EvidenceInv'
<1> DEFINE s == SignalOf(proc[p].stage)
<1>1. /\ UNCHANGED row /\ ProcType' /\ proc'[p].pc = "idle"
      /\ \A q \in Procs \ {p} : proc'[q] = proc[q]
    BY ReturnStep, IdleType DEF EvidenceInv, Shape, Deliver, dbVars
<1>2. CASE Receive(s) /\ UNCHANGED job
    BY <1>1, <1>2, SignalledInv DEF Relying
<1>3. CASE StopGroup /\ UNCHANGED disk
    <2>1. Stopped /\ Lasting
        BY <1>1, <1>3, StopGroupStep, Processes, SMT DEF Stopped, Lasting, Relying
    <2>2. Shape'
        BY <1>1, <1>3, <2>1, StoppedType DEF EvidenceInv, Shape, RowType, DiskType
    <2> QED
        BY <1>3, <2>1, <2>2, StoppedInv
<1>4. CASE UNCHANGED <<execVars, disk>>
    <2>1. Shape' /\ Quiet
        BY <1>1, <1>4, SomeoneMoves
        DEF EvidenceInv, Shape, RowType, DiskType, ExecType, SameEvidence, Relying, execVars
    <2> QED
        BY <2>1, QuietStep
<1> QED
    BY <1>2, <1>3, <1>4 DEF Deliver

-------------------------------------------------------------------------------
(* Steps with which the scheduler comes to rely on a receipt.              *)

LEMMA SpawnInv == ASSUME EvidenceInv, Spawn PROVE EvidenceInv'
<1>1. /\ UNCHANGED <<row, disk, job>> /\ disk.launch.final = "none" /\ disk.exit.final = "none"
      /\ exec' \in Execs /\ exec'.phase = "booting"
    BY SMT DEF Spawn, dbVars, NoReceipt, EvidenceInv, Shape, ExecType, Execs
<1>2. ProcType' /\ proc'[Scheduler].pc = "await" /\ proc[Scheduler].pc = "spawn"
    BY GotoStep, Processes DEF Spawn, At, EvidenceInv, Shape, Points
<1>3. Shape'
    BY <1>1, <1>2 DEF EvidenceInv, Shape, RowType, DiskType, ExecType
<1>4. LaunchInv' /\ ExitInv'
    BY <1>1 DEF EvidenceInv, LaunchInv, ExitInv
<1>5. ReaderInv'
    BY <1>1, <1>2 DEF EvidenceInv, ReaderInv
<1> QED
    BY <1>3, <1>4, <1>5 DEF EvidenceInv

(* Only the scheduler's control changes, and it has listed a receipt.      *)
LEMMA ListedInv ==
    ASSUME EvidenceInv, UNCHANGED <<row, disk, exec, job>>, NEW d \in {"launch", "exit"},
           NEW pc \in {"readLaunch", "readAdopt", "readExit"}, List(Scheduler, d, pc),
           d = "exit" <=> pc = "readExit",
           disk[d].final # "none" \/ (d = "exit" /\ ~Alive)
    PROVE  EvidenceInv'
<1>1. /\ ProcType' /\ proc'[Scheduler].pc = pc
      /\ proc'[Scheduler].listed = (disk[d].staging = "kept")
    BY ListStep, Processes, SMT DEF EvidenceInv, Shape, Points
<1>2. Shape' /\ LaunchInv' /\ ExitInv'
    BY <1>1 DEF EvidenceInv, Shape, RowType, DiskType, ExecType, LaunchInv, ExitInv
<1>3. disk.launch \in Receipts /\ disk.exit \in Receipts
    BY ReceiptTypes DEF EvidenceInv, Shape
<1>4. disk[d].staging # "kept" =>
          disk[d].final = "durable" \/ (d = "exit" /\ disk[d].final = "none" /\ ~Alive)
    BY <1>3 DEF EvidenceInv, LaunchInv, ExitInv, Receipts
<1>5. ReaderInv'
    BY <1>1, <1>4 DEF EvidenceInv, ReaderInv, Alive
<1> QED
    BY <1>2, <1>5 DEF EvidenceInv

LEMMA AwaitInv == ASSUME EvidenceInv, Await PROVE EvidenceInv'
<1>1. CASE disk.launch.final # "none"
    BY <1>1, ListedInv DEF Await, dbVars
<1>2. CASE disk.launch.final = "none"
    <2>1. StopGroup /\ End("launch") /\ Return(Scheduler) /\ UNCHANGED disk
        BY <1>2 DEF Await
    <2>2. RowType' /\ row'.identity = row.identity /\ row'.outcome = "launch"
        BY <2>1, EndStep DEF EvidenceInv, Shape, Outcomes
    <2>3. ProcType' /\ proc'[Scheduler].pc = "idle"
        BY <2>1, ReturnStep, IdleType, Processes DEF EvidenceInv, Shape
    <2>4. Stopped /\ Lasting
        BY <2>1, <2>2, <2>3, StopGroupStep, SMT DEF Stopped, Lasting, Relying
    <2>5. Shape'
        BY <2>1, <2>2, <2>3, <2>4, StoppedType DEF EvidenceInv, Shape, DiskType
    <2> QED
        BY <2>1, <2>4, <2>5, StoppedInv
<1> QED
    BY <1>1, <1>2

(* confirm_immutable_evidence_for_read leaves a durable receipt.           *)
LEMMA ConfirmStep ==
    ASSUME Shape, NEW d \in {"launch", "exit"}, NEW listed \in BOOLEAN, Confirmed(d, listed),
           Confirm(d, listed), ~listed => disk[d].final = "durable"
    PROVE  /\ DiskType' /\ disk'[d].final = "durable" /\ disk'.request = disk.request
           /\ \A e \in {"launch", "exit"} \ {d} : disk'[e] = disk[e]
<1>1. CASE listed
    <2> DEFINE r == [staging |-> "none", final |-> "durable"]
    <2>1. r \in Receipts /\ r.final = "durable"
        BY DEF Receipts
    <2>2. disk' = [disk EXCEPT ![d] = r]
        BY <1>1 DEF Confirm
    <2> HIDE DEF r
    <2> QED
        BY <2>1, <2>2, Overwrite DEF Shape
<1>2. CASE ~listed
    BY <1>2 DEF Shape, DiskType, Confirm
<1> QED
    BY <1>1, <1>2

(* ... whatever the executor is doing meanwhile.                           *)
LEMMA ConfirmedInv ==
    ASSUME EvidenceInv, NEW d \in {"launch", "exit"}, disk[d].final # "none",
           disk'[d].final = "durable", \A e \in {"launch", "exit"} \ {d} : disk'[e] = disk[e],
           UNCHANGED <<exec, job>>
    PROVE  LaunchInv' /\ ExitInv'
BY DEF EvidenceInv, LaunchInv, ExitInv

LEMMA ListedType == ASSUME Shape PROVE proc[Scheduler].listed \in BOOLEAN
BY Processes DEF Shape, ProcType, Controls

LEMMA ReadLaunchInv == ASSUME EvidenceInv, ReadLaunch \/ ReadAdopt PROVE EvidenceInv'
<1> DEFINE listed == proc[Scheduler].listed
<1>1. listed \in BOOLEAN /\ (~listed => disk.launch.final = "durable")
    BY ListedType DEF EvidenceInv, ReaderInv, ReadLaunch, ReadAdopt, At
<1>2. ASSUME Confirmed("launch", listed), Confirm("launch", listed), UNCHANGED <<row, exec, job>>,
             NEW pc \in {"record", "adopt"}, proc' = [proc EXCEPT ![Scheduler] = [Idle EXCEPT !.pc = pc]]
      PROVE  EvidenceInv'
    <2>1. DiskType' /\ disk'.launch.final = "durable" /\ disk'.exit = disk.exit
        BY <1>1, <1>2, ConfirmStep DEF EvidenceInv
    <2>2. LaunchInv' /\ ExitInv'
        BY <1>2, <2>1, ConfirmedInv DEF Confirmed
    <2>3. [Idle EXCEPT !.pc = pc] \in Controls /\ [Idle EXCEPT !.pc = pc].pc = pc
        BY DEF Idle, Controls, Points, Stages
    <2>4. ProcType' /\ proc'[Scheduler].pc = pc
        BY <1>2, <2>3, Become, Processes DEF EvidenceInv, Shape
    <2>5. Shape'
        BY <1>2, <2>1, <2>4 DEF EvidenceInv, Shape, RowType, ExecType
    <2>6. ReaderInv'
        BY <1>2, <2>1, <2>4 DEF EvidenceInv, ReaderInv
    <2> QED
        BY <2>2, <2>5, <2>6 DEF EvidenceInv
<1>3. ASSUME StopGroup, End("launch"), Exit, UNCHANGED disk
      PROVE  EvidenceInv'
    <2>1. RowType' /\ row'.identity = row.identity /\ row'.outcome = "launch"
        BY <1>3, EndStep DEF EvidenceInv, Shape, Outcomes
    <2>2. ProcType' /\ proc'[Scheduler].pc = "down"
        BY <1>3, ExitStep DEF EvidenceInv, Shape
    <2>3. Stopped /\ Lasting
        BY <1>3, <2>1, <2>2, StopGroupStep, SMT DEF Stopped, Lasting, Relying
    <2>4. Shape'
        BY <1>3, <2>1, <2>2, <2>3, StoppedType DEF EvidenceInv, Shape, DiskType
    <2> QED
        BY <1>3, <2>3, <2>4, StoppedInv
<1>4. ASSUME Return(Scheduler), UNCHANGED <<row, disk, exec, job>>
      PROVE  EvidenceInv'
    <2>1. ProcType' /\ proc'[Scheduler].pc = "idle"
        BY <1>4, ReturnStep, IdleType, Processes DEF EvidenceInv, Shape
    <2>2. Shape' /\ Quiet
        BY <1>4, <2>1
        DEF EvidenceInv, Shape, RowType, DiskType, ExecType, Quiet, SameEvidence, Relying
    <2> QED
        BY <2>2, QuietStep
<1>5. CASE ReadLaunch
    BY <1>2, <1>3, <1>5 DEF ReadLaunch, dbVars
<1>6. CASE ReadAdopt
    BY <1>2, <1>4, <1>6 DEF ReadAdopt, execVars
<1> QED
    BY <1>5, <1>6

LEMMA RecordLaunchedInv == ASSUME EvidenceInv, RecordLaunched PROVE EvidenceInv'
<1>1. UNCHANGED <<disk, exec, job>> /\ disk.launch.final = "durable"
    BY DEF RecordLaunched, execVars, At, EvidenceInv, ReaderInv
<1>2. RowType' /\ row'.outcome = row.outcome
    BY DEF RecordLaunched, EvidenceInv, Shape, RowType, Rows, Active
<1>3. ProcType' /\ proc'[Scheduler].pc = "idle"
    BY ReturnStep, IdleType, Processes DEF RecordLaunched, EvidenceInv, Shape
<1>4. Shape' /\ LaunchInv' /\ ExitInv'
    BY <1>1, <1>2, <1>3 DEF EvidenceInv, Shape, DiskType, ExecType, LaunchInv, ExitInv
<1>5. ReaderInv'
    BY <1>1, <1>2, <1>3 DEF EvidenceInv, ReaderInv
<1> QED
    BY <1>4, <1>5 DEF EvidenceInv

LEMMA RecoverInv == ASSUME EvidenceInv, Recover PROVE EvidenceInv'
<1>1. UNCHANGED <<row, disk, exec, job>>
    BY DEF Recover, execVars
<1>2. CASE disk.launch.final = "none"
    <2>1. Shape' /\ Quiet
        BY <1>1, <1>2
        DEF Recover, EvidenceInv, Shape, RowType, DiskType, ExecType, ProcType, Quiet, SameEvidence
    <2> QED
        BY <2>1, QuietStep
<1>3. CASE disk.launch.final # "none"
    BY <1>1, <1>3, ListedInv DEF Recover
<1> QED
    BY <1>2, <1>3

LEMMA FindReceiptInv == ASSUME EvidenceInv, FinishLocal \/ FindReceipt PROVE EvidenceInv'
BY ListedInv DEF FinishLocal, FindReceipt, dbVars, execVars

LEMMA ReadExitInv == ASSUME EvidenceInv, ReadExit PROVE EvidenceInv'
<1> DEFINE listed == proc[Scheduler].listed
<1>1. /\ listed \in BOOLEAN /\ UNCHANGED <<exec, job>>
      /\ ~listed => disk.exit.final \in {"durable", "none"}
    BY ListedType DEF EvidenceInv, ReaderInv, ReadExit, At, execVars
<1>2. ProcType' /\ proc'[Scheduler].pc = "idle"
    BY ReturnStep, IdleType, Processes DEF EvidenceInv, Shape, ReadExit
<1>3. Accepted \in Outcomes /\ Rejected \in Outcomes \ {"exited", "requeued"}
    BY DEF Accepted, Rejected, Outcomes
<1>4. CASE Confirmed("exit", listed)
    <2>1. Confirm("exit", listed) /\ End(Accepted)
        BY <1>4 DEF ReadExit
    <2>2. DiskType' /\ disk'.exit.final = "durable" /\ disk'.launch = disk.launch
        BY <1>1, <1>4, <2>1, ConfirmStep DEF EvidenceInv, Confirmed
    <2>3. LaunchInv' /\ ExitInv'
        BY <1>1, <1>4, <2>2, ConfirmedInv DEF Confirmed
    <2>4. RowType' /\ row'.identity = row.identity
        BY <1>3, <2>1, EndStep DEF EvidenceInv, Shape
    <2>5. Shape'
        BY <1>1, <1>2, <2>2, <2>4 DEF EvidenceInv, Shape, ExecType
    <2>6. ReaderInv'
        BY <1>2, <2>2, <2>4 DEF EvidenceInv, ReaderInv
    <2> QED
        BY <2>3, <2>5, <2>6 DEF EvidenceInv
<1>5. CASE ~Confirmed("exit", listed)
    <2>1. UNCHANGED disk /\ End(Rejected)
        BY <1>5 DEF ReadExit
    <2>2. RowType' /\ row'.identity = row.identity /\ row'.outcome \notin {"exited", "requeued"}
        BY <1>3, <2>1, EndStep DEF EvidenceInv, Shape
    <2>3. Shape' /\ LaunchInv' /\ ExitInv'
        BY <1>1, <1>2, <2>1, <2>2
        DEF EvidenceInv, Shape, DiskType, ExecType, LaunchInv, ExitInv
    <2>4. ReaderInv'
        BY <1>2, <2>1, <2>2 DEF EvidenceInv, ReaderInv
    <2> QED
        BY <2>3, <2>4 DEF EvidenceInv
<1> QED
    BY <1>4, <1>5

(* A host crash: a durable entry survives, a volatile one is gone or has   *)
(* become durable, and every process is gone.                              *)
LEMMA SurvivorType ==
    ASSUME NEW r \in Receipts, NEW s \in Survivors(r)
    PROVE  /\ s \in Receipts /\ s.staging = r.staging /\ s.final \in {"none", "durable"}
           /\ r.final = "durable" => s.final = "durable"
           /\ r.final = "none" => s.final = "none"
<1>1. PICK f \in IF r.final = "volatile" THEN {"none", "durable"} ELSE {r.final} :
          s = [r EXCEPT !.final = f]
    BY DEF Survivors
<1> QED
    BY <1>1 DEF Receipts

LEMMA CrashedDisk ==
    ASSUME Shape, HostCrashes
    PROVE  /\ DiskType' /\ disk'.launch \in Survivors(disk.launch)
           /\ disk'.exit \in Survivors(disk.exit)
           /\ disk'.request = disk.request \/ (disk.request = "torn" /\ disk'.request = "none")
<1>1. PICK l \in Survivors(disk.launch), e \in Survivors(disk.exit),
           f \in {disk.payload, IF disk.payload = "torn" THEN "none" ELSE disk.payload},
           q \in {disk.request, IF disk.request = "torn" THEN "none" ELSE disk.request} :
          disk' = [disk EXCEPT !.launch = l, !.exit = e, !.payload = f, !.request = q]
    BY DEF HostCrashes
<1>2. l \in Receipts /\ e \in Receipts
    BY ReceiptTypes, SurvivorType DEF Shape
<1>3. disk \in Disks /\ f \in Files /\ q \in Files
    BY DEF Shape, DiskType, Disks, Files
<1> QED
    BY <1>1, <1>2, <1>3 DEF DiskType, Disks

LEMMA HostCrashesInv == ASSUME EvidenceInv, HostCrashes PROVE EvidenceInv'
<1>1. /\ DiskType' /\ disk'.launch \in Receipts /\ disk'.exit \in Receipts
      /\ disk'.launch.final \in {"none", "durable"} /\ disk'.exit.final \in {"none", "durable"}
      /\ \A d \in {"launch", "exit"} :
             /\ disk[d].final = "durable" => disk'[d].final = "durable"
             /\ disk[d].final = "none" => disk'[d].final = "none"
    BY CrashedDisk, ReceiptTypes, SurvivorType, SMT DEF EvidenceInv, Shape
<1>2. UNCHANGED row /\ ExecType' /\ exec'.phase \in {"none", "gone"}
    BY DEF HostCrashes, dbVars, EvidenceInv, Shape, ExecType, Execs, Jobs
<1>3. exec'.phase = "none" => exec.phase = "none"
    BY DEF HostCrashes, EvidenceInv, Shape, ExecType, Execs
<1>4. job' \in {"none", "over"} /\ (job' # "none" => job # "none")
    BY DEF HostCrashes
<1>5. ProcType' /\ proc'[Scheduler].pc = "down"
    <2>1. [Idle EXCEPT !.pc = "down"] \in Controls /\ [Idle EXCEPT !.pc = "down"].pc = "down"
        BY DEF Idle, Controls, Points, Stages
    <2> QED
        BY <2>1, IdleType, Processes DEF HostCrashes, ProcType
<1>6. Shape'
    BY <1>1, <1>2, <1>5 DEF EvidenceInv, Shape, RowType
<1>7. LaunchInv'
    BY <1>1, <1>2, <1>4 DEF EvidenceInv, LaunchInv
<1>8. ExitInv'
    BY <1>1, <1>2, <1>3, <1>4 DEF EvidenceInv, ExitInv
<1>9. ReaderInv'
    BY <1>1, <1>2, <1>5 DEF EvidenceInv, ReaderInv
<1> QED
    BY <1>6, <1>7, <1>8, <1>9 DEF EvidenceInv

-------------------------------------------------------------------------------
(* The invariant holds in every behaviour.                                 *)

LEMMA InitEvidence == ASSUME Init PROVE EvidenceInv
<1>1. Shape
    BY IdleType
    DEF Init, Shape, RowType, Rows, Active, Terminating, Stages, Outcomes, DiskType, Disks, Files,
        NoReceipt, Receipts, ExecType, Execs, Jobs, ProcType
<1>2. proc[Scheduler].pc = "idle"
    BY IdleType, Processes DEF Init
<1>3. LaunchInv /\ ExitInv
    BY DEF Init, NoReceipt, LaunchInv, ExitInv
<1>4. ReaderInv
    BY <1>2 DEF Init, ReaderInv
<1> QED
    BY <1>1, <1>3, <1>4 DEF EvidenceInv

LEMMA SignalInv == ASSUME EvidenceInv, NEW p \in Procs, Signal(p) PROVE EvidenceInv'
<1>1. CASE Publish(p) \/ Published(p) \/ ClaimSignal(p) \/ RecordResult(p)
    BY <1>1, PublishQuiet, PublishedQuiet, ClaimSignalQuiet, RecordResultQuiet, QuietStep
    DEF EvidenceInv
<1> QED
    BY <1>1, SignalYieldInv, DeliverInv DEF Signal

LEMMA SchedulerStepInv == ASSUME EvidenceInv, SchedulerStep PROVE EvidenceInv'
<1>1. CASE \/ PreparePayload \/ WritePayload \/ Start \/ Attend \/ PauseAmbiguous
           \/ RecoverPending \/ ReplayStage
    BY <1>1, PreparePayloadQuiet, WritePayloadQuiet, StartQuiet, AttendQuiet, PauseAmbiguousQuiet,
       RecoverPendingQuiet, ReplayStageQuiet, QuietStep
    DEF EvidenceInv
<1>2. CASE \/ Spawn \/ Await \/ ReadLaunch \/ RecordLaunched \/ Recover \/ ReadAdopt \/ FinishLocal
           \/ FindReceipt \/ ReadExit \/ Signal(Scheduler)
    BY <1>2, SpawnInv, AwaitInv, ReadLaunchInv, RecordLaunchedInv, RecoverInv, FindReceiptInv,
       ReadExitInv, SignalInv, Processes
<1> QED
    BY <1>1, <1>2 DEF SchedulerStep

LEMMA NextEvidence == ASSUME EvidenceInv, [Next]_vars PROVE EvidenceInv'
<1>1. CASE SchedulerStep
    BY <1>1, SchedulerStepInv
<1>2. CASE ExecutorStep
    BY <1>2, StageInv, LinkInv, SettleInv, UnstageInv, BootInv, ForkInv, ReplayInv, ReapInv
    DEF ExecutorStep
<1>3. CASE OperatorStep
    BY <1>3, RequestYieldQuiet, RequestTerminationQuiet, QuietStep, SignalInv, Processes
    DEF OperatorStep, EvidenceInv
<1>4. CASE JobEnds
    BY <1>4, JobEndsInv
<1>5. CASE JobAnswers \/ GraceEnds \/ RetryLeaseEnds \/ StartScheduler \/ UNCHANGED vars
    BY <1>5, JobAnswersQuiet, TimeQuiet, RestartQuiet, StutterQuiet, QuietStep DEF EvidenceInv
<1>6. CASE Fault
    BY <1>6, ExecutorEndsInv, HostCrashesInv, RestartQuiet, OperatorDiesQuiet, QuietStep
    DEF Fault, EvidenceInv
<1> QED
    BY <1>1, <1>2, <1>3, <1>4, <1>5, <1>6 DEF Next

LEMMA Inductive == Spec => []EvidenceInv
<1>1. Init => EvidenceInv
    BY InitEvidence
<1>2. EvidenceInv /\ [Next]_vars => EvidenceInv'
    BY NextEvidence
<1> QED
    BY <1>1, <1>2, PTL DEF Spec

(* No scientific process without a durable launch receipt, and nothing in  *)
(* the database that a host crash could contradict, for any number of      *)
(* crashes (_publish_launch_receipt, confirm_immutable_evidence_for_read). *)
THEOREM RelianceIsDurable == Spec => []EvidenceIsDurable
<1>1. EvidenceInv => EvidenceIsDurable
    BY DEF EvidenceInv, LaunchInv, ReaderInv, EvidenceIsDurable
<1> QED
    BY <1>1, Inductive, PTL

(* An exit receipt is only visible when the whole process group is over    *)
(* (execute_payload drains the group before it publishes).                 *)
THEOREM ExitReceiptIsFinal == Spec => []ExitReceiptMeansOver
<1>1. EvidenceInv => ExitReceiptMeansOver
    BY DEF EvidenceInv, ExitInv, ExitReceiptMeansOver
<1> QED
    BY <1>1, Inductive, PTL

-------------------------------------------------------------------------------
(* The executor's record of signals.                                       *)

Signals == [sent : SUBSET (Graceful \cup {"KILL"}), accepted : SUBSET Graceful,
            held : Seq(Graceful), heard : [Graceful -> Nat]]

SigType == sig \in Signals

LEMMA HeardType == ASSUME NEW n \in Nat PROVE HeardBy(n) \in Nat
BY SMT DEF HeardBy

LEMMA HandleType ==
    ASSUME SigType, NEW s \in Graceful
    PROVE  Handle(s) \in Signals /\ Handle(s).sent = sig.sent
<1>1. CASE s \in sig.accepted
    BY <1>1 DEF Handle, SigType, Signals
<1>2. CASE s \notin sig.accepted /\ exec.phase \in {"announcing", "forking"}
    <2>1. Handle(s) = [sig EXCEPT !.accepted = @ \cup {s}, !.held = Append(@, s)]
        BY <1>2 DEF Handle
    <2>2. sig.accepted \cup {s} \subseteq Graceful /\ Append(sig.held, s) \in Seq(Graceful)
        BY SMT DEF SigType, Signals
    <2> QED
        BY <2>1, <2>2 DEF SigType, Signals
<1>3. CASE s \notin sig.accepted /\ exec.phase \notin {"announcing", "forking"}
    <2> DEFINE n == HeardBy(sig.heard[s])
    <2>1. Handle(s) = [sig EXCEPT !.accepted = sig.accepted \cup {s}, !.heard = [sig.heard EXCEPT ![s] = n]]
        BY <1>3 DEF Handle, SigType, Signals
    <2>2. n \in Nat
        BY HeardType DEF SigType, Signals
    <2> HIDE DEF n
    <2>3. sig.accepted \cup {s} \subseteq Graceful /\ [sig.heard EXCEPT ![s] = n] \in [Graceful -> Nat]
        BY <2>2 DEF SigType, Signals
    <2> QED
        BY <2>1, <2>3 DEF SigType, Signals
<1> QED
    BY <1>1, <1>2, <1>3

LEMMA ReceiveType ==
    ASSUME SigType, NEW s \in Graceful, Receive(s)
    PROVE  SigType' /\ sig'.sent = sig.sent \cup {s}
<1>1. CASE exec.phase # "reporting"
    <2> DEFINE h == Handle(s)
    <2>1. h \in Signals /\ h.sent = sig.sent
        BY HandleType
    <2>2. sig' = [h EXCEPT !.sent = @ \cup {s}]
        BY <1>1 DEF Receive
    <2> HIDE DEF h
    <2> QED
        BY <2>1, <2>2 DEF SigType, Signals
<1>2. CASE exec.phase = "reporting"
    <2>1. sig' = [sig EXCEPT !.sent = @ \cup {s}]
        BY <1>2 DEF Receive
    <2> QED
        BY <2>1 DEF SigType, Signals
<1> QED
    BY <1>1, <1>2

LEMMA ReplayType == ASSUME SigType, Replay PROVE SigType' /\ sig'.sent = sig.sent
<1>1. CASE sig' = [sig EXCEPT !.held = <<>>]
    <2> DEFINE empty == <<>>
    <2>1. empty \in Seq(Graceful) /\ sig' = [sig EXCEPT !.held = empty]
        BY <1>1, SMT
    <2> HIDE DEF empty
    <2> QED
        BY <2>1 DEF SigType, Signals
<1>2. CASE /\ sig.held # <<>>
           /\ sig' = [sig EXCEPT !.held = Tail(@), !.heard[Head(sig.held)] = HeardBy(@)]
    <2> DEFINE h == Head(sig.held)
               n == HeardBy(sig.heard[h])
    <2>1. h \in Graceful /\ Tail(sig.held) \in Seq(Graceful)
        BY <1>2, SMT DEF SigType, Signals
    <2>2. n \in Nat
        BY <2>1, HeardType DEF SigType, Signals
    <2>3. sig' = [sig EXCEPT !.held = Tail(sig.held), !.heard = [sig.heard EXCEPT ![h] = n]]
        BY <1>2 DEF SigType, Signals
    <2> HIDE DEF n, h
    <2>4. [sig.heard EXCEPT ![h] = n] \in [Graceful -> Nat]
        BY <2>1, <2>2 DEF SigType, Signals
    <2> QED
        BY <2>1, <2>3, <2>4 DEF SigType, Signals
<1> QED
    BY <1>1, <1>2 DEF Replay

LEMMA DeliverType == ASSUME SigType, NEW p \in Procs, Deliver(p) PROVE SigType'
<1>1. CASE SignalOf(proc[p].stage) \in Graceful /\ Receive(SignalOf(proc[p].stage))
    BY <1>1, ReceiveType
<1>2. CASE SignalOf(proc[p].stage) = "KILL" /\ sig' = [sig EXCEPT !.sent = @ \cup {SignalOf(proc[p].stage)}]
    BY <1>2 DEF SigType, Signals
<1>3. CASE UNCHANGED sig
    BY <1>3 DEF SigType
<1> QED
    BY <1>1, <1>2, <1>3 DEF Deliver, execVars

LEMMA SignalYieldType == ASSUME SigType, NEW p \in Procs, SignalYield(p) PROVE SigType'
<1>1. CASE Receive("INT")
    BY <1>1, ReceiveType DEF Graceful
<1>2. CASE UNCHANGED sig
    BY <1>2 DEF SigType
<1> QED
    BY <1>1, <1>2 DEF SignalYield

(* Every other step leaves the record alone.                               *)
LEMMA OtherSteps ==
    ASSUME [Next]_vars
    PROVE  \/ UNCHANGED sig \/ Replay
           \/ \E p \in Procs : SignalYield(p) \/ Deliver(p)
<1>1. CASE SchedulerStep
    BY <1>1, Processes
    DEF SchedulerStep, Signal, PreparePayload, WritePayload, Start, Spawn, Await, ReadLaunch,
        RecordLaunched, Recover, ReadAdopt, Attend, FinishLocal, FindReceipt, PauseAmbiguous,
        ReadExit, RecoverPending, ReplayStage, Publish, Published, ClaimSignal, RecordResult, execVars
<1>2. CASE ExecutorStep
    BY <1>2 DEF ExecutorStep, Stage, Link, Settle, Unstage, PublicationStep, Boot, Fork, Reap, Drain
<1>3. CASE OperatorStep
    BY <1>3, Processes
    DEF OperatorStep, Signal, RequestYield, RequestTermination, Publish, Published, ClaimSignal,
        RecordResult, execVars
<1>4. CASE Fault
    BY <1>4
    DEF Fault, PublicationFails, SchedulerCrashes, ExecutorDies, HostCrashes, OperatorDies, execVars
<1>5. CASE JobEnds \/ JobAnswers \/ GraceEnds \/ RetryLeaseEnds \/ StartScheduler \/ UNCHANGED vars
    BY <1>5 DEF JobEnds, JobAnswers, GraceEnds, RetryLeaseEnds, StartScheduler, execVars, vars
<1> QED
    BY <1>1, <1>2, <1>3, <1>4, <1>5 DEF Next

LEMMA SignalsTyped == Spec => []SigType
<1>1. Init => SigType
    BY SMT DEF Init, SigType, Signals
<1>2. SigType /\ [Next]_vars => SigType'
    BY OtherSteps, ReplayType, SignalYieldType, DeliverType DEF SigType
<1> QED
    BY <1>1, <1>2, PTL DEF Spec

-------------------------------------------------------------------------------
(* Evidence is never lost.                                                 *)

NeverLost ==
    \A d \in {"launch", "exit"} :
        Durable(d) => Durable(d)' \/ (d = "exit" /\ InterruptedBeforeLink)

LEMMA SameReceiptsKeep == ASSUME disk'.launch = disk.launch, disk'.exit = disk.exit PROVE NeverLost
BY DEF NeverLost, Durable

LEMMA PublicationKeeps == ASSUME EvidenceInv, Stage \/ Link \/ Settle \/ Unstage PROVE NeverLost
<1>1. ASSUME NEW from, NEW next \in Execs, NEW r \in Receipts, PublicationStep(from, next, r),
             r.staging = "kept" \/ r.final = "durable" \/ (r.staging = Here.staging /\ r.final = Here.final)
      PROVE  NeverLost
    BY <1>1, PublicationEffect, HereType, SMT DEF EvidenceInv, NeverLost, Durable
<1>2. Here \in Receipts
    BY HereType DEF EvidenceInv
<1>3. CASE Stage
    <2>1. [Here EXCEPT !.staging = "kept"] \in Receipts /\ [Here EXCEPT !.staging = "kept"].staging = "kept"
        BY <1>2 DEF Receipts
    <2> QED
        BY <1>1, <1>3, <2>1, StepType DEF Stage, EvidenceInv
<1>4. CASE Link
    <2>1. PublicationStep("stable", Step("linked"), [Here EXCEPT !.final = "volatile"])
        BY <1>4 DEF Link
    <2>2. Here.staging = "kept"
        BY <2>1, HereType DEF EvidenceInv, LaunchInv, ExitInv, PublicationStep
    <2>3. /\ [Here EXCEPT !.final = "volatile"] \in Receipts
          /\ [Here EXCEPT !.final = "volatile"].staging = "kept"
        BY <1>2, <2>2 DEF Receipts
    <2> QED
        BY <1>1, <2>1, <2>3, StepType DEF EvidenceInv
<1>5. CASE Settle
    <2>1. [Here EXCEPT !.final = "durable"] \in Receipts /\ [Here EXCEPT !.final = "durable"].final = "durable"
        BY <1>2 DEF Receipts
    <2> QED
        BY <1>1, <1>5, <2>1, StepType DEF Settle, EvidenceInv
<1>6. CASE Unstage
    <2>1. PICK left \in {"none", Here.staging} :
              PublicationStep("final", AfterPublication, [Here EXCEPT !.staging = left])
        BY <1>6 DEF Unstage
    <2>2. Here.final = "durable"
        BY <2>1, HereType DEF EvidenceInv, LaunchInv, ExitInv, PublicationStep
    <2>3. [Here EXCEPT !.staging = left] \in Receipts /\ [Here EXCEPT !.staging = left].final = "durable"
        BY <1>2, <2>1, <2>2 DEF Receipts
    <2>4. AfterPublication \in Execs
        BY DEF AfterPublication, Execs
    <2> QED
        BY <1>1, <2>1, <2>3, <2>4
<1> QED
    BY <1>3, <1>4, <1>5, <1>6

LEMMA SignalKeeps ==
    ASSUME EvidenceInv, NEW s \in Graceful, Receive(s), UNCHANGED crashes
    PROVE  NeverLost
<1>1. CASE UNCHANGED disk
    BY <1>1, SameReceiptsKeep
<1>2. CASE /\ disk' = [disk EXCEPT !.exit.staging = "none"]
           /\ exec.phase = "reporting" /\ exec.step = "stable" /\ s = "INT"
    <2>1. disk'.launch = disk.launch
        BY <1>2, ReceiptTypes DEF EvidenceInv, Shape, DiskType, Disks
    <2>2. InterruptedBeforeLink
        BY <1>2 DEF InterruptedBeforeLink
    <2> QED
        BY <2>1, <2>2 DEF NeverLost, Durable
<1> QED
    BY <1>1, <1>2 DEF Receive

LEMMA ConfirmKeeps ==
    ASSUME Shape, NEW d \in {"launch", "exit"}, NEW listed, Confirm(d, listed)
    PROVE  NeverLost
<1>1. CASE listed
    <2> DEFINE r == [staging |-> "none", final |-> "durable"]
    <2>1. r \in Receipts /\ r.final = "durable"
        BY DEF Receipts
    <2>2. disk' = [disk EXCEPT ![d] = r]
        BY <1>1 DEF Confirm
    <2> HIDE DEF r
    <2> QED
        BY <2>1, <2>2, Overwrite, SMT DEF Shape, NeverLost, Durable
<1>2. CASE ~listed
    BY <1>2, SameReceiptsKeep DEF Confirm
<1> QED
    BY <1>1, <1>2

LEMMA CrashKeeps == ASSUME Shape, HostCrashes PROVE NeverLost
BY CrashedDisk, ReceiptTypes, SurvivorType, SMT DEF Shape, NeverLost, Durable

LEMMA SignallingKeeps == ASSUME EvidenceInv, NEW p \in Procs, Signal(p) PROVE NeverLost
<1>1. CASE Publish(p) \/ Published(p) \/ ClaimSignal(p) \/ RecordResult(p)
    BY <1>1, PublishQuiet, PublishedQuiet, ClaimSignalQuiet, RecordResultQuiet, SameReceiptsKeep
    DEF EvidenceInv, Quiet, SameEvidence
<1>2. CASE SignalYield(p)
    <2>1. CASE Receive("INT")
        BY <1>2, <2>1, SignalKeeps DEF Graceful, SignalYield
    <2> QED
        BY <1>2, <2>1, SameReceiptsKeep DEF SignalYield
<1>3. CASE Deliver(p)
    <2> DEFINE s == SignalOf(proc[p].stage)
    <2>1. CASE s \in Graceful /\ Receive(s)
        BY <1>3, <2>1, SignalKeeps DEF Deliver
    <2>2. CASE UNCHANGED disk
        BY <2>2, SameReceiptsKeep
    <2> QED
        BY <1>3, <2>1, <2>2 DEF Deliver
<1> QED
    BY <1>1, <1>2, <1>3 DEF Signal

LEMMA SchedulerKeeps == ASSUME EvidenceInv, SchedulerStep PROVE NeverLost
<1>1. CASE \/ PreparePayload \/ WritePayload \/ Start \/ Attend \/ PauseAmbiguous
           \/ RecoverPending \/ ReplayStage
    BY <1>1, PreparePayloadQuiet, WritePayloadQuiet, StartQuiet, AttendQuiet, PauseAmbiguousQuiet,
       RecoverPendingQuiet, ReplayStageQuiet, SameReceiptsKeep
    DEF EvidenceInv, Quiet, SameEvidence
<1>2. CASE \/ Spawn \/ Await \/ RecordLaunched \/ Recover \/ FinishLocal \/ FindReceipt
    BY <1>2, SameReceiptsKeep DEF Spawn, Await, RecordLaunched, Recover, FinishLocal, FindReceipt
<1>3. CASE ReadLaunch \/ ReadAdopt \/ ReadExit
    <2> DEFINE listed == proc[Scheduler].listed
    <2>1. Confirm("launch", listed) \/ Confirm("exit", listed) \/ UNCHANGED disk
        BY <1>3 DEF ReadLaunch, ReadAdopt, ReadExit
    <2> QED
        BY <2>1, ConfirmKeeps, SameReceiptsKeep DEF EvidenceInv
<1>4. CASE Signal(Scheduler)
    BY <1>4, SignallingKeeps, Processes
<1> QED
    BY <1>1, <1>2, <1>3, <1>4 DEF SchedulerStep

(* A receipt that is durable under one of its names stays so, for any      *)
(* number of errors, readers, crashes and signals; only the interrupt of   *)
(* an executor between staging and linking its exit receipt takes it       *)
(* (_publish_immutable_json).                                              *)
THEOREM EvidenceLasts == Spec => EvidenceIsNeverLost
<1>1. ASSUME EvidenceInv, [Next]_vars PROVE [NeverLost]_vars
    <2>1. CASE SchedulerStep
        BY <1>1, <2>1, SchedulerKeeps
    <2>2. CASE ExecutorStep
        BY <1>1, <2>2, PublicationKeeps, SameReceiptsKeep DEF ExecutorStep, Boot, Fork, Replay, Reap, Drain
    <2>3. CASE OperatorStep
        BY <1>1, <2>3, SignallingKeeps, RequestYieldQuiet, RequestTerminationQuiet, SameReceiptsKeep,
           Processes
        DEF OperatorStep, EvidenceInv, Quiet, SameEvidence
    <2>4. CASE Fault
        BY <1>1, <2>4, CrashKeeps, SameReceiptsKeep
        DEF Fault, PublicationFails, SchedulerCrashes, ExecutorDies, OperatorDies, EvidenceInv
    <2>5. CASE JobEnds \/ GraceEnds \/ RetryLeaseEnds \/ StartScheduler
        BY <2>5, SameReceiptsKeep DEF JobEnds, GraceEnds, RetryLeaseEnds, StartScheduler
    <2>6. CASE JobAnswers
        BY <1>1, <2>6, JobAnswersQuiet, SameReceiptsKeep DEF EvidenceInv, Quiet, SameEvidence
    <2> QED
        BY <1>1, <2>1, <2>2, <2>3, <2>4, <2>5, <2>6 DEF Next
<1> QED
    BY <1>1, Inductive, PTL DEF Spec, EvidenceIsNeverLost, NeverLost

-------------------------------------------------------------------------------
(***************************************************************************)
(* What a job hears, for any number of operator processes and of crashes:  *)
(* each graceful signal at most once, an interrupt for a yield only with a *)
(* complete request, and no signal before the gentler ones were sent. The  *)
(* inductive invariant relates the stage of the row, the stages processes  *)
(* remember, the signals sent and the request file.                        *)
(***************************************************************************)

Gone == exec.phase = "gone"

(* The handler's bookkeeping: what was heard or is held back was accepted, *)
(* and nothing is both.                                                    *)
HeardInv ==
    /\ \A s \in Graceful : sig.heard[s] <= 1 /\ (s \notin sig.accepted => sig.heard[s] = 0)
    /\ \A i \in 1 .. Len(sig.held) : sig.held[i] \in sig.accepted /\ sig.heard[sig.held[i]] = 0
    /\ \A i, j \in 1 .. Len(sig.held) : sig.held[i] = sig.held[j] => i = j

(* The request file while processes publish it and signal for it.          *)
RequestInv ==
    /\ \A p \in Procs :
         /\ proc[p].pc = "publishing" => disk.request = "torn"
         /\ proc[p].pc \in {"claim", "signal"} => disk.request = "whole"
    /\ \A p, q \in Procs : proc[p].pc = "publishing" /\ proc[q].pc = "publishing" => p = q
    /\ "INT" \in sig.accepted /\ row.stage = "none" => disk.request = "whole"

(* A segment has one executor, and nobody asks to terminate it before it   *)
(* is there.                                                               *)
LifeInv ==
    /\ row.state \in {"queued", "starting"} => ~row.identity
    /\ row.state = "queued" => exec.phase = "none"
    /\ proc[Scheduler].pc \in {"write", "start"} => row.state = "queued"
    /\ proc[Scheduler].pc = "spawn" => exec.phase = "none" /\ row.state # "queued"
    /\ proc[Scheduler].pc \in {"await", "readLaunch"} => exec.phase # "none"
    /\ disk.launch.final # "none" => exec.phase # "none"
    /\ row.state \in Terminating => row.stage # "none"
    /\ row.state = "force_killing" => row.stage = "kill"

(* A stage was recorded, by the row or by a process, only when the stages  *)
(* before it were signalled, or the executor is gone.                      *)
Before(stage) ==
    /\ stage = "terminate" => "INT" \in sig.sent \/ Gone
    /\ stage = "kill" => row.forced \/ Graceful \subseteq sig.sent \/ Gone

SentInv ==
    /\ Before(row.stage)
    /\ \A p \in Procs : proc[p].pc \in {"replay", "deliver"} =>
         /\ exec.phase # "none" /\ row.stage # "none" /\ proc[p].stage # "none"
         /\ Before(proc[p].stage)
    /\ \A stage \in mem.replayed : SignalOf(stage) \in sig.sent \/ Gone
    /\ GracefulFirst

MemType == mem \in [local : BOOLEAN, replayed : SUBSET {"interrupt", "terminate", "kill"}]

ControlInv == MemType /\ HeardInv /\ RequestInv /\ LifeInv /\ SentInv

-------------------------------------------------------------------------------
(* Steps that signal nobody, publish nothing and start nothing.            *)

Marked ==
    {"write", "start", "spawn", "await", "readLaunch", "publishing", "claim", "signal",
     "replay", "deliver"}

(* Every process stays where it is or goes where the invariant asks for    *)
(* nothing.                                                                *)
Unmarked == \A p \in Procs :
    \/ proc'[p] = proc[p]
    \/ proc'[p].pc \notin Marked
    \/ proc'[p].pc = "readLaunch" /\ proc[p].pc = "await"

SameRow ==
    /\ row'.stage = row.stage /\ row'.forced = row.forced /\ row'.identity = row.identity
    /\ \/ row'.state = row.state
       \/ /\ row'.state \in {"yielding", "ended"}
          /\ row.state # "queued" \/ proc'[Scheduler].pc \notin Marked

SameExecutor ==
    /\ exec.phase = "none" <=> exec'.phase = "none"
    /\ Gone => Gone'
    /\ disk'.launch.final # "none" => disk.launch.final # "none" \/ exec.phase # "none"

Calm ==
    /\ SameRow /\ SameExecutor /\ Unmarked
    /\ UNCHANGED sig /\ disk'.request = disk.request
    /\ mem' = mem \/ mem' = NoMemory

LEMMA CalmStep == ASSUME ControlInv, Calm PROVE ControlInv'
<1>1. MemType'
    <2>1. NoMemory \in [local : BOOLEAN, replayed : SUBSET {"interrupt", "terminate", "kill"}]
        BY DEF NoMemory
    <2> QED
        BY <2>1 DEF ControlInv, MemType, Calm
<1>2. HeardInv'
    BY DEF ControlInv, HeardInv, Calm
<1>3. RequestInv'
    BY DEF ControlInv, RequestInv, Calm, SameRow, Unmarked, Marked
<1>4. LifeInv'
    <2>1. /\ row'.state \in {"queued", "starting"} => ~row'.identity
          /\ row'.state = "queued" => exec'.phase = "none"
          /\ disk'.launch.final # "none" => exec'.phase # "none"
          /\ row'.state \in Terminating => row'.stage # "none"
          /\ row'.state = "force_killing" => row'.stage = "kill"
        BY DEF ControlInv, LifeInv, Calm, SameRow, SameExecutor, Terminating
    <2>2. /\ proc'[Scheduler].pc \in {"write", "start"} => row'.state = "queued"
          /\ proc'[Scheduler].pc = "spawn" => exec'.phase = "none" /\ row'.state # "queued"
          /\ proc'[Scheduler].pc \in {"await", "readLaunch"} => exec'.phase # "none"
        BY Processes DEF ControlInv, LifeInv, Calm, SameRow, SameExecutor, Unmarked, Marked
    <2> QED
        BY <2>1, <2>2 DEF LifeInv
<1>5. SentInv'
    <2>1. row'.stage = row.stage /\ row'.forced = row.forced /\ UNCHANGED sig /\ (Gone => Gone')
        BY DEF Calm, SameRow, SameExecutor
    <2>2. Before(row.stage)'
        BY <2>1 DEF ControlInv, SentInv, Before
    <2>3. ASSUME NEW p \in Procs, proc'[p].pc \in {"replay", "deliver"}
          PROVE  /\ exec'.phase # "none" /\ row'.stage # "none" /\ proc'[p].stage # "none"
                 /\ Before(proc[p].stage)'
        <3>1. proc'[p] = proc[p]
            BY <2>3 DEF Calm, Unmarked, Marked
        <3> QED
            BY <2>1, <2>3, <3>1 DEF ControlInv, SentInv, Before, Calm, SameExecutor
    <2>4. \A stage \in mem'.replayed : SignalOf(stage) \in sig'.sent \/ Gone'
        <3>1. CASE mem' = NoMemory
            BY <3>1 DEF NoMemory
        <3>2. CASE mem' = mem
            BY <2>1, <3>2 DEF ControlInv, SentInv
        <3> QED
            BY <3>1, <3>2 DEF Calm
    <2>5. GracefulFirst'
        BY DEF ControlInv, SentInv, GracefulFirst, Calm, SameRow
    <2> QED
        BY <2>2, <2>3, <2>4, <2>5 DEF SentInv
<1> QED
    BY <1>1, <1>2, <1>3, <1>4, <1>5 DEF ControlInv

LEMMA Alone ==
    ASSUME NEW p \in Procs,
           proc'[p].pc \notin Marked \/ (proc'[p].pc = "readLaunch" /\ proc[p].pc = "await"),
           \A q \in Procs \ {p} : proc'[q] = proc[q]
    PROVE  Unmarked
BY DEF Unmarked

(* Steps of the scheduler that leave the row, the executor, the signals    *)
(* and the request alone.                                                  *)
LEMMA StillCalm ==
    ASSUME UNCHANGED <<row, exec, sig>>, mem' = mem \/ mem' = NoMemory, Unmarked,
           disk'.request = disk.request,
           disk'.launch.final # "none" => disk.launch.final # "none"
    PROVE  Calm
BY DEF Calm, SameRow, SameExecutor, Gone

LEMMA RecoverCalm ==
    ASSUME Shape, Recover \/ FinishLocal \/ FindReceipt \/ PauseAmbiguous \/ RecoverPending
    PROVE  Calm
<1>1. UNCHANGED <<row, exec, sig, disk, mem>>
    BY DEF Recover, FinishLocal, FindReceipt, PauseAmbiguous, RecoverPending, dbVars, execVars
<1>2. Unmarked
    <2>1. CASE UNCHANGED proc
        BY <2>1 DEF Unmarked
    <2>2. ASSUME NEW d, NEW pc \in {"readAdopt", "readExit"}, List(Scheduler, d, pc) PROVE Unmarked
        BY <2>2, ListStep, Processes, Alone DEF Shape, Points, Marked
    <2>3. CASE Goto(Scheduler, "publish")
        BY <2>3, GotoStep, Processes, Alone DEF Shape, Points, Marked
    <2>4. CASE Uncertain(Scheduler)
        BY <2>4, UncertainStep, IdleType, Processes, Alone DEF Shape, Marked
    <2> QED
        BY <2>1, <2>2, <2>3, <2>4 DEF Recover, FinishLocal, FindReceipt, PauseAmbiguous, RecoverPending
<1> QED
    BY <1>1, <1>2, StillCalm

LEMMA ReadAdoptCalm == ASSUME EvidenceInv, ReadAdopt PROVE Calm
<1> DEFINE listed == proc[Scheduler].listed
<1>1. UNCHANGED <<row, exec, sig, mem>>
    BY DEF ReadAdopt, execVars
<1>2. CASE Confirmed("launch", listed)
    <2>1. Confirm("launch", listed) /\ disk.launch.final # "none"
        BY <1>2 DEF ReadAdopt, Confirmed
    <2>2. listed \in BOOLEAN /\ (~listed => disk.launch.final = "durable")
        BY ListedType DEF EvidenceInv, ReaderInv, ReadAdopt, At
    <2>3. disk'.request = disk.request
        BY <1>2, <2>1, <2>2, ConfirmStep DEF EvidenceInv
    <2>4. [Idle EXCEPT !.pc = "adopt"] \in Controls /\ [Idle EXCEPT !.pc = "adopt"].pc = "adopt"
        BY DEF Idle, Controls, Points, Stages
    <2>5. proc' = [proc EXCEPT ![Scheduler] = [Idle EXCEPT !.pc = "adopt"]]
        BY <1>2 DEF ReadAdopt
    <2>6. Unmarked
        BY <2>4, <2>5, Become, Processes, Alone DEF EvidenceInv, Shape, Marked
    <2> QED
        BY <1>1, <2>1, <2>3, <2>6, StillCalm
<1>3. CASE ~Confirmed("launch", listed)
    <2>1. Return(Scheduler) /\ UNCHANGED disk
        BY <1>3 DEF ReadAdopt
    <2>2. Unmarked
        BY <2>1, ReturnStep, IdleType, Processes, Alone DEF EvidenceInv, Shape, Marked
    <2> QED
        BY <1>1, <2>1, <2>2, StillCalm
<1> QED
    BY <1>2, <1>3

LEMMA AwaitCalm == ASSUME EvidenceInv, ControlInv, Await PROVE Calm
<1>1. UNCHANGED <<sig, disk, mem>> /\ proc[Scheduler].pc = "await"
    BY DEF Await, At
<1>2. CASE List(Scheduler, "launch", "readLaunch") /\ UNCHANGED <<dbVars, exec, job>>
    <2>1. Unmarked
        BY <1>1, <1>2, ListStep, Processes, Alone DEF EvidenceInv, Shape, Points, Marked
    <2> QED
        BY <1>1, <1>2, <2>1, StillCalm DEF dbVars
<1>3. CASE StopGroup /\ End("launch") /\ Return(Scheduler) /\ exec.phase # "none"
    <2>1. proc'[Scheduler].pc = "idle" /\ Unmarked
        BY <1>3, ReturnStep, IdleType, Processes, Alone DEF EvidenceInv, Shape, Marked
    <2>2. SameRow
        BY <1>3, <2>1, EndStep DEF EvidenceInv, Shape, Outcomes, SameRow, Marked
    <2>3. SameExecutor
        BY <1>1, <1>3 DEF StopGroup, SameExecutor, Gone
    <2> QED
        BY <1>1, <2>1, <2>2, <2>3 DEF Calm
<1>4. exec.phase # "none"
    BY <1>1 DEF ControlInv, LifeInv
<1> QED
    BY <1>2, <1>3, <1>4 DEF Await

LEMMA ReadLaunchCalm == ASSUME EvidenceInv, ControlInv, ReadLaunch PROVE Calm
<1> DEFINE listed == proc[Scheduler].listed
<1>1. UNCHANGED sig /\ proc[Scheduler].pc = "readLaunch"
    BY DEF ReadLaunch, At
<1>2. CASE Confirmed("launch", listed)
    <2>1. Confirm("launch", listed) /\ disk.launch.final # "none" /\ UNCHANGED <<row, exec, mem>>
        BY <1>2 DEF ReadLaunch, Confirmed, dbVars
    <2>2. listed \in BOOLEAN /\ (~listed => disk.launch.final = "durable")
        BY <1>1, ListedType DEF EvidenceInv, ReaderInv
    <2>3. disk'.request = disk.request
        BY <1>2, <2>1, <2>2, ConfirmStep DEF EvidenceInv
    <2>4. [Idle EXCEPT !.pc = "record"] \in Controls /\ [Idle EXCEPT !.pc = "record"].pc = "record"
        BY DEF Idle, Controls, Points, Stages
    <2>5. proc' = [proc EXCEPT ![Scheduler] = [Idle EXCEPT !.pc = "record"]]
        BY <1>2 DEF ReadLaunch
    <2>6. Unmarked
        BY <2>4, <2>5, Become, Processes, Alone DEF EvidenceInv, Shape, Marked
    <2> QED
        BY <1>1, <2>1, <2>3, <2>6, StillCalm
<1>3. CASE ~Confirmed("launch", listed)
    <2>1. StopGroup /\ End("launch") /\ Exit /\ UNCHANGED disk /\ mem' = NoMemory
        BY <1>3 DEF ReadLaunch, Exit
    <2>2. proc'[Scheduler].pc = "down" /\ Unmarked
        BY <2>1, ExitStep, Processes, Alone DEF EvidenceInv, Shape, Marked
    <2>3. SameRow
        BY <2>1, <2>2, EndStep DEF EvidenceInv, Shape, Outcomes, SameRow, Marked
    <2>4. SameExecutor
        BY <1>1, <2>1 DEF StopGroup, SameExecutor, Gone, ControlInv, LifeInv
    <2> QED
        BY <1>1, <2>1, <2>2, <2>3, <2>4 DEF Calm
<1> QED
    BY <1>2, <1>3

LEMMA ReadExitCalm == ASSUME EvidenceInv, ReadExit PROVE Calm
<1> DEFINE listed == proc[Scheduler].listed
<1>1. UNCHANGED <<exec, sig>> /\ mem' = NoMemory
    BY DEF ReadExit, execVars
<1>2. proc'[Scheduler].pc = "idle" /\ Unmarked
    BY ReturnStep, IdleType, Processes, Alone DEF EvidenceInv, Shape, ReadExit, Marked
<1>3. disk'.request = disk.request /\ disk'.launch = disk.launch
    <2>1. CASE Confirmed("exit", listed)
        <3>1. Confirm("exit", listed)
            BY <2>1 DEF ReadExit
        <3>2. listed \in BOOLEAN /\ (~listed => disk.exit.final = "durable")
            BY <2>1, ListedType DEF EvidenceInv, ReaderInv, ReadExit, At, Confirmed
        <3> QED
            BY <2>1, <3>1, <3>2, ConfirmStep DEF EvidenceInv
    <2>2. CASE ~Confirmed("exit", listed)
        BY <2>2 DEF ReadExit
    <2> QED
        BY <2>1, <2>2
<1>4. PICK outcome \in {Accepted, Rejected} : End(outcome)
    BY DEF ReadExit
<1>5. Accepted \in Outcomes /\ Rejected \in Outcomes
    BY DEF Accepted, Rejected, Outcomes
<1>6. SameRow
    BY <1>2, <1>4, <1>5, EndStep DEF EvidenceInv, Shape, SameRow, Marked
<1>7. SameExecutor
    BY <1>1, <1>3 DEF SameExecutor, Gone
<1> QED
    BY <1>1, <1>2, <1>3, <1>6, <1>7 DEF Calm

LEMMA RecordResultCalm == ASSUME Shape, NEW p \in Procs, RecordResult(p) PROVE Calm
<1>1. UNCHANGED <<row, exec, sig, disk, mem>>
    BY DEF RecordResult, execVars
<1>2. Unmarked
    BY ReturnStep, UncertainStep, IdleType, Alone DEF Shape, RecordResult, Marked
<1> QED
    BY <1>1, <1>2, StillCalm

LEMMA RequestYieldCalm == ASSUME Shape, NEW o \in Operators, RequestYield(o) PROVE Calm
<1>1. UNCHANGED <<exec, sig, disk, mem>> /\ row.state = "running"
    BY DEF RequestYield, execVars
<1>2. SameRow
    BY <1>1, StateStep DEF Shape, RequestYield, SameRow, Active
<1>3. Unmarked
    BY GotoStep, Processes, Alone DEF Shape, RequestYield, Points, Marked
<1> QED
    BY <1>1, <1>2, <1>3 DEF Calm, SameExecutor, Gone

LEMMA RestCalm ==
    ASSUME Shape, \/ JobAnswers \/ JobEnds \/ GraceEnds \/ RetryLeaseEnds \/ SchedulerCrashes
                  \/ StartScheduler \/ UNCHANGED vars \/ \E o \in Operators : OperatorDies(o)
    PROVE  Calm
<1>1. UNCHANGED <<row, exec, sig>> /\ (mem' = mem \/ mem' = NoMemory)
    BY DEF JobAnswers, JobEnds, GraceEnds, RetryLeaseEnds, SchedulerCrashes, StartScheduler,
           OperatorDies, Exit, vars, dbVars, execVars
<1>2. disk'.request = disk.request /\ disk'.launch = disk.launch
    <2>1. CASE JobAnswers
        BY <2>1 DEF JobAnswers, Shape, DiskType, Disks
    <2>2. CASE UNCHANGED disk
        BY <2>2
    <2> QED
        BY <2>1, <2>2
        DEF JobEnds, GraceEnds, RetryLeaseEnds, SchedulerCrashes, StartScheduler, OperatorDies, vars
<1>3. Unmarked
    <2>1. CASE UNCHANGED proc
        BY <2>1 DEF Unmarked
    <2>2. CASE SchedulerCrashes \/ StartScheduler
        BY <2>2, ExitStep, ReturnStep, IdleType, Processes, Alone
        DEF Shape, SchedulerCrashes, StartScheduler, Marked
    <2>3. CASE \E o \in Operators : OperatorDies(o)
        BY <2>3, ReturnStep, IdleType, Processes, Alone DEF Shape, OperatorDies, Marked
    <2> QED
        BY <2>1, <2>2, <2>3 DEF JobAnswers, JobEnds, GraceEnds, RetryLeaseEnds, vars
<1> QED
    BY <1>1, <1>2, <1>3, StillCalm

(* The executor's own steps.                                               *)
LEMMA ExecutorCalm ==
    ASSUME UNCHANGED <<row, sig, proc, mem>>, disk'.request = disk.request,
           disk'.launch = disk.launch \/ exec.phase = "announcing",
           exec.phase \notin {"none", "gone"}, exec'.phase # "none"
    PROVE  Calm
BY DEF Calm, SameRow, SameExecutor, Unmarked, Gone

LEMMA PublicationCalm ==
    ASSUME Shape, Stage \/ Link \/ Settle \/ Unstage
    PROVE  Calm
<1>1. PICK from, next, r : PublicationStep(from, next, r) /\ next \in {Step("stable"), Step("linked"), Step("final"), AfterPublication}
    BY DEF Stage, Link, Settle, Unstage
<1>2. /\ UNCHANGED <<row, sig, proc, mem>> /\ exec' = next /\ exec.phase \in {"announcing", "reporting"}
      /\ disk' = [disk EXCEPT ![Publishing] = r]
    BY <1>1 DEF PublicationStep, dbVars
<1>3. exec'.phase # "none"
    BY <1>1, <1>2, SMT DEF Shape, ExecType, Execs, Step, AfterPublication
<1>4. disk'.request = disk.request /\ (disk'.launch = disk.launch \/ exec.phase = "announcing")
    BY <1>2 DEF Publishing, Shape, DiskType, Disks
<1> QED
    BY <1>2, <1>3, <1>4, ExecutorCalm

LEMMA RunCalm ==
    ASSUME Shape, Boot \/ Fork \/ Reap \/ Drain \/ PublicationFails \/ ExecutorDies
    PROVE  Calm
<1>1. UNCHANGED <<row, sig, proc, mem, disk>>
    BY DEF Boot, Fork, Reap, Drain, PublicationFails, ExecutorDies, ExecStep, dbVars
<1>2. exec.phase \notin {"none", "gone"} /\ exec'.phase # "none"
    BY SMT DEF Boot, Fork, Reap, Drain, PublicationFails, ExecutorDies, ExecStep, Alive
<1> QED
    BY <1>1, <1>2, ExecutorCalm

-------------------------------------------------------------------------------
(* Steps of one process that signal nobody.                                *)

(* What a process must find where the invariant asks for something.        *)
Welcome(p) ==
    /\ proc'[p].pc # "publishing"
    /\ proc'[p].pc \in {"claim", "signal"} => disk.request = "whole"
    /\ proc'[p].pc \in {"replay", "deliver"} =>
         /\ exec.phase # "none" /\ row.stage # "none" /\ proc'[p].stage # "none"
         /\ Before(proc[p].stage)'

SilentRow == row'.stage = row.stage /\ row'.forced = row.forced

Silent ==
    /\ UNCHANGED sig /\ disk'.request = disk.request
    /\ Gone => Gone'
    /\ exec.phase # "none" => exec'.phase # "none"
    /\ MemType' /\ mem'.replayed = mem.replayed

LEMMA SilentStep ==
    ASSUME ControlInv, NEW p \in Procs, SilentRow, Silent,
           \A q \in Procs \ {p} : proc'[q] = proc[q],
           proc'[p] = proc[p] \/ Welcome(p), LifeInv'
    PROVE  ControlInv'
<1>1. HeardInv'
    BY DEF ControlInv, HeardInv, Silent
<1>2. RequestInv'
    BY SMT DEF ControlInv, RequestInv, Silent, SilentRow, Welcome
<1>3. Before(row.stage)'
    BY DEF ControlInv, SentInv, Before, Silent, SilentRow
<1>4. ASSUME NEW q \in Procs, proc'[q].pc \in {"replay", "deliver"}
      PROVE  /\ exec'.phase # "none" /\ row'.stage # "none" /\ proc'[q].stage # "none"
             /\ Before(proc[q].stage)'
    <2>1. CASE proc'[q] = proc[q]
        BY <1>4, <2>1 DEF ControlInv, SentInv, Before, Silent, SilentRow
    <2>2. CASE q = p /\ Welcome(p)
        BY <1>4, <2>2 DEF Welcome, Silent, SilentRow
    <2> QED
        BY <2>1, <2>2
<1>5. \A stage \in mem'.replayed : SignalOf(stage) \in sig'.sent \/ Gone'
    BY DEF ControlInv, SentInv, Silent
<1>6. GracefulFirst'
    BY DEF ControlInv, SentInv, GracefulFirst, Silent, SilentRow
<1>7. SentInv'
    BY <1>3, <1>4, <1>5, <1>6 DEF SentInv
<1> QED
    BY <1>1, <1>2, <1>7 DEF ControlInv, Silent

LEMMA PayloadControl ==
    ASSUME EvidenceInv, ControlInv, PreparePayload \/ WritePayload
    PROVE  ControlInv'
<1>1. UNCHANGED <<row, exec, sig, mem>>
    BY DEF PreparePayload, WritePayload, execVars
<1>2. disk'.request = disk.request /\ disk'.launch = disk.launch
    BY PayloadStep DEF EvidenceInv, Shape, DiskType, PreparePayload, WritePayload, Files
<1>3. /\ proc'[Scheduler] = proc[Scheduler] \/ proc'[Scheduler].pc \in {"write", "start", "idle"}
      /\ \A q \in Procs \ {Scheduler} : proc'[q] = proc[q]
    <2>1. ASSUME NEW pc \in {"write", "start"}, Goto(Scheduler, pc)
          PROVE  /\ proc'[Scheduler].pc = pc
                 /\ \A q \in Procs \ {Scheduler} : proc'[q] = proc[q]
        BY <2>1, GotoStep, Processes DEF EvidenceInv, Shape, Points
    <2> QED
        BY <2>1, ReturnStep, IdleType, Processes DEF EvidenceInv, Shape, PreparePayload, WritePayload
<1>4. row.state = "queued"
    BY DEF PreparePayload, WritePayload, At, ControlInv, LifeInv
<1>5. LifeInv'
    BY <1>1, <1>2, <1>3, <1>4 DEF ControlInv, LifeInv
<1>6. Silent /\ SilentRow
    BY <1>1, <1>2 DEF Silent, SilentRow, Gone, ControlInv, MemType
<1> QED
    BY <1>3, <1>5, <1>6, SilentStep, Processes DEF Welcome

LEMMA StartControl == ASSUME EvidenceInv, ControlInv, Start PROVE ControlInv'
<1>1. UNCHANGED <<disk, exec, sig, mem>> /\ proc[Scheduler].pc = "start"
    BY DEF Start, execVars, At
<1>2. row'.state = "starting" /\ row'.identity = row.identity /\ SilentRow
    BY StateStep DEF EvidenceInv, Shape, Start, Active, SilentRow
<1>3. /\ proc'[Scheduler].pc = "spawn"
      /\ \A q \in Procs \ {Scheduler} : proc'[q] = proc[q]
    BY GotoStep, Processes DEF EvidenceInv, Shape, Start, Points
<1>4. LifeInv'
    BY <1>1, <1>2, <1>3 DEF ControlInv, LifeInv, SilentRow, Terminating
<1>5. Silent
    BY <1>1 DEF Silent, Gone, ControlInv, MemType
<1> QED
    BY <1>2, <1>3, <1>4, <1>5, SilentStep, Processes DEF Welcome

LEMMA SpawnControl == ASSUME EvidenceInv, ControlInv, Spawn PROVE ControlInv'
<1>1. UNCHANGED <<row, disk, sig, mem>> /\ proc[Scheduler].pc = "spawn"
    BY DEF Spawn, dbVars, At
<1>2. exec'.phase = "booting" /\ exec.phase = "none"
    BY <1>1 DEF EvidenceInv, Shape, ExecType, Execs, Spawn, ControlInv, LifeInv
<1>3. /\ proc'[Scheduler].pc = "await"
      /\ \A q \in Procs \ {Scheduler} : proc'[q] = proc[q]
    BY GotoStep, Processes DEF EvidenceInv, Shape, Spawn, Points
<1>4. row.state # "queued"
    BY <1>1 DEF ControlInv, LifeInv
<1>5. LifeInv'
    BY <1>1, <1>2, <1>3, <1>4 DEF ControlInv, LifeInv
<1>6. Silent /\ SilentRow
    BY <1>1, <1>2 DEF Silent, SilentRow, Gone, ControlInv, MemType
<1> QED
    BY <1>3, <1>5, <1>6, SilentStep, Processes DEF Welcome

LEMMA RecordLaunchedControl == ASSUME EvidenceInv, ControlInv, RecordLaunched PROVE ControlInv'
<1>1. UNCHANGED <<disk, exec, sig>> /\ proc[Scheduler].pc \in {"record", "adopt"}
    BY DEF RecordLaunched, execVars, At
<1>2. /\ row'.state = "running" /\ row'.identity = TRUE /\ SilentRow
    BY DEF EvidenceInv, Shape, RowType, Rows, RecordLaunched, SilentRow
<1>3. /\ proc'[Scheduler].pc = "idle"
      /\ \A q \in Procs \ {Scheduler} : proc'[q] = proc[q]
    BY ReturnStep, IdleType, Processes DEF EvidenceInv, Shape, RecordLaunched
<1>4. MemType' /\ mem'.replayed = mem.replayed
    BY DEF RecordLaunched, At, ControlInv, MemType
<1>5. LifeInv'
    BY <1>1, <1>2, <1>3 DEF ControlInv, LifeInv, Terminating
<1>6. Silent
    BY <1>1, <1>4 DEF Silent, Gone
<1> QED
    BY <1>2, <1>3, <1>5, <1>6, SilentStep, Processes DEF Welcome

(* The steps that leave the row to itself and start nothing.               *)
LEMMA LifeKeeps ==
    ASSUME LifeInv, UNCHANGED <<row, exec>>, disk'.launch = disk.launch, NEW p \in Procs,
           proc'[p].pc \notin {"write", "start", "spawn", "await", "readLaunch"},
           \A q \in Procs \ {p} : proc'[q] = proc[q]
    PROVE  LifeInv'
BY Processes DEF LifeInv

LEMMA AttendControl == ASSUME EvidenceInv, ControlInv, Attend PROVE ControlInv'
<1>1. UNCHANGED <<row, disk, exec, sig, mem>>
    BY DEF Attend, dbVars, execVars
<1>2. Silent /\ SilentRow
    BY <1>1 DEF Silent, SilentRow, Gone, ControlInv, MemType
<1>3. CASE Goto(Scheduler, "recover")
    <2>1. proc'[Scheduler].pc = "recover" /\ \A q \in Procs \ {Scheduler} : proc'[q] = proc[q]
        BY <1>3, GotoStep, Processes DEF EvidenceInv, Shape, Points
    <2>2. LifeInv'
        BY <1>1, <2>1, LifeKeeps, Processes DEF ControlInv
    <2> QED
        BY <1>2, <2>1, <2>2, SilentStep, Processes DEF Welcome
<1>4. CASE /\ row.state \in Terminating
           /\ proc' = [proc EXCEPT ![Scheduler].pc = "replay", ![Scheduler].stage = row.stage]
    <2>1. row.stage \in Stages
        BY DEF EvidenceInv, Shape, RowType, Rows
    <2>2. /\ proc'[Scheduler].pc = "replay" /\ proc'[Scheduler].stage = row.stage
          /\ \A q \in Procs \ {Scheduler} : proc'[q] = proc[q]
        BY <1>4, <2>1, StageStep, Processes DEF EvidenceInv, Shape, Points
    <2>3. LifeInv'
        BY <1>1, <2>2, LifeKeeps, Processes DEF ControlInv
    <2>4. exec.phase # "none" /\ row.stage # "none"
        BY <1>4 DEF Attend, Authentic, Alive, ControlInv, LifeInv
    <2>5. Before(proc[Scheduler].stage)'
        BY <1>1, <2>2 DEF ControlInv, SentInv, Before, Gone
    <2> QED
        BY <1>2, <2>2, <2>3, <2>4, <2>5, SilentStep, Processes DEF Welcome
<1> QED
    BY <1>3, <1>4 DEF Attend

LEMMA ClaimSignalControl ==
    ASSUME EvidenceInv, ControlInv, NEW p \in Procs, ClaimSignal(p)
    PROVE  ControlInv'
<1>1. UNCHANGED <<row, disk, exec, sig, mem>> /\ proc[p].pc = "claim"
    BY DEF ClaimSignal, execVars, At
<1>2. Silent /\ SilentRow
    BY <1>1 DEF Silent, SilentRow, Gone, ControlInv, MemType
<1>3. proc'[p].pc \in {"signal", "idle"} /\ \A q \in Procs \ {p} : proc'[q] = proc[q]
    BY GotoStep, ReturnStep, IdleType DEF EvidenceInv, Shape, ClaimSignal, Points
<1>4. LifeInv'
    BY <1>1, <1>3, LifeKeeps DEF ControlInv
<1>5. disk.request = "whole"
    BY <1>1 DEF ControlInv, RequestInv
<1> QED
    BY <1>2, <1>3, <1>4, <1>5, SilentStep DEF Welcome

LEMMA ReplayStageControl == ASSUME EvidenceInv, ControlInv, ReplayStage PROVE ControlInv'
<1> DEFINE stage == proc[Scheduler].stage
<1>1. UNCHANGED <<disk, exec, sig, mem>> /\ proc[Scheduler].pc = "replay"
    BY DEF ReplayStage, execVars, At
<1>2. /\ exec.phase # "none" /\ row.stage # "none" /\ stage # "none"
      /\ Before(stage) /\ Before(row.stage)
    BY <1>1, Processes DEF ControlInv, SentInv
<1>3. Silent
    BY <1>1 DEF Silent, Gone, ControlInv, MemType
<1>4. CASE UNCHANGED row /\ Goto(Scheduler, "deliver")
    <2>1. /\ proc'[Scheduler].pc = "deliver" /\ proc'[Scheduler].stage = stage
          /\ \A q \in Procs \ {Scheduler} : proc'[q] = proc[q]
        BY <1>4, GotoStep, Processes DEF EvidenceInv, Shape, Points
    <2>2. LifeInv'
        BY <1>1, <1>4, <2>1, LifeKeeps, Processes DEF ControlInv
    <2>3. Before(proc[Scheduler].stage)'
        BY <1>1, <1>2, <1>4, <2>1 DEF Before, Gone
    <2> QED
        BY <1>2, <1>3, <1>4, <2>1, <2>2, <2>3, SilentStep, Processes DEF Welcome, SilentRow
<1>5. CASE UNCHANGED row /\ Return(Scheduler)
    <2>1. proc'[Scheduler].pc = "idle" /\ \A q \in Procs \ {Scheduler} : proc'[q] = proc[q]
        BY <1>5, ReturnStep, IdleType, Processes DEF EvidenceInv, Shape
    <2>2. LifeInv'
        BY <1>1, <1>5, <2>1, LifeKeeps, Processes DEF ControlInv
    <2> QED
        BY <1>3, <1>5, <2>1, <2>2, SilentStep, Processes DEF Welcome, SilentRow
<1>6. CASE /\ stage \in mem.replayed /\ stage # "kill" /\ row.stage = stage
           /\ row' = [row EXCEPT !.stage = IF stage = "interrupt" THEN "terminate" ELSE "kill",
                                 !.state = IF stage = "interrupt" THEN @ ELSE "force_killing"]
           /\ proc' = [proc EXCEPT ![Scheduler].pc = "deliver", ![Scheduler].stage = row'.stage]
    <2>1. stage \in {"interrupt", "terminate"}
        BY <1>2, <1>6, Processes DEF EvidenceInv, Shape, ProcType, Controls, Stages
    <2>2. SignalOf(stage) \in sig.sent \/ Gone
        BY <1>6 DEF ControlInv, SentInv
    <2>3. /\ row'.forced = row.forced /\ row'.identity = row.identity
          /\ \/ stage = "interrupt" /\ row'.stage = "terminate" /\ row'.state = row.state
             \/ stage = "terminate" /\ row'.stage = "kill" /\ row'.state = "force_killing"
        BY <1>6, <2>1 DEF EvidenceInv, Shape, RowType, Rows
    <2>4. Before(row.stage)'
        BY <1>1, <1>2, <2>2, <2>3 DEF Before, Gone, SignalOf, Graceful
    <2>5. row'.stage \in Stages
        BY <2>3 DEF Stages
    <2>6. /\ proc'[Scheduler].pc = "deliver" /\ proc'[Scheduler].stage = row'.stage
          /\ \A q \in Procs \ {Scheduler} : proc'[q] = proc[q]
        BY <1>6, <2>5, StageStep, Processes DEF EvidenceInv, Shape, Points
    <2>7. HeardInv' /\ MemType'
        BY <1>1 DEF ControlInv, HeardInv, MemType
    <2>8. RequestInv'
        BY <1>1, <2>3, <2>6 DEF ControlInv, RequestInv
    <2>9. LifeInv'
        BY <1>1, <1>6, <2>3, <2>6 DEF ControlInv, LifeInv, Terminating
    <2>10. ASSUME NEW q \in Procs, proc'[q].pc \in {"replay", "deliver"}
           PROVE  /\ exec'.phase # "none" /\ row'.stage # "none" /\ proc'[q].stage # "none"
                  /\ Before(proc[q].stage)'
        <3>1. CASE q = Scheduler
            BY <1>1, <1>2, <2>3, <2>4, <2>6, <3>1 DEF Before
        <3>2. CASE q # Scheduler
            BY <1>1, <2>3, <2>6, <2>10, <3>2 DEF ControlInv, SentInv, Before, Gone
        <3> QED
            BY <3>1, <3>2
    <2>11. (\A st \in mem'.replayed : SignalOf(st) \in sig'.sent \/ Gone') /\ GracefulFirst'
        BY <1>1, <2>3 DEF ControlInv, SentInv, GracefulFirst, Gone
    <2>12. SentInv'
        BY <2>4, <2>10, <2>11 DEF SentInv
    <2> QED
        BY <2>7, <2>8, <2>9, <2>12 DEF ControlInv
<1> QED
    BY <1>4, <1>5, <1>6 DEF ReplayStage

LEMMA RequestTerminationControl ==
    ASSUME EvidenceInv, ControlInv, NEW o \in Operators, RequestTermination(o)
    PROVE  ControlInv'
<1>1. UNCHANGED <<disk, exec, sig, mem>> /\ o \in Procs /\ o # Scheduler
    BY AttemptAssumption DEF RequestTermination, execVars, Procs
<1>2. PICK force \in BOOLEAN : row.identity /\ row.state \in Active /\ row' = Requested(force)
    BY DEF RequestTermination
<1>3. row.state \in {"running", "yielding"} \cup Terminating
    BY <1>2 DEF Active, ControlInv, LifeInv
<1>4. exec.phase # "none"
    BY <1>2 DEF EvidenceInv, ReaderInv, ControlInv, LifeInv
<1>5. /\ row'.identity = row.identity
      /\ \/ row'.stage = "kill" /\ row'.forced = TRUE /\ row'.state = "force_killing"
         \/ row'.stage = "interrupt" /\ row'.forced = row.forced /\ row'.state = "terminating"
         \/ row' = row /\ row.state \in Terminating
    BY <1>2, <1>3 DEF EvidenceInv, Shape, RowType, Rows, Requested, Terminating
<1>6. row'.stage \in Stages /\ row'.stage # "none"
    BY <1>5 DEF EvidenceInv, Shape, RowType, Rows, Stages, ControlInv, LifeInv
<1>7. Before(row.stage)'
    BY <1>1, <1>5 DEF ControlInv, SentInv, Before, Gone
<1>8. proc' = [proc EXCEPT ![o].pc = "deliver", ![o].stage = row'.stage]
    BY DEF RequestTermination
<1>9. /\ proc'[o].pc = "deliver" /\ proc'[o].stage = row'.stage
      /\ \A q \in Procs \ {o} : proc'[q] = proc[q]
    BY <1>1, <1>6, <1>8, StageStep DEF EvidenceInv, Shape, Points
<1>10. HeardInv' /\ MemType'
    BY <1>1 DEF ControlInv, HeardInv, MemType
<1>11. RequestInv'
    BY <1>1, <1>6, <1>9 DEF ControlInv, RequestInv
<1>12. LifeInv'
    <2>1. proc'[Scheduler] = proc[Scheduler]
        BY <1>1, <1>9, Processes
    <2>2. row.state # "queued" /\ row'.state \notin {"queued", "starting"}
        BY <1>3, <1>5 DEF Terminating
    <2>3. row'.state \in Terminating => row'.stage # "none"
        BY <1>6
    <2>4. row'.state = "force_killing" => row'.stage = "kill"
        BY <1>5 DEF ControlInv, LifeInv
    <2> QED
        BY <1>1, <2>1, <2>2, <2>3, <2>4 DEF ControlInv, LifeInv
<1>13. ASSUME NEW q \in Procs, proc'[q].pc \in {"replay", "deliver"}
       PROVE  /\ exec'.phase # "none" /\ row'.stage # "none" /\ proc'[q].stage # "none"
              /\ Before(proc[q].stage)'
    <2>1. CASE q = o
        BY <1>1, <1>4, <1>6, <1>7, <1>9, <2>1 DEF Before
    <2>2. CASE q # o
        BY <1>1, <1>5, <1>6, <1>9, <1>13, <2>2 DEF ControlInv, SentInv, Before, Gone
    <2> QED
        BY <2>1, <2>2
<1>14. (\A st \in mem'.replayed : SignalOf(st) \in sig'.sent \/ Gone') /\ GracefulFirst'
    BY <1>1, <1>5 DEF ControlInv, SentInv, GracefulFirst, Gone
<1>15. SentInv'
    BY <1>7, <1>13, <1>14 DEF SentInv
<1> QED
    BY <1>10, <1>11, <1>12, <1>15 DEF ControlInv

(* Publication of the request: one process at a time is at it.             *)
LEMMA PublishControl ==
    ASSUME EvidenceInv, ControlInv, NEW p \in Procs, Publish(p) \/ Published(p)
    PROVE  ControlInv'
<1>1. UNCHANGED <<row, exec, sig, mem>> /\ proc[p].pc \in {"publish", "publishing"}
    BY DEF Publish, Published, execVars, At
<1>2. disk'.launch = disk.launch
    BY RequestStep DEF EvidenceInv, Shape, Publish, Published, Files
<1>3. /\ \A q \in Procs \ {p} : proc'[q] = proc[q]
      /\ \/ proc'[p].pc = "publishing" /\ disk'.request = "torn" /\ disk.request = "none"
         \/ proc'[p].pc = "claim" /\ disk'.request = "whole"
         \/ proc'[p].pc = "idle" /\ disk'.request \in {disk.request, "none"}
    <2>1. ASSUME NEW pc \in {"publishing", "claim"}, Goto(p, pc)
          PROVE  proc'[p].pc = pc /\ \A q \in Procs \ {p} : proc'[q] = proc[q]
        BY <2>1, GotoStep DEF EvidenceInv, Shape, Points
    <2>2. ASSUME Uncertain(p) PROVE proc'[p].pc = "idle" /\ \A q \in Procs \ {p} : proc'[q] = proc[q]
        BY <2>2, UncertainStep, IdleType DEF EvidenceInv, Shape
    <2>3. ASSUME NEW f \in Files, disk' = [disk EXCEPT !.request = f] PROVE disk'.request = f
        BY <2>3, RequestStep DEF EvidenceInv, Shape
    <2> QED
        BY <2>1, <2>2, <2>3 DEF Publish, Published, Files
<1>4. /\ disk'.request # disk.request => disk.request # "whole"
      /\ proc[p].pc = "publishing" \/ disk'.request = disk.request \/ disk.request = "none"
    <2>1. CASE Publish(p)
        BY <1>3, <2>1, RequestStep DEF EvidenceInv, Shape, Publish, Files
    <2>2. CASE Published(p)
        BY <2>2 DEF Published, At, ControlInv, RequestInv
    <2> QED
        BY <2>1, <2>2
<1>5. RequestInv'
    <2>1. ASSUME NEW q \in Procs
          PROVE  /\ proc'[q].pc = "publishing" => disk'.request = "torn"
                 /\ proc'[q].pc \in {"claim", "signal"} => disk'.request = "whole"
        <3>1. CASE q = p
            BY <1>3, <3>1
        <3>2. CASE q # p
            BY <1>3, <1>4, <3>2 DEF ControlInv, RequestInv
        <3> QED
            BY <3>1, <3>2
    <2>2. ASSUME NEW q \in Procs, NEW r \in Procs,
                 proc'[q].pc = "publishing", proc'[r].pc = "publishing"
          PROVE  q = r
        BY <1>3, <2>2 DEF ControlInv, RequestInv
    <2>3. "INT" \in sig'.accepted /\ row'.stage = "none" => disk'.request = "whole"
        BY <1>1, <1>4 DEF ControlInv, RequestInv
    <2> QED
        BY <2>1, <2>2, <2>3 DEF RequestInv
<1>6. HeardInv' /\ MemType'
    BY <1>1 DEF ControlInv, HeardInv, MemType
<1>7. LifeInv'
    BY <1>1, <1>2, <1>3, LifeKeeps DEF ControlInv
<1>8. SentInv'
    BY <1>1, <1>3 DEF ControlInv, SentInv, Before, GracefulFirst, Gone
<1> QED
    BY <1>5, <1>6, <1>7, <1>8 DEF ControlInv

LEMMA HostCrashesControl == ASSUME EvidenceInv, ControlInv, HostCrashes PROVE ControlInv'
<1>1. UNCHANGED <<row, sig>> /\ mem' = NoMemory
    BY DEF HostCrashes, dbVars
<1>2. \A p \in Procs : proc'[p].pc \in {"down", "idle"}
    BY DEF HostCrashes, Idle
<1>3. exec'.phase = IF exec.phase = "none" THEN "none" ELSE "gone"
    BY DEF HostCrashes, EvidenceInv, Shape, ExecType, Execs
<1>4. disk'.launch.final # "none" => disk.launch.final # "none"
    <2>1. disk'.launch \in Survivors(disk.launch)
        BY CrashedDisk DEF EvidenceInv, Shape
    <2>2. disk.launch \in Receipts
        BY ReceiptTypes DEF EvidenceInv, Shape
    <2> QED
        BY <2>1, <2>2 DEF Survivors, Receipts
<1>5. disk.request = "whole" => disk'.request = "whole"
    BY CrashedDisk DEF EvidenceInv
<1>6. HeardInv'
    BY <1>1 DEF ControlInv, HeardInv
<1>7. MemType'
    BY <1>1 DEF MemType, NoMemory
<1>8. RequestInv'
    BY <1>1, <1>2, <1>5 DEF ControlInv, RequestInv
<1>9. LifeInv'
    BY <1>1, <1>2, <1>3, <1>4, Processes DEF ControlInv, LifeInv
<1>10. Before(row.stage)' /\ GracefulFirst'
    BY <1>1, <1>3 DEF ControlInv, SentInv, Before, GracefulFirst, Gone
<1>11. mem'.replayed = {}
    BY <1>1 DEF NoMemory
<1>12. SentInv'
    BY <1>2, <1>10, <1>11 DEF SentInv
<1> QED
    BY <1>6, <1>7, <1>8, <1>9, <1>12 DEF ControlInv

-------------------------------------------------------------------------------
(* Signals.                                                                *)

(* The handler's bookkeeping, of any record of signals.                    *)
Kept(accepted, held, heard) ==
    /\ \A s \in Graceful : heard[s] <= 1 /\ (s \notin accepted => heard[s] = 0)
    /\ \A i \in 1 .. Len(held) : held[i] \in accepted /\ heard[held[i]] = 0
    /\ \A i, j \in 1 .. Len(held) : held[i] = held[j] => i = j

LEMMA HeardOnce == HeardBy(0) \in {0, 1}
BY SMT DEF HeardBy

LEMMA HandleKeeps ==
    ASSUME SigType, HeardInv, NEW s \in Graceful
    PROVE  /\ Kept(Handle(s).accepted, Handle(s).held, Handle(s).heard)
           /\ Handle(s).accepted = sig.accepted \cup {s}
<1>0. Kept(sig.accepted, sig.held, sig.heard)
    BY DEF HeardInv, Kept
<1>1. CASE s \in sig.accepted
    BY <1>0, <1>1 DEF Handle, SigType, Signals
<1>2. CASE s \notin sig.accepted /\ exec.phase \in {"announcing", "forking"}
    <2> DEFINE held == Append(sig.held, s)
               accepted == sig.accepted \cup {s}
    <2>1. Handle(s) = [sig EXCEPT !.accepted = accepted, !.held = held]
        BY <1>2 DEF Handle
    <2>2. sig.held \in Seq(Graceful) /\ sig.heard[s] = 0
        BY <1>2 DEF SigType, Signals, HeardInv
    <2>3. /\ Len(held) = Len(sig.held) + 1 /\ Len(sig.held) \in Nat
          /\ held[Len(sig.held) + 1] = s
          /\ \A i \in 1 .. Len(sig.held) : held[i] = sig.held[i] /\ sig.held[i] # s
        BY <1>2, <2>2, SMT DEF HeardInv
    <2> HIDE DEF held
    <2>4. ASSUME NEW i \in 1 .. Len(held)
          PROVE  held[i] \in accepted /\ sig.heard[held[i]] = 0
        BY <1>0, <2>2, <2>3, SMT DEF Kept
    <2>5. ASSUME NEW i \in 1 .. Len(held), NEW j \in 1 .. Len(held), held[i] = held[j]
          PROVE  i = j
        BY <1>0, <2>3, <2>5, SMT DEF Kept
    <2>6. \A g \in Graceful : sig.heard[g] <= 1 /\ (g \notin accepted => sig.heard[g] = 0)
        BY <1>0 DEF Kept
    <2>7. Kept(accepted, held, sig.heard)
        BY <2>4, <2>5, <2>6 DEF Kept
    <2>8. Handle(s).accepted = accepted /\ Handle(s).held = held /\ Handle(s).heard = sig.heard
        BY <2>1 DEF SigType, Signals
    <2> QED
        BY <2>7, <2>8
<1>3. CASE s \notin sig.accepted /\ exec.phase \notin {"announcing", "forking"}
    <2> DEFINE n == HeardBy(sig.heard[s])
               heard == [sig.heard EXCEPT ![s] = n]
               accepted == sig.accepted \cup {s}
    <2>1. Handle(s) = [sig EXCEPT !.accepted = accepted, !.heard = heard]
        BY <1>3 DEF Handle, SigType, Signals
    <2>2. n \in {0, 1}
        BY <1>3, HeardOnce DEF HeardInv
    <2> HIDE DEF n
    <2>3. heard[s] = n /\ \A g \in Graceful \ {s} : heard[g] = sig.heard[g]
        BY DEF SigType, Signals
    <2>4. \A i \in 1 .. Len(sig.held) : sig.held[i] \in sig.accepted /\ sig.held[i] \in Graceful
        BY <1>0 DEF Kept, SigType, Signals
    <2> HIDE DEF heard
    <2>5. \A g \in Graceful : heard[g] <= 1 /\ (g \notin accepted => heard[g] = 0)
        BY <1>0, <2>2, <2>3, SMT DEF Kept
    <2>6. \A i \in 1 .. Len(sig.held) : sig.held[i] \in accepted /\ heard[sig.held[i]] = 0
        BY <1>0, <1>3, <2>3, <2>4 DEF Kept
    <2>7. Kept(accepted, sig.held, heard)
        BY <1>0, <2>5, <2>6 DEF Kept
    <2>8. Handle(s).accepted = accepted /\ Handle(s).held = sig.held /\ Handle(s).heard = heard
        BY <2>1 DEF SigType, Signals
    <2> QED
        BY <2>7, <2>8
<1> QED
    BY <1>1, <1>2, <1>3

LEMMA ReceiveKeeps ==
    ASSUME SigType, HeardInv, NEW s \in Graceful, Receive(s)
    PROVE  HeardInv' /\ sig'.accepted \subseteq sig.accepted \cup {s}
<1>1. CASE exec.phase # "reporting"
    <2> DEFINE h == Handle(s)
    <2>1. /\ h \in Signals /\ Kept(h.accepted, h.held, h.heard)
          /\ h.accepted = sig.accepted \cup {s}
        BY HandleType, HandleKeeps
    <2>2. sig' = [h EXCEPT !.sent = @ \cup {s}]
        BY <1>1 DEF Receive
    <2> HIDE DEF h
    <2>3. sig'.accepted = h.accepted /\ sig'.held = h.held /\ sig'.heard = h.heard
        BY <2>1, <2>2 DEF Signals
    <2> QED
        BY <2>1, <2>3 DEF HeardInv, Kept
<1>2. CASE exec.phase = "reporting"
    <2>1. sig'.accepted = sig.accepted /\ sig'.held = sig.held /\ sig'.heard = sig.heard
        BY <1>2 DEF Receive, SigType, Signals
    <2> QED
        BY <2>1 DEF HeardInv
<1> QED
    BY <1>1, <1>2

LEMMA ReplayKeeps == ASSUME SigType, HeardInv, Replay PROVE HeardInv' /\ sig'.accepted = sig.accepted
<1>1. CASE sig' = [sig EXCEPT !.held = <<>>]
    <2> DEFINE empty == <<>>
    <2>1. Len(empty) = 0 /\ sig' = [sig EXCEPT !.held = empty]
        BY <1>1
    <2> HIDE DEF empty
    <2>2. sig'.accepted = sig.accepted /\ sig'.held = empty /\ sig'.heard = sig.heard
        BY <2>1 DEF SigType, Signals
    <2> QED
        BY <2>1, <2>2, SMT DEF HeardInv
<1>2. CASE /\ sig.held # <<>>
           /\ sig' = [sig EXCEPT !.held = Tail(@), !.heard[Head(sig.held)] = HeardBy(@)]
    <2> DEFINE h == Head(sig.held)
               n == HeardBy(sig.heard[h])
               heard == [sig.heard EXCEPT ![h] = n]
               rest == Tail(sig.held)
    <2>1. /\ h \in Graceful /\ h = sig.held[1] /\ Len(sig.held) \in Nat /\ Len(sig.held) > 0
          /\ Len(rest) = Len(sig.held) - 1
          /\ \A i \in 1 .. Len(rest) : rest[i] = sig.held[i + 1] /\ rest[i] \in Graceful
        BY <1>2, SMT DEF SigType, Signals
    <2>2. sig' = [sig EXCEPT !.held = rest, !.heard = heard]
        BY <1>2 DEF SigType, Signals
    <2> HIDE DEF rest, h
    <2>3. h \in sig.accepted /\ sig.heard[h] = 0 /\ \A i \in 1 .. Len(rest) : rest[i] # h
        BY <2>1, SMT DEF HeardInv
    <2>4. n \in {0, 1}
        BY <2>3, HeardOnce
    <2> HIDE DEF n
    <2>5. heard[h] = n /\ \A g \in Graceful \ {h} : heard[g] = sig.heard[g]
        BY <2>1 DEF SigType, Signals
    <2> HIDE DEF heard
    <2>6. \A g \in Graceful : heard[g] <= 1 /\ (g \notin sig.accepted => heard[g] = 0)
        BY <2>3, <2>4, <2>5, SMT DEF HeardInv
    <2>7. \A i \in 1 .. Len(rest) : rest[i] \in sig.accepted /\ heard[rest[i]] = 0
        BY <2>1, <2>3, <2>5, SMT DEF HeardInv
    <2>8. \A i, j \in 1 .. Len(rest) : rest[i] = rest[j] => i = j
        BY <2>1, SMT DEF HeardInv
    <2>9. sig'.accepted = sig.accepted /\ sig'.held = rest /\ sig'.heard = heard
        BY <2>2 DEF SigType, Signals
    <2> QED
        BY <2>6, <2>7, <2>8, <2>9 DEF HeardInv
<1> QED
    BY <1>1, <1>2 DEF Replay

LEMMA ReplayControl == ASSUME EvidenceInv, SigType, ControlInv, Replay PROVE ControlInv'
<1>1. UNCHANGED <<row, disk, proc, mem>> /\ exec.phase = "replaying"
    BY DEF Replay, dbVars
<1>2. exec'.phase \in {"replaying", "running"}
    BY <1>1 DEF Replay, EvidenceInv, Shape, ExecType, Execs
<1>3. HeardInv' /\ sig'.accepted = sig.accepted /\ sig'.sent = sig.sent
    BY ReplayKeeps, ReplayType DEF ControlInv
<1>4. RequestInv' /\ LifeInv' /\ MemType'
    BY <1>1, <1>2, <1>3, SMT DEF ControlInv, RequestInv, LifeInv, MemType
<1>5. SentInv'
    BY <1>1, <1>2, <1>3 DEF ControlInv, SentInv, Before, GracefulFirst, Gone
<1> QED
    BY <1>3, <1>4, <1>5 DEF ControlInv

(* A process signals the executor and goes where the invariant asks for    *)
(* nothing.                                                                *)
LEMMA SignalStep ==
    ASSUME ControlInv, NEW p \in Procs, UNCHANGED row,
           \A q \in Procs \ {p} : proc'[q] = proc[q], proc'[p].pc \in {"result", "idle"},
           disk'.launch = disk.launch, disk'.request = disk.request,
           exec' = exec \/ (Gone' /\ exec.phase # "none"),
           HeardInv', MemType', sig.sent \subseteq sig'.sent, GracefulFirst',
           "INT" \in sig'.accepted /\ row.stage = "none" => disk.request = "whole",
           \A stage \in mem'.replayed : SignalOf(stage) \in sig'.sent \/ Gone'
    PROVE  ControlInv'
<1>1. RequestInv'
    BY SMT DEF ControlInv, RequestInv
<1>2. Gone => Gone'
    BY DEF Gone
<1>3. exec.phase = "none" <=> exec'.phase = "none"
    BY DEF Gone
<1>4. LifeInv'
    BY <1>3, Processes, SMT DEF ControlInv, LifeInv
<1>5. Before(row.stage)'
    BY <1>2 DEF ControlInv, SentInv, Before
<1>6. ASSUME NEW q \in Procs, proc'[q].pc \in {"replay", "deliver"}
      PROVE  /\ exec'.phase # "none" /\ row'.stage # "none" /\ proc'[q].stage # "none"
             /\ Before(proc[q].stage)'
    <2>1. proc'[q] = proc[q]
        BY <1>6
    <2> QED
        BY <1>2, <1>3, <1>6, <2>1 DEF ControlInv, SentInv, Before
<1>7. SentInv'
    BY <1>5, <1>6 DEF SentInv
<1> QED
    BY <1>1, <1>4, <1>7 DEF ControlInv

(* Where a signal leaves the executor and its files.                       *)
LEMMA ReceiveEffect ==
    ASSUME EvidenceInv, NEW s, Receive(s), Authentic
    PROVE  /\ disk'.launch = disk.launch /\ disk'.request = disk.request
           /\ exec' = exec \/ (Gone' /\ exec.phase # "none")
BY ReceiveStep, SMT DEF Authentic, Alive, Gone

LEMMA SignalYieldControl ==
    ASSUME EvidenceInv, SigType, ControlInv, NEW p \in Procs, SignalYield(p)
    PROVE  ControlInv'
<1>1. UNCHANGED <<row, mem>> /\ proc[p].pc = "signal"
    BY DEF SignalYield, dbVars, At
<1>2. proc'[p].pc = "result" /\ \A q \in Procs \ {p} : proc'[q] = proc[q]
    BY ToldStep DEF EvidenceInv, Shape, SignalYield, Authentic, Alive
<1>3. disk.request = "whole"
    BY <1>1 DEF ControlInv, RequestInv
<1>4. CASE Authentic /\ Receive("INT")
    <2>1. HeardInv' /\ sig'.sent = sig.sent \cup {"INT"}
        BY <1>4, ReceiveKeeps, ReceiveType DEF ControlInv, Graceful
    <2>2. /\ disk'.launch = disk.launch /\ disk'.request = disk.request
          /\ exec' = exec \/ (Gone' /\ exec.phase # "none")
        BY <1>4, ReceiveEffect
    <2>3. Gone => Gone'
        BY <2>2 DEF Gone
    <2>4. GracefulFirst'
        BY <1>1, <2>1 DEF ControlInv, SentInv, GracefulFirst, Graceful
    <2>5. MemType' /\ \A stage \in mem'.replayed : SignalOf(stage) \in sig'.sent \/ Gone'
        BY <1>1, <2>1, <2>3 DEF ControlInv, SentInv, MemType
    <2> QED
        BY <1>1, <1>2, <1>3, <2>1, <2>2, <2>4, <2>5, SignalStep
<1>5. CASE UNCHANGED <<exec, disk, sig>>
    <2>1. HeardInv' /\ GracefulFirst' /\ MemType'
        BY <1>1, <1>5 DEF ControlInv, SentInv, HeardInv, GracefulFirst, MemType
    <2>2. \A stage \in mem'.replayed : SignalOf(stage) \in sig'.sent \/ Gone'
        BY <1>1, <1>5 DEF ControlInv, SentInv, Gone
    <2> QED
        BY <1>1, <1>2, <1>3, <1>5, <2>1, <2>2, SignalStep
<1> QED
    BY <1>4, <1>5 DEF SignalYield

LEMMA DeliverControl ==
    ASSUME EvidenceInv, SigType, ControlInv, NEW p \in Procs, Deliver(p)
    PROVE  ControlInv'
<1> DEFINE stage == proc[p].stage
           s == SignalOf(stage)
<1>1. UNCHANGED row /\ proc[p].pc = "deliver"
    BY DEF Deliver, dbVars, At
<1>2. proc'[p].pc = "idle" /\ \A q \in Procs \ {p} : proc'[q] = proc[q]
    BY ReturnStep, IdleType DEF EvidenceInv, Shape, Deliver
<1>3. /\ exec.phase # "none" /\ row.stage # "none" /\ stage # "none" /\ Before(stage)
    BY <1>1 DEF ControlInv, SentInv
<1>4. stage \in {"interrupt", "terminate", "kill"}
    BY <1>3 DEF EvidenceInv, Shape, ProcType, Controls, Stages
<1>5. MemType' /\ mem'.replayed \subseteq mem.replayed \cup {stage}
    BY <1>4 DEF Deliver, ControlInv, MemType
<1>6. ASSUME Gone => Gone', sig.sent \subseteq sig'.sent, s \in sig'.sent \/ Gone'
      PROVE  \A st \in mem'.replayed : SignalOf(st) \in sig'.sent \/ Gone'
    BY <1>5, <1>6 DEF ControlInv, SentInv
<1>7. CASE Authentic /\ s \in Graceful /\ Receive(s)
    <2>1. HeardInv' /\ sig'.sent = sig.sent \cup {s}
        BY <1>7, ReceiveKeeps, ReceiveType DEF ControlInv
    <2>2. /\ disk'.launch = disk.launch /\ disk'.request = disk.request
          /\ exec' = exec \/ (Gone' /\ exec.phase # "none")
        BY <1>7, ReceiveEffect
    <2>3. Gone => Gone'
        BY <2>2 DEF Gone
    <2>4. s = "TERM" => "INT" \in sig.sent
        BY <1>3, <1>4, <1>7 DEF Before, SignalOf, Authentic, Alive, Gone
    <2>5. GracefulFirst'
        BY <1>1, <1>7, <2>1, <2>4 DEF ControlInv, SentInv, GracefulFirst, Graceful
    <2>6. \A st \in mem'.replayed : SignalOf(st) \in sig'.sent \/ Gone'
        BY <1>6, <2>1, <2>3
    <2> QED
        BY <1>1, <1>2, <1>3, <1>5, <2>1, <2>2, <2>5, <2>6, SignalStep
<1>8. CASE /\ Authentic /\ s = "KILL" /\ sig' = [sig EXCEPT !.sent = @ \cup {s}]
           /\ StopGroup /\ UNCHANGED disk
    <2>1. /\ sig'.sent = sig.sent \cup {s} /\ sig'.accepted = sig.accepted
          /\ sig'.held = sig.held /\ sig'.heard = sig.heard
        BY <1>8 DEF SigType, Signals
    <2>2. Gone'
        BY <1>8 DEF StopGroup, Gone
    <2>3. HeardInv'
        BY <2>1 DEF ControlInv, HeardInv
    <2>4. row.forced \/ Graceful \subseteq sig.sent
        BY <1>3, <1>4, <1>8 DEF Before, SignalOf, Authentic, Alive, Gone
    <2>5. GracefulFirst'
        BY <1>1, <1>8, <2>1, <2>4 DEF ControlInv, SentInv, GracefulFirst, Graceful
    <2>6. \A st \in mem'.replayed : SignalOf(st) \in sig'.sent \/ Gone'
        BY <2>2
    <2> QED
        BY <1>1, <1>2, <1>3, <1>5, <1>8, <2>1, <2>2, <2>3, <2>5, <2>6, SignalStep
<1>9. CASE ~Authentic /\ UNCHANGED <<execVars, disk>>
    <2>1. UNCHANGED <<exec, sig, disk>> /\ Gone'
        BY <1>3, <1>9 DEF Authentic, Alive, Gone, execVars
    <2>2. HeardInv' /\ GracefulFirst'
        BY <1>1, <2>1 DEF ControlInv, SentInv, HeardInv, GracefulFirst
    <2>3. \A st \in mem'.replayed : SignalOf(st) \in sig'.sent \/ Gone'
        BY <2>1
    <2> QED
        BY <1>1, <1>2, <1>3, <1>5, <2>1, <2>2, <2>3, SignalStep
<1> QED
    BY <1>7, <1>8, <1>9 DEF Deliver

-------------------------------------------------------------------------------
(* The induction.                                                          *)

LEMMA InitControl == ASSUME Init PROVE ControlInv
<1>1. MemType
    BY DEF Init, MemType, NoMemory
<1>2. HeardInv
    <2> DEFINE empty == <<>>
    <2>1. Len(empty) = 0 /\ sig.held = empty /\ sig.accepted = {} /\ \A s \in Graceful : sig.heard[s] = 0
        BY DEF Init
    <2> HIDE DEF empty
    <2> QED
        BY <2>1, SMT DEF HeardInv
<1>3. \A p \in Procs : proc[p].pc = "idle"
    BY DEF Init, Idle
<1>4. RequestInv /\ LifeInv
    BY <1>3, Processes DEF Init, RequestInv, LifeInv, NoReceipt, Terminating
<1>5. SentInv
    BY <1>3 DEF Init, SentInv, Before, GracefulFirst, NoMemory
<1> QED
    BY <1>1, <1>2, <1>4, <1>5 DEF ControlInv

LEMMA SignalControl ==
    ASSUME EvidenceInv, SigType, ControlInv, NEW p \in Procs, Signal(p)
    PROVE  ControlInv'
BY PublishControl, ClaimSignalControl, SignalYieldControl, RecordResultCalm, CalmStep, DeliverControl
DEF Signal, EvidenceInv

LEMMA SchedulerControl ==
    ASSUME EvidenceInv, SigType, ControlInv, SchedulerStep
    PROVE  ControlInv'
<1>1. CASE PreparePayload \/ WritePayload \/ Start \/ Spawn \/ RecordLaunched \/ Attend \/ ReplayStage
    BY <1>1, PayloadControl, StartControl, SpawnControl, RecordLaunchedControl, AttendControl,
       ReplayStageControl
<1>2. CASE \/ Await \/ ReadLaunch \/ Recover \/ ReadAdopt \/ FinishLocal \/ FindReceipt
           \/ PauseAmbiguous \/ ReadExit \/ RecoverPending
    BY <1>2, CalmStep, AwaitCalm, ReadLaunchCalm, ReadAdoptCalm, ReadExitCalm, RecoverCalm
    DEF EvidenceInv
<1>3. CASE Signal(Scheduler)
    BY <1>3, SignalControl, Processes
<1> QED
    BY <1>1, <1>2, <1>3 DEF SchedulerStep

LEMMA NextControl ==
    ASSUME EvidenceInv, SigType, ControlInv, [Next]_vars
    PROVE  ControlInv'
<1>1. CASE SchedulerStep
    BY <1>1, SchedulerControl
<1>2. CASE ExecutorStep
    BY <1>2, CalmStep, PublicationCalm, RunCalm, ReplayControl DEF ExecutorStep, EvidenceInv
<1>3. CASE OperatorStep
    BY <1>3, CalmStep, RequestYieldCalm, RequestTerminationControl, SignalControl, Processes
    DEF OperatorStep, EvidenceInv
<1>4. CASE Fault
    BY <1>4, CalmStep, RunCalm, RestCalm, HostCrashesControl DEF Fault, EvidenceInv
<1>5. CASE JobEnds \/ JobAnswers \/ GraceEnds \/ RetryLeaseEnds \/ StartScheduler \/ UNCHANGED vars
    BY <1>5, CalmStep, RestCalm DEF EvidenceInv
<1> QED
    BY <1>1, <1>2, <1>3, <1>4, <1>5 DEF Next

LEMMA ControlInductive == Spec => []ControlInv
<1>1. Init => ControlInv
    BY InitControl
<1>2. EvidenceInv /\ SigType /\ ControlInv /\ [Next]_vars => ControlInv'
    BY NextControl
<1> QED
    BY <1>1, <1>2, Inductive, SignalsTyped, PTL DEF Spec

-------------------------------------------------------------------------------
(* Claims, deadlines, alerts and crashes.                                  *)

Claims == [by : Procs \cup {"none"}, result : {"none", "open", "delivered", "failed"}]

BookType ==
    /\ claim \in Claims
    /\ clock \subseteq {"grace", "lease"}
    /\ alerts \subseteq {"paused", "quarantined"}
    /\ crashes \in 0 .. MaxCrashes

LEMMA SignalBook == ASSUME BookType, NEW p \in Procs, Signal(p) PROVE BookType'
<1>1. CASE Publish(p) \/ Published(p)
    BY <1>1 DEF BookType, Publish, Published, Uncertain, Alert
<1>2. CASE ClaimSignal(p)
    <2>1. claim' = claim \/ claim' = [by |-> p, result |-> "open"]
        BY <1>2 DEF ClaimSignal
    <2>2. [by |-> p, result |-> "open"] \in Claims
        BY DEF Claims
    <2>3. clock' \subseteq clock /\ alerts' \subseteq alerts \cup {"paused"} /\ crashes' = crashes
        BY <1>2 DEF ClaimSignal, Alert
    <2> QED
        BY <2>1, <2>2, <2>3 DEF BookType
<1>3. CASE SignalYield(p) \/ Deliver(p)
    BY <1>3 DEF BookType, SignalYield, Deliver, dbVars
<1>4. CASE RecordResult(p)
    BY <1>4 DEF BookType, RecordResult, Uncertain, Alert, Claims
<1> QED
    BY <1>1, <1>2, <1>3, <1>4 DEF Signal

LEMMA SchedulerBook == ASSUME BookType, SchedulerStep PROVE BookType'
<1>1. CASE PreparePayload \/ WritePayload \/ Start \/ Spawn \/ RecordLaunched
    BY <1>1 DEF BookType, PreparePayload, WritePayload, Start, Spawn, RecordLaunched, Alert, dbVars
<1>2. CASE Await \/ ReadLaunch \/ Recover \/ ReadAdopt
    BY <1>2 DEF BookType, Await, ReadLaunch, Recover, ReadAdopt, Alert, dbVars
<1>3. CASE Attend \/ FinishLocal \/ FindReceipt \/ PauseAmbiguous \/ RecoverPending \/ ReplayStage
    BY <1>3
    DEF BookType, Attend, FinishLocal, FindReceipt, PauseAmbiguous, RecoverPending, ReplayStage,
        Uncertain, Alert, dbVars
<1>4. CASE ReadExit
    <2>1. NoClaim \in Claims
        BY DEF NoClaim, Claims
    <2> QED
        BY <1>4, <2>1 DEF BookType, ReadExit
<1>5. CASE Signal(Scheduler)
    BY <1>5, SignalBook, Processes
<1> QED
    BY <1>1, <1>2, <1>3, <1>4, <1>5 DEF SchedulerStep

LEMMA NextBook == ASSUME BookType, [Next]_vars PROVE BookType'
<1>1. CASE SchedulerStep
    BY <1>1, SchedulerBook
<1>2. CASE ExecutorStep
    BY <1>2
    DEF BookType, ExecutorStep, Stage, Link, Settle, Unstage, PublicationStep, Boot, Fork, Replay,
        Reap, Drain, ExecStep, dbVars
<1>3. CASE OperatorStep
    <2>1. NoClaim \in Claims
        BY DEF NoClaim, Claims
    <2>2. ASSUME NEW o \in Operators, RequestYield(o) \/ RequestTermination(o) PROVE BookType'
        BY <2>1, <2>2 DEF BookType, RequestYield, RequestTermination
    <2> QED
        BY <1>3, <2>2, SignalBook, Processes DEF OperatorStep
<1>4. CASE Fault
    <2>1. UNCHANGED dbVars /\ crashes < MaxCrashes /\ crashes' = crashes + 1
        BY <1>4
        DEF Fault, PublicationFails, SchedulerCrashes, ExecutorDies, HostCrashes, OperatorDies, Crash
    <2>2. crashes' \in 0 .. MaxCrashes
        BY <2>1, AttemptAssumption, SMT DEF BookType
    <2> QED
        BY <2>1, <2>2 DEF BookType, dbVars
<1>5. CASE JobEnds \/ JobAnswers \/ GraceEnds \/ RetryLeaseEnds \/ StartScheduler \/ UNCHANGED vars
    BY <1>5
    DEF BookType, JobEnds, JobAnswers, GraceEnds, RetryLeaseEnds, StartScheduler, vars, dbVars
<1> QED
    BY <1>1, <1>2, <1>3, <1>4, <1>5 DEF Next

LEMMA BookInductive == Spec => []BookType
<1>1. Init => BookType
    BY AttemptAssumption, SMT DEF Init, BookType, Claims, NoClaim
<1>2. BookType /\ [Next]_vars => BookType'
    BY NextBook
<1> QED
    BY <1>1, <1>2, PTL DEF Spec

-------------------------------------------------------------------------------
(* The theorems.                                                           *)

(* However many processes retry a yield signal or replay a termination     *)
(* stage, a job hears SIGINT and SIGTERM at most once in a segment         *)
(* (execute_payload's handler).                                            *)
THEOREM EachSignalOnce == Spec => []OneBroadcastPerSignal
<1>1. ControlInv => OneBroadcastPerSignal
    BY DEF ControlInv, HeardInv, OneBroadcastPerSignal
<1> QED
    BY <1>1, ControlInductive, PTL

(* A job that hears SIGINT while nobody has asked to terminate it finds    *)
(* the complete yield request (request_manual_yield, recover_pending).     *)
THEOREM RequestComesFirst == Spec => []RequestPrecedesSignal
<1>1. SigType /\ ControlInv => RequestPrecedesSignal
    <2>1. SigType /\ ControlInv /\ sig.heard["INT"] > 0 => "INT" \in sig.accepted
        BY SMT DEF SigType, Signals, ControlInv, HeardInv, Graceful
    <2> QED
        BY <2>1 DEF ControlInv, RequestInv, RequestPrecedesSignal
<1> QED
    BY <1>1, ControlInductive, SignalsTyped, PTL

(* SIGTERM is sent after SIGINT, and SIGKILL after both unless an operator *)
(* asked for it, whoever died between recording a stage and signalling it  *)
(* (_reconcile_termination_action, _deliver_termination_action).           *)
THEOREM GentleSignalsComeFirst == Spec => []GracefulFirst
<1>1. ControlInv => GracefulFirst
    BY DEF ControlInv, SentInv
<1> QED
    BY <1>1, ControlInductive, PTL

(* Rows, files, processes, signals and claims stay well formed; a row that *)
(* request_termination made terminating carries its stage, and a           *)
(* force_killing row the stage kill.                                       *)
THEOREM AttemptTypes == Spec => []AttemptTypeOK
<1>1. EvidenceInv /\ SigType /\ ControlInv /\ BookType => AttemptTypeOK
    <2>1. ASSUME EvidenceInv
          PROVE  /\ row \in [state : {"queued", "ended"} \cup Active,
                             stage : {"none", "interrupt", "terminate", "kill"},
                             identity : BOOLEAN, forced : BOOLEAN,
                             outcome : {"none", "exited", "requeued", "isolated", "interrupted",
                                        "force_killed", "failed", "launch"}]
                 /\ disk \in [payload : Files, request : Files, yield : {"none", "ready"},
                              launch : Receipts, exit : Receipts]
        BY <2>1 DEF EvidenceInv, Shape, RowType, Rows, Stages, Outcomes, DiskType, Disks
    <2>2. ASSUME EvidenceInv
          PROVE  /\ exec \in [phase : {"none", "booting", "announcing", "forking", "replaying",
                                       "running", "draining", "reporting", "gone"},
                              step : {"none", "start", "stable", "linked", "final"}]
                 /\ job \in {"none", "running", "rest", "over"}
        BY <2>2 DEF EvidenceInv, Shape, ExecType, Execs, Jobs
    <2>3. ASSUME EvidenceInv
          PROVE  proc \in [Procs -> [pc : {"idle", "write", "start", "spawn", "await",
                                           "readLaunch", "record", "readAdopt", "adopt",
                                           "readExit", "recover", "publish", "publishing",
                                           "claim", "signal", "result", "replay", "deliver",
                                           "down"},
                                     listed : BOOLEAN, told : BOOLEAN,
                                     stage : {"none", "interrupt", "terminate", "kill"}]]
        BY <2>3 DEF EvidenceInv, Shape, ProcType, Controls, Points, Stages
    <2>4. ASSUME SigType
          PROVE  /\ sig.sent \subseteq Graceful \cup {"KILL"} /\ sig.accepted \subseteq Graceful
                 /\ sig.held \in Seq(Graceful)
        BY <2>4 DEF SigType, Signals
    <2>5. ASSUME ControlInv
          PROVE  /\ mem \in [local : BOOLEAN,
                             replayed : SUBSET {"none", "interrupt", "terminate", "kill"}]
                 /\ row.state \in Terminating => row.stage # "none"
                 /\ row.state = "force_killing" => row.stage = "kill"
        BY <2>5 DEF ControlInv, MemType, LifeInv
    <2> QED
        BY <2>1, <2>2, <2>3, <2>4, <2>5 DEF AttemptTypeOK, BookType, Claims
<1> QED
    BY <1>1, Inductive, SignalsTyped, ControlInductive, BookInductive, PTL
===============================================================================
