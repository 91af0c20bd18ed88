---------------------------- MODULE AttemptControl ----------------------------
(***************************************************************************)
(* One segment of one attempt below the level of database rows: the files  *)
(* of its segment directory, the executor process that publishes its       *)
(* launch and exit receipts there and forwards signals to the job, and the *)
(* processes that signal it. The scheduler and any number of short-lived   *)
(* operator processes signal concurrently, from rows they read before.     *)
(*                                                                         *)
(* A directory entry that was not fsynced may be lost when the host goes   *)
(* down, so a publication is a sequence of steps, and a reader lists the   *)
(* directory in one step and opens what it found in another.               *)
(***************************************************************************)
EXTENDS Naturals, Sequences, FiniteSets

CONSTANTS
    Scheduler,   \* the process that holds scheduler.lock
    Operators,   \* short-lived CLI and web processes
    Commands,    \* what they may ask for: yield, terminate, kill
    Faults,      \* scheduler, operator, executor, host, io
    MaxCrashes   \* bound on crashes of any kind

ASSUME AttemptAssumption ==
    /\ Scheduler \notin Operators
    /\ MaxCrashes \in Nat

VARIABLES
    row,      \* the queue_items row: state, stage, identity, outcome
    claim,    \* holder and result of the latest claimed yield signal
    clock,    \* deadlines that have passed: grace, lease
    alerts,   \* paused, quarantined
    disk,     \* the files of the segment directory
    exec,     \* executor process: phase and publication step
    sig,      \* signals sent, accepted, held back, heard by the job
    job,      \* scientific process and its descendants in the group
    proc,     \* control of the scheduler and of each operator process
    mem,      \* the scheduler's memory: local process, replayed stages
    crashes   \* crashes so far

dbVars == <<row, claim, clock, alerts>>
execVars == <<exec, sig, job>>
vars == <<dbVars, disk, execVars, proc, mem, crashes>>

Procs == Operators \cup {Scheduler}
Graceful == {"INT", "TERM"}
Terminating == {"terminating", "force_killing"}
Active == {"starting", "running", "yielding"} \cup Terminating

\* A receipt published by hard link: its staging entry, once it is durable,
\* and its final entry.
Receipts == [staging : {"none", "kept"}, final : {"none", "volatile", "durable"}]
Files == {"none", "torn", "whole"}
NoReceipt == [staging |-> "none", final |-> "none"]
Idle == [pc |-> "idle", listed |-> FALSE, stage |-> "none", told |-> FALSE]
NoClaim == [by |-> "none", result |-> "none"]
NoMemory == [local |-> FALSE, replayed |-> {}]

Init ==
    /\ row = [state |-> "queued", stage |-> "none", identity |-> FALSE,
              forced |-> FALSE, outcome |-> "none"]
    /\ claim = NoClaim
    /\ clock = {}
    /\ alerts = {}
    /\ disk = [payload |-> "none", launch |-> NoReceipt, exit |-> NoReceipt,
               request |-> "none", yield |-> "none"]
    /\ exec = [phase |-> "none", step |-> "none"]
    /\ sig = [sent |-> {}, accepted |-> {}, held |-> <<>>,
              heard |-> [s \in Graceful |-> 0]]
    /\ job = "none"
    /\ proc = [p \in Procs |-> Idle]
    /\ mem = NoMemory
    /\ crashes = 0

\* Rows, files and processes stay well formed. A row that request_termination
\* made terminating carries its stage, and a force_killing row the stage kill.
AttemptTypeOK ==
    /\ row \in [state : {"queued", "ended"} \cup Active,
                stage : {"none", "interrupt", "terminate", "kill"},
                identity : BOOLEAN, forced : BOOLEAN,
                outcome : {"none", "exited", "requeued", "isolated", "interrupted",
                           "force_killed", "failed", "launch"}]
    /\ row.state \in Terminating => row.stage # "none"
    /\ row.state = "force_killing" => row.stage = "kill"
    /\ claim \in [by : Procs \cup {"none"},
                  result : {"none", "open", "delivered", "failed"}]
    /\ clock \subseteq {"grace", "lease"}
    /\ alerts \subseteq {"paused", "quarantined"}
    /\ disk \in [payload : Files, request : Files, yield : {"none", "ready"},
                 launch : Receipts, exit : Receipts]
    /\ exec \in [phase : {"none", "booting", "announcing", "forking", "replaying",
                          "running", "draining", "reporting", "gone"},
                 step : {"none", "start", "stable", "linked", "final"}]
    /\ sig.sent \subseteq Graceful \cup {"KILL"}
    /\ sig.accepted \subseteq Graceful
    /\ sig.held \in Seq(Graceful)
    /\ job \in {"none", "running", "rest", "over"}
    /\ proc \in [Procs -> [pc : {"idle", "write", "start", "spawn", "await",
                                 "readLaunch", "record", "readAdopt", "adopt",
                                 "readExit", "recover", "publish", "publishing",
                                 "claim", "signal", "result", "replay", "deliver",
                                 "down"},
                           listed : BOOLEAN, told : BOOLEAN,
                           stage : {"none", "interrupt", "terminate", "kill"}]]
    /\ mem \in [local : BOOLEAN,
                replayed : SUBSET {"none", "interrupt", "terminate", "kill"}]
    /\ crashes \in 0 .. MaxCrashes

-------------------------------------------------------------------------------
(* Control                                                                 *)

At(p, pc) == proc[p].pc = pc
Goto(p, pc) == proc' = [proc EXCEPT ![p].pc = pc]
Return(p) == proc' = [proc EXCEPT ![p] = Idle]

\* An exception that nobody catches ends the scheduler process.
Exit == /\ proc' = [proc EXCEPT ![Scheduler] = [Idle EXCEPT !.pc = "down"]]
        /\ mem' = NoMemory

Alive == exec.phase \notin {"none", "gone"}
Alert(what) == alerts' = alerts \cup {what}
End(outcome) == row' = [row EXCEPT !.state = "ended", !.outcome = outcome]

\* process_identity_matches: the recorded process is there. Another process
\* with the same number has another start time and is not signalled.
Authentic == Alive

-------------------------------------------------------------------------------
(* Publication and reading of receipts                                     *)

\* The receipt the executor is publishing.
Publishing == IF exec.phase = "announcing" THEN "launch" ELSE "exit"

\* The control point after a receipt is published.
AfterPublication ==
    IF exec.phase = "announcing" THEN [phase |-> "forking", step |-> "none"]
    ELSE [phase |-> "gone", step |-> "none"]

PublicationStep(step, next, receipt) ==
    /\ exec.phase \in {"announcing", "reporting"}
    /\ exec.step = step
    /\ exec' = next
    /\ disk' = [disk EXCEPT ![Publishing] = receipt]
    /\ UNCHANGED <<dbVars, sig, job, proc, mem, crashes>>

Step(step) == [exec EXCEPT !.step = step]
Here == disk[Publishing]

\* After the test that no final entry exists the complete document is written
\* under a staging name and the file and the directory are fsynced; nobody
\* looks for a staging name before there is a final one.
Stage ==
    /\ Here.final = "none"
    /\ PublicationStep("start", Step("stable"), [Here EXCEPT !.staging = "kept"])

\* The hard link makes the final name visible.
Link ==
    PublicationStep("stable", Step("linked"), [Here EXCEPT !.final = "volatile"])

\* Mutant: the final entry is not fsynced before the staging entry goes.
LinkedIsFinal == PublicationStep("linked", Step("final"), Here)

\* The directory is fsynced again: the final name is durable.
Settle ==
    PublicationStep("linked", Step("final"), [Here EXCEPT !.final = "durable"])

\* Best effort: the staging name is unlinked and the directory fsynced, unless
\* a reader was faster; either step may fail and leave the name behind.
Unstage ==
    \E left \in {"none"} \cup IF "io" \in Faults THEN {Here.staging} ELSE {} :
        PublicationStep("final", AfterPublication, [Here EXCEPT !.staging = left])

\* An I/O error in publication: complete staging evidence is preserved.
PublicationFails ==
    /\ "io" \in Faults
    /\ crashes < MaxCrashes
    /\ crashes' = crashes + 1
    /\ exec.phase \in {"announcing", "reporting"}
    /\ exec.step \in {"start", "stable", "linked"}
    /\ exec' = [phase |-> "gone", step |-> "none"]
    /\ UNCHANGED <<dbVars, disk, sig, job, proc, mem>>

\* confirm_immutable_evidence_for_read, second half: every companion that
\* was listed must still be there, next to the final entry.
Confirmed(d, listed) ==
    /\ disk[d].final # "none"
    /\ listed => disk[d].staging = "kept"

\* Mutant: a companion that was listed is not fsynced away.
TrustVisible(d, listed) == disk' = disk

\* The final entry is made durable, then its companion is removed.
Confirm(d, listed) ==
    disk' = IF listed
            THEN [disk EXCEPT ![d] = [staging |-> "none", final |-> "durable"]]
            ELSE disk

\* A reader lists the companions of the receipt.
List(p, d, next) ==
    proc' = [proc EXCEPT ![p].pc = next,
                         ![p].listed = disk[d].staging = "kept"]

-------------------------------------------------------------------------------
(* The executor                                                            *)

ExecStep(from, to) ==
    /\ exec.phase = from
    /\ exec' = [phase |-> to, step |-> IF to \in {"announcing", "reporting"}
                                       THEN "start" ELSE "none"]
    /\ UNCHANGED <<dbVars, proc, mem, crashes>>

\* _validated_payload accepts nothing but the complete document.
PayloadValid == disk.payload = "whole"

\* The payload is validated and the signal handlers are installed.
Boot ==
    /\ ExecStep("booting", IF PayloadValid THEN "announcing" ELSE "gone")
    /\ UNCHANGED <<disk, sig, job>>

\* Popen: the job starts, or it cannot be started and return code 127 is
\* reported.
Fork ==
    \/ /\ ExecStep("forking", "replaying")
       /\ job' = "running"
       /\ UNCHANGED <<disk, sig>>
    \/ /\ "io" \in Faults
       /\ ExecStep("forking", "reporting")
       /\ UNCHANGED <<disk, sig, job>>

HeardBy(n) == IF job = "running" \/ job = "rest" THEN n + 1 ELSE n

\* Signals held back while there was no child are broadcast in order.
Replay ==
    /\ exec.phase = "replaying"
    /\ UNCHANGED <<dbVars, disk, job, proc, mem, crashes>>
    /\ IF sig.held = <<>> \/ job # "running"
       THEN /\ exec' = [exec EXCEPT !.phase = "running"]
            /\ sig' = [sig EXCEPT !.held = <<>>]
       ELSE /\ sig' = [sig EXCEPT !.held = Tail(@),
                                  !.heard[Head(sig.held)] = HeardBy(@)]
            /\ UNCHANGED exec

\* Mutant: every delivery is forwarded.
HandleEach(s) ==
    [sig EXCEPT !.accepted = @ \cup {s}, !.heard[s] = IF @ < 2 THEN HeardBy(@) ELSE @]

\* The handler: each graceful signal is accepted once per executor, and
\* broadcast to the group if there is a child.
Handle(s) ==
    CASE s \in sig.accepted -> sig
      [] s \notin sig.accepted /\ exec.phase \in {"announcing", "forking"} ->
            [sig EXCEPT !.accepted = @ \cup {s}, !.held = Append(@, s)]
      [] OTHER -> [sig EXCEPT !.accepted = @ \cup {s}, !.heard[s] = HeardBy(@)]

\* A graceful signal reaches the executor. While the exit receipt is published
\* the default handlers are back: SIGTERM ends the process, and SIGINT raises
\* KeyboardInterrupt, which removes staging evidence that is not linked yet.
Receive(s) ==
    IF exec.phase # "reporting"
    THEN /\ sig' = [Handle(s) EXCEPT !.sent = @ \cup {s}]
         /\ UNCHANGED <<exec, disk>>
    ELSE /\ sig' = [sig EXCEPT !.sent = @ \cup {s}]
         /\ exec' = [phase |-> "gone", step |-> "none"]
         /\ disk' = IF s = "INT" /\ exec.step = "stable"
                    THEN [disk EXCEPT !.exit.staging = "none"] ELSE disk

\* child.wait returns.
Reap ==
    /\ job # "running"
    /\ ExecStep("running", "draining")
    /\ UNCHANGED <<disk, sig, job>>

\* Mutant: the descendants of the job are not waited for.
DrainNothing ==
    /\ ExecStep("draining", "reporting")
    /\ UNCHANGED <<disk, sig, job>>

\* The rest of the process group is gone; the handlers are restored.
Drain ==
    /\ job = "over"
    /\ ExecStep("draining", "reporting")
    /\ UNCHANGED <<disk, sig, job>>

\* The job: its main process ends, leaving descendants or not; they end.
JobEnds ==
    /\ job' \in CASE job = "running" -> {"rest", "over"}
                  [] job = "rest" -> {"over"}
                  [] OTHER -> {}
    /\ UNCHANGED <<dbVars, disk, exec, sig, proc, mem, crashes>>

\* A job that finds a complete request may answer that it is ready, with or
\* without a signal; no answer and a failed one end alike, and nobody reads the
\* answer to a yield that a termination has overtaken.
JobAnswers ==
    /\ job = "running" /\ row.state = "yielding"
    /\ disk.request = "whole" /\ disk.yield = "none"
    /\ disk' = [disk EXCEPT !.yield = "ready"]
    /\ UNCHANGED <<dbVars, execVars, proc, mem, crashes>>

-------------------------------------------------------------------------------
(* Launch                                                                  *)

\* prepare_structured_attempt creates the payload exclusively, or verifies
\* one that is there: a torn one is refused and the Project quarantined.
PreparePayload ==
    /\ At(Scheduler, "idle")
    /\ row.state = "queued" /\ alerts = {}
    /\ \/ /\ disk.payload = "none"
          /\ disk' = [disk EXCEPT !.payload = "torn"]
          /\ Goto(Scheduler, "write")
          /\ UNCHANGED alerts
       \/ /\ disk.payload = "whole"
          /\ Goto(Scheduler, "start")
          /\ UNCHANGED <<disk, alerts>>
       \/ /\ disk.payload = "torn"
          /\ Alert("quarantined")
          /\ UNCHANGED <<disk, proc>>
    /\ UNCHANGED <<row, claim, clock, execVars, mem, crashes>>

\* The payload is written and fsynced; on an error it is unlinked again.
WritePayload ==
    /\ At(Scheduler, "write")
    /\ \/ /\ disk' = [disk EXCEPT !.payload = "whole"]
          /\ Goto(Scheduler, "start")
          /\ UNCHANGED alerts
       \/ /\ "io" \in Faults
          /\ disk' = [disk EXCEPT !.payload = "none"]
          /\ Alert("quarantined")
          /\ Return(Scheduler)
    /\ UNCHANGED <<row, claim, clock, execVars, mem, crashes>>

\* The item is claimed.
Start ==
    /\ At(Scheduler, "start")
    /\ row' = [row EXCEPT !.state = "starting"]
    /\ Goto(Scheduler, "spawn")
    /\ UNCHANGED <<claim, clock, alerts, disk, execVars, mem, crashes>>

\* launch_prepared_attempt forks the executor in a directory that holds
\* neither receipts nor staging evidence.
Spawn ==
    /\ At(Scheduler, "spawn")
    /\ disk.payload = "whole" /\ disk.launch = NoReceipt /\ disk.exit = NoReceipt
    /\ exec' = [exec EXCEPT !.phase = "booting"]
    /\ Goto(Scheduler, "await")
    /\ UNCHANGED <<dbVars, disk, sig, job, mem, crashes>>

\* _stop_failed_launch_group: SIGKILL to the whole group.
StopGroup ==
    /\ exec' = [phase |-> "gone", step |-> "none"]
    /\ job' = IF job = "none" THEN "none" ELSE "over"

\* The launch receipt is visible; or the executor is gone, or ten seconds
\* have passed, and the group is stopped, the item failed and the host paused.
Await ==
    /\ At(Scheduler, "await")
    /\ \/ /\ disk.launch.final # "none"
          /\ List(Scheduler, "launch", "readLaunch")
          /\ UNCHANGED <<dbVars, exec, job>>
       \/ /\ disk.launch.final = "none"
          /\ StopGroup
          /\ End("launch")
          /\ Alert("paused")
          /\ Return(Scheduler)
          /\ UNCHANGED <<claim, clock>>
    /\ UNCHANGED <<disk, sig, mem, crashes>>

\* The launch receipt is read. An ExecutorError stops the group, fails the
\* item, pauses the host and, caught by nobody, ends the scheduler.
ReadLaunch ==
    /\ At(Scheduler, "readLaunch")
    /\ IF Confirmed("launch", proc[Scheduler].listed)
       THEN /\ Confirm("launch", proc[Scheduler].listed)
            /\ proc' = [proc EXCEPT ![Scheduler] = [Idle EXCEPT !.pc = "record"]]
            /\ UNCHANGED <<dbVars, exec, job, mem>>
       ELSE /\ StopGroup
            /\ End("launch")
            /\ Alert("paused")
            /\ Exit
            /\ UNCHANGED <<claim, clock, disk>>
    /\ UNCHANGED <<sig, crashes>>

\* record_launched: the process identity of the receipt enters the row, after
\* a launch by this process or a recovery of one that is not its child.
RecordLaunched ==
    /\ At(Scheduler, "record") \/ At(Scheduler, "adopt")
    /\ row' = [row EXCEPT !.state = "running", !.identity = TRUE]
    /\ mem' = [mem EXCEPT !.local = At(Scheduler, "record")]
    /\ Return(Scheduler)
    /\ UNCHANGED <<claim, clock, alerts, disk, execVars, crashes>>

\* _recover_durable_launch_identity for a row without an identity.
Recover ==
    /\ At(Scheduler, "idle") /\ ~mem.local
    /\ row.state = "starting"
    /\ IF disk.launch.final = "none"
       THEN Alert("paused") /\ UNCHANGED proc
       ELSE List(Scheduler, "launch", "readAdopt") /\ UNCHANGED alerts
    /\ UNCHANGED <<row, claim, clock, disk, execVars, mem, crashes>>

ReadAdopt ==
    /\ At(Scheduler, "readAdopt")
    /\ IF Confirmed("launch", proc[Scheduler].listed)
       THEN /\ Confirm("launch", proc[Scheduler].listed)
            /\ proc' = [proc EXCEPT ![Scheduler] = [Idle EXCEPT !.pc = "adopt"]]
            /\ UNCHANGED alerts
       ELSE Alert("paused") /\ Return(Scheduler) /\ UNCHANGED disk
    /\ UNCHANGED <<row, claim, clock, execVars, mem, crashes>>

-------------------------------------------------------------------------------
(* Reconciliation of a launched attempt                                    *)

Launched == At(Scheduler, "idle") /\ row.identity /\ row.state \in Active

\* The attempt is alive: what the row that was read asks for.
Attend ==
    /\ Launched /\ Authentic
    /\ mem.local \/ disk.exit.final = "none"
    /\ \/ row.state = "yielding" /\ Goto(Scheduler, "recover")
       \/ /\ row.state \in Terminating
          /\ proc' = [proc EXCEPT ![Scheduler].pc = "replay",
                                  ![Scheduler].stage = row.stage]
    /\ UNCHANGED <<dbVars, disk, execVars, mem, crashes>>

\* A process this scheduler launched has ended: its receipt is read, if any.
FinishLocal ==
    /\ Launched /\ mem.local /\ ~Alive
    /\ List(Scheduler, "exit", "readExit")
    /\ UNCHANGED <<dbVars, disk, execVars, mem, crashes>>

\* After a restart the exit receipt alone says that the attempt ended; its
\* executor may still be removing the staging name.
FindReceipt ==
    /\ Launched /\ ~mem.local
    /\ disk.exit.final # "none"
    /\ List(Scheduler, "exit", "readExit")
    /\ UNCHANGED <<dbVars, disk, execVars, mem, crashes>>

\* Neither a process nor a receipt: the host is paused.
PauseAmbiguous ==
    /\ Launched /\ ~mem.local
    /\ ~Authentic /\ disk.exit.final = "none"
    /\ Alert("paused")
    /\ UNCHANGED <<row, claim, clock, disk, execVars, proc, mem, crashes>>

\* finalize_manual_yield: the published request verifies, and the answer to it
\* is ready, with every checkpoint artifact it names.
AnswerReady == disk.request # "torn" /\ disk.yield = "ready"

\* What an accepted exit receipt makes of the row as it is now. A yield is
\* requeued only with a ready answer to the published request.
Accepted ==
    CASE row.state = "running" -> "exited"
      [] row.state = "terminating" -> "interrupted"
      [] row.state = "force_killing" -> "force_killed"
      [] row.state = "yielding" /\ AnswerReady -> "requeued"
      [] OTHER -> "isolated"

\* What a missing or rejected exit receipt makes of it.
Rejected ==
    CASE row.state = "yielding" -> "isolated"
      [] mem.local /\ disk.exit.final = "none" /\ row.state = "terminating" ->
            "interrupted"
      [] mem.local /\ disk.exit.final = "none" /\ row.state = "force_killing" ->
            "force_killed"
      [] OTHER -> "failed"

\* The exit receipt is read and applied.
ReadExit ==
    /\ At(Scheduler, "readExit")
    /\ LET listed == proc[Scheduler].listed
           ok == Confirmed("exit", listed)
           outcome == IF ok THEN Accepted ELSE Rejected
       IN  /\ IF ok THEN Confirm("exit", listed) ELSE UNCHANGED disk
           /\ End(outcome)
           /\ alerts' = IF outcome \in {"isolated", "failed"}
                        THEN alerts \cup {"quarantined"} ELSE alerts
    /\ mem' = NoMemory
    /\ clock' = {} /\ claim' = NoClaim
    /\ Return(Scheduler)
    /\ UNCHANGED <<execVars, crashes>>

-------------------------------------------------------------------------------
(* Cooperative yield: request, publication, signal claim, signal, result   *)

\* The scheduler pauses the host when it cannot go on; an operator process
\* quarantines the Project and reports the error.
Uncertain(p) ==
    /\ Alert(IF p = Scheduler THEN "paused" ELSE "quarantined")
    /\ Return(p)

\* A runner announces itself some time after it started, and one that was
\* killed leaves that announcement behind.
RunnerAnnounced == job # "none"

\* request_manual_yield: the request enters the row of a running attempt
\* whose runner has announced itself, before anything is published.
RequestYield(o) ==
    /\ At(o, "idle")
    /\ "yield" \in Commands
    /\ row.state = "running" /\ RunnerAnnounced
    /\ disk.exit.final = "none"
    /\ row' = [row EXCEPT !.state = "yielding"]
    /\ Goto(o, "publish")
    /\ UNCHANGED <<claim, clock, alerts, disk, execVars, mem, crashes>>

\* recover_pending, in the scheduler: the context is rebuilt, which an exit
\* receipt forbids, and the row must still be yielding.
RecoverPending ==
    /\ At(Scheduler, "recover")
    /\ IF row.state = "yielding" /\ disk.exit.final = "none"
       THEN Goto(Scheduler, "publish") /\ UNCHANGED alerts
       ELSE Uncertain(Scheduler)
    /\ UNCHANGED <<row, claim, clock, disk, execVars, mem, crashes>>

\* Mutant: an existing request file is taken as it is.
PublishTrusting(p) ==
    /\ At(p, "publish")
    /\ disk' = [disk EXCEPT !.request = IF @ = "none" THEN "torn" ELSE @]
    /\ Goto(p, IF disk.request = "none" THEN "publishing" ELSE "claim")
    /\ UNCHANGED <<dbVars, execVars, mem, crashes>>

\* _atomic_create_or_verify: the request is created exclusively, or verified.
Publish(p) ==
    /\ At(p, "publish")
    /\ \/ /\ disk.request = "none"
          /\ disk' = [disk EXCEPT !.request = "torn"]
          /\ Goto(p, "publishing")
          /\ UNCHANGED alerts
       \/ /\ disk.request = "whole"
          /\ Goto(p, "claim")
          /\ UNCHANGED <<alerts, disk>>
       \/ /\ disk.request = "torn"
          /\ Uncertain(p)
          /\ UNCHANGED disk
    /\ UNCHANGED <<row, claim, clock, execVars, mem, crashes>>

\* The request is written and fsynced; on an error it is unlinked again.
Published(p) ==
    /\ At(p, "publishing")
    /\ \/ /\ disk' = [disk EXCEPT !.request = "whole"]
          /\ Goto(p, "claim")
          /\ UNCHANGED alerts
       \/ /\ "io" \in Faults
          /\ disk' = [disk EXCEPT !.request = "none"]
          /\ Uncertain(p)
    /\ UNCHANGED <<row, claim, clock, execVars, mem, crashes>>

\* Mutant: a claim is never made twice.
ClaimOnce(p) ==
    /\ At(p, "claim")
    /\ IF claim = NoClaim /\ row.state = "yielding"
       THEN /\ claim' = [by |-> p, result |-> "open"]
            /\ Goto(p, "signal")
       ELSE Return(p) /\ UNCHANGED claim
    /\ UNCHANGED <<row, clock, alerts, disk, execVars, mem, crashes>>

\* claim_manual_yield_signal_attempt: a delivered attempt, or one whose retry
\* lease runs, is not repeated; a row that moved on refuses the claim.
ClaimSignal(p) ==
    /\ At(p, "claim")
    /\ \/ /\ row.state # "yielding"
          /\ IF p = Scheduler THEN Alert("paused") ELSE UNCHANGED alerts
          /\ Return(p)
          /\ UNCHANGED <<claim, clock>>
       \/ /\ row.state = "yielding"
          /\ claim.result = "delivered" \/ (claim # NoClaim /\ "lease" \notin clock)
          /\ Return(p)
          /\ UNCHANGED <<claim, clock, alerts>>
       \/ /\ row.state = "yielding"
          /\ claim = NoClaim \/ (claim.result # "delivered" /\ "lease" \in clock)
          /\ claim' = [by |-> p, result |-> "open"]
          /\ clock' = clock \ {"lease"}
          /\ Goto(p, "signal")
          /\ UNCHANGED alerts
    /\ UNCHANGED <<row, disk, execVars, mem, crashes>>

\* signal_recorded_process with SIGINT: only the executor is signalled.
SignalYield(p) ==
    /\ At(p, "signal")
    /\ IF Authentic THEN Receive("INT") ELSE UNCHANGED <<exec, disk, sig>>
    /\ proc' = [proc EXCEPT ![p].pc = "result", ![p].told = Authentic]
    /\ UNCHANGED <<dbVars, job, mem, crashes>>

\* record_manual_yield_signal_result, for the claim this process made. An
\* undelivered signal also quarantines the Project.
RecordResult(p) ==
    /\ At(p, "result")
    /\ IF row.state # "yielding"
       THEN Uncertain(p) /\ UNCHANGED <<claim, clock>>
       ELSE /\ IF claim.by = p
               THEN /\ claim' = [claim EXCEPT !.result = IF proc[p].told
                                                 THEN "delivered" ELSE "failed"]
                    /\ clock' = clock \ {"lease"}
               ELSE UNCHANGED <<claim, clock>>
            /\ alerts' = IF proc[p].told THEN alerts ELSE alerts \cup {"quarantined"}
            /\ Return(p)
    /\ UNCHANGED <<row, disk, execVars, mem, crashes>>

-------------------------------------------------------------------------------
(* Termination                                                             *)

SignalOf(stage) ==
    CASE stage = "interrupt" -> "INT" [] stage = "terminate" -> "TERM"
      [] stage = "kill" -> "KILL"

\* controller.request_termination: what a request makes of the row. A
\* repeated request returns the recorded action and extends nothing.
Requested(force) ==
    CASE force /\ row.state # "force_killing" ->
            [row EXCEPT !.state = "force_killing", !.stage = "kill", !.forced = TRUE]
      [] ~force /\ row.state \in {"running", "yielding"} ->
            [row EXCEPT !.state = "terminating", !.stage = "interrupt"]
      [] OTHER -> row

\* service.request_termination, in an operator process: the request commits,
\* then the stage of the row is signalled. The claims of an overtaken yield
\* are read no more.
RequestTermination(o) ==
    /\ At(o, "idle")
    /\ \E force \in BOOLEAN :
          /\ (IF force THEN "kill" ELSE "terminate") \in Commands
          /\ row.identity /\ row.state \in Active
          /\ ~force => row.state # "force_killing"
          /\ row' = Requested(force)
    /\ clock' = IF row' # row THEN {} ELSE clock
    /\ claim' = NoClaim
    /\ proc' = [proc EXCEPT ![o].pc = "deliver", ![o].stage = row'.stage]
    /\ UNCHANGED <<alerts, disk, execVars, mem, crashes>>

\* Mutant: a restarted scheduler escalates without replaying the stage.
ReplayNothing ==
    /\ At(Scheduler, "replay")
    /\ LET stage == proc[Scheduler].stage IN
       IF /\ stage # "kill" /\ "grace" \in clock /\ row.stage = stage
       THEN /\ row' = [row EXCEPT !.stage = IF stage = "interrupt" THEN "terminate"
                                            ELSE "kill",
                                  !.state = IF stage = "interrupt" THEN @
                                            ELSE "force_killing"]
            /\ clock' = clock \ {"grace"}
            /\ proc' = [proc EXCEPT ![Scheduler].pc = "deliver",
                                    ![Scheduler].stage = row'.stage]
       ELSE Return(Scheduler) /\ UNCHANGED <<row, clock>>
    /\ UNCHANGED <<claim, alerts, disk, execVars, mem, crashes>>

\* Mutant: a stage whose grace period has passed is not escalated.
ReplayOnly ==
    /\ At(Scheduler, "replay")
    /\ IF proc[Scheduler].stage \in mem.replayed
       THEN Return(Scheduler) ELSE Goto(Scheduler, "deliver")
    /\ UNCHANGED <<dbVars, disk, execVars, mem, crashes>>

\* _reconcile_termination_action: this process delivers each stage once, then
\* escalates when the grace period has passed and the row still has the stage.
ReplayStage ==
    /\ At(Scheduler, "replay")
    /\ LET stage == proc[Scheduler].stage IN
       \/ /\ stage \notin mem.replayed
          /\ Goto(Scheduler, "deliver")
          /\ UNCHANGED <<row, clock>>
       \/ /\ stage \in mem.replayed
          /\ stage # "kill" /\ "grace" \in clock /\ row.stage = stage
          /\ row' = [row EXCEPT !.stage = IF stage = "interrupt" THEN "terminate"
                                          ELSE "kill",
                                !.state = IF stage = "interrupt" THEN @
                                          ELSE "force_killing"]
          /\ clock' = clock \ {"grace"}
          /\ proc' = [proc EXCEPT ![Scheduler].pc = "deliver",
                                  ![Scheduler].stage = row'.stage]
       \/ /\ stage \in mem.replayed
          /\ stage = "kill" \/ "grace" \notin clock \/ row.stage # stage
          /\ Return(Scheduler)
          /\ UNCHANGED <<row, clock>>
    /\ UNCHANGED <<claim, alerts, disk, execVars, mem, crashes>>

\* _deliver_termination_action: SIGKILL goes to the whole group, the graceful
\* signals to the executor only. The audit event
\* follows, and this process will not deliver the stage again.
Deliver(p) ==
    /\ At(p, "deliver")
    /\ LET s == SignalOf(proc[p].stage) IN
       \/ /\ Authentic /\ s \in Graceful
          /\ Receive(s)
          /\ UNCHANGED job
       \/ /\ Authentic /\ s = "KILL"
          /\ sig' = [sig EXCEPT !.sent = @ \cup {s}]
          /\ StopGroup
          /\ UNCHANGED disk
       \/ ~Authentic /\ UNCHANGED <<execVars, disk>>
    /\ mem' = IF p = Scheduler
              THEN [mem EXCEPT !.replayed = @ \cup {proc[p].stage}] ELSE mem
    /\ Return(p)
    /\ UNCHANGED <<dbVars, crashes>>

\* Deadlines pass.
GraceEnds ==
    /\ row.state = "terminating"
    /\ clock' = clock \cup {"grace"}
    /\ UNCHANGED <<row, claim, alerts, disk, execVars, proc, mem, crashes>>

RetryLeaseEnds ==
    /\ claim # NoClaim /\ row.state = "yielding"
    /\ clock' = clock \cup {"lease"}
    /\ UNCHANGED <<row, claim, alerts, disk, execVars, proc, mem, crashes>>

-------------------------------------------------------------------------------
(* Crashes                                                                 *)

Crash(fault) ==
    /\ fault \in Faults
    /\ crashes < MaxCrashes
    /\ crashes' = crashes + 1

SchedulerCrashes ==
    /\ Crash("scheduler")
    /\ ~At(Scheduler, "down")
    /\ Exit
    /\ UNCHANGED <<dbVars, disk, execVars>>

StartScheduler ==
    /\ At(Scheduler, "down")
    /\ Return(Scheduler)
    /\ UNCHANGED <<dbVars, disk, execVars, mem, crashes>>

OperatorDies(o) ==
    /\ Crash("operator")
    /\ ~At(o, "idle")
    /\ Return(o)
    /\ UNCHANGED <<dbVars, disk, execVars, mem>>

\* The executor alone is killed; its job goes on.
ExecutorDies ==
    /\ Crash("executor")
    /\ Alive
    /\ exec' = [phase |-> "gone", step |-> "none"]
    /\ UNCHANGED <<dbVars, disk, sig, job, proc, mem>>

\* What a host crash leaves of a receipt: a final entry that was not fsynced
\* is there or not.
Survivors(r) ==
    {[r EXCEPT !.final = f] :
        f \in IF r.final = "volatile" THEN {"none", "durable"} ELSE {r.final}}

HostCrashes ==
    /\ Crash("host")
    /\ \E l \in Survivors(disk.launch), e \in Survivors(disk.exit),
          p \in {disk.payload, IF disk.payload = "torn" THEN "none" ELSE disk.payload},
          q \in {disk.request, IF disk.request = "torn" THEN "none" ELSE disk.request} :
          disk' = [disk EXCEPT !.launch = l, !.exit = e, !.payload = p, !.request = q]
    /\ exec' = [exec EXCEPT !.phase = IF @ = "none" THEN "none" ELSE "gone",
                            !.step = "none"]
    /\ job' = IF job = "none" THEN "none" ELSE "over"
    /\ proc' = [p \in Procs |-> IF p = Scheduler THEN [Idle EXCEPT !.pc = "down"]
                                ELSE Idle]
    /\ mem' = NoMemory
    /\ UNCHANGED <<dbVars, sig>>

-------------------------------------------------------------------------------
(* The specification                                                       *)

Signal(p) ==
    \/ Publish(p) \/ Published(p) \/ ClaimSignal(p) \/ SignalYield(p)
    \/ RecordResult(p) \/ Deliver(p)

SchedulerStep ==
    \/ PreparePayload \/ WritePayload \/ Start \/ Spawn \/ Await \/ ReadLaunch
    \/ RecordLaunched \/ Recover \/ ReadAdopt
    \/ Attend \/ FinishLocal \/ FindReceipt \/ PauseAmbiguous \/ ReadExit
    \/ RecoverPending \/ ReplayStage \/ Signal(Scheduler)

ExecutorStep ==
    \/ Stage \/ Link \/ Settle \/ Unstage
    \/ Boot \/ Fork \/ Replay \/ Reap \/ Drain

OperatorStep ==
    \E o \in Operators : RequestYield(o) \/ RequestTermination(o) \/ Signal(o)

Fault ==
    \/ PublicationFails \/ SchedulerCrashes \/ ExecutorDies \/ HostCrashes
    \/ \E o \in Operators : OperatorDies(o)

Next ==
    \/ SchedulerStep \/ ExecutorStep \/ OperatorStep
    \/ JobEnds \/ JobAnswers
    \/ GraceEnds \/ RetryLeaseEnds \/ StartScheduler \/ Fault

Spec == Init /\ [][Next]_vars

\* A supervisor restarts the scheduler, whose loop never waits for anybody;
\* the executor runs; time passes. Nothing is assumed of jobs or operators.
Fairness ==
    /\ WF_vars(SchedulerStep)
    /\ WF_vars(StartScheduler)
    /\ WF_vars(ExecutorStep)
    /\ WF_vars(GraceEnds)
    /\ WF_vars(RetryLeaseEnds)

FairSpec == Spec /\ Fairness

-------------------------------------------------------------------------------
(* Properties                                                              *)

\* However often the yield signal is retried and a termination stage is
\* replayed, by however many processes, the job hears SIGINT and SIGTERM at
\* most once in a segment (execute_payload's coalescing handler).
OneBroadcastPerSignal == \A s \in Graceful : sig.heard[s] <= 1

\* Whoever relies on a receipt finds it again after a host crash, although
\* readers may see an entry before it is durable. The launch receipt comes
\* before a scientific process exists (_publish_launch_receipt before Popen);
\* a recorded process identity has it, a recorded exit or requeue has the exit
\* receipt (confirm_immutable_evidence_for_read).
EvidenceIsDurable ==
    /\ job # "none" => disk.launch.final = "durable"
    /\ row.identity => disk.launch.final = "durable"
    /\ row.outcome \in {"exited", "requeued"} => disk.exit.final = "durable"

\* An exit receipt, durable or not, means that no process of the group is
\* left: readers after a restart do not ask for the executor
\* (_scientific_process_group_has_members).
ExitReceiptMeansOver == disk.exit.final # "none" => job \in {"none", "over"}

\* A job interrupted for a yield finds the complete request, whoever
\* published it and whoever crashed while doing so: SIGINT without a request
\* would tell it that it is being terminated (request_manual_yield,
\* recover_pending).
RequestPrecedesSignal ==
    sig.heard["INT"] > 0 /\ row.stage = "none" => disk.request = "whole"

\* SIGTERM comes after SIGINT was sent, and SIGKILL after both unless an
\* operator asked for it, also when the process that recorded a stage died
\* before signalling it (_reconcile_termination_action).
GracefulFirst ==
    /\ "TERM" \in sig.sent => "INT" \in sig.sent
    /\ "KILL" \in sig.sent /\ ~row.forced => Graceful \subseteq sig.sent

\* A receipt that has become durable under one of its names stays so, through
\* errors, readers, crashes and signals. The one step that may lose it is in
\* the code: the interrupt of an executor that has staged its exit receipt,
\* with the handlers restored, and has not linked it (_publish_immutable_json).
\* An interrupt at any other moment excuses nothing, then or later.
Durable(d) == disk[d].staging = "kept" \/ disk[d].final = "durable"
InterruptedBeforeLink ==
    /\ exec.phase = "reporting" /\ exec.step = "stable"
    /\ Receive("INT") /\ UNCHANGED crashes
EvidenceIsNeverLost ==
    [][\A d \in {"launch", "exit"} :
          Durable(d) => Durable(d)' \/ (d = "exit" /\ InterruptedBeforeLink)]_vars

\* A termination that was requested ends the executor, and the row follows or
\* the host is paused for an operator: no crash, race or deaf job keeps an
\* attempt terminating for ever (_reconcile_termination_action).
TerminationLands ==
    row.state \in Terminating
        ~> ~Alive /\ (row.state = "ended" \/ "paused" \in alerts)

\* A yield that was requested reaches the executor, or the row leaves the
\* state, or somebody is alerted (at-least-once signal claims).
YieldIsDelivered ==
    row.state = "yielding"
        ~> row.state # "yielding" \/ "INT" \in sig.accepted \/ alerts # {}

===============================================================================
