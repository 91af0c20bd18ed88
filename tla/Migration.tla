----------------------------- MODULE Migration ------------------------------
(***************************************************************************)
(* The one-shot import of an offline schema-v4 state copy into a new       *)
(* schema-v5 state directory (migrate_v5.py): authenticate the source      *)
(* (legacy_state.py), build and verify a sibling candidate, embed the      *)
(* success receipt (migration_receipt.py), publish the candidate by one    *)
(* exclusive rename, verify it again, and only then publish the external   *)
(* receipt.  Any step may fail or be cut short by a crash of the process   *)
(* or of the host; a rename or a link that was not followed by a           *)
(* directory fsync may be undone by a host crash.                          *)
(*                                                                         *)
(* The importer's directory is one object with a name: no name ("none"),   *)
(* the candidate's ("cand") or the destination's ("dest"); dir.old is the  *)
(* name that is certain to survive a host crash.                           *)
(***************************************************************************)
EXTENDS LegacyEvidence, Naturals

CONSTANTS
    Sources,        \* the source states an import may be given
    Paths,          \* external receipt paths
    MaxRuns,        \* bound on importer invocations
    MaxCuts,        \* bound on process and host crashes
    MaxChanges      \* bound on changes of the source during imports

ASSUME MigrationAssumption ==
    /\ Sources \subseteq [database : {"sound", "invalid", "unreadable"}, rows : SUBSET EvidenceRecords]
    /\ Paths # {}
    /\ MaxRuns \in Nat /\ MaxCuts \in Nat /\ MaxChanges \in Nat

VARIABLES
    source,         \* the copy: is it readable and sound, and its rows' evidence
    imp,            \* the importer: where it is and what it remembers
    dir,            \* its directory: name, surviving name, content, rows, run
    foreign,        \* something else exists under the destination's name
    receipts,       \* per path: document, run, link, staging name
    runs, cuts, changes

migrationVars == <<source, imp, dir, foreign, receipts, runs, cuts, changes>>

NoRun == 0
Idle == [pc |-> "idle", dry |-> FALSE, path |-> CHOOSE p \in Paths : TRUE, snap |-> {},
         doc |-> "none", cut |-> FALSE, owned |-> FALSE]
NoDir == [at |-> "none", old |-> "none", content |-> "none", rows |-> {}, by |-> NoRun]
NoReceipt == [doc |-> "none", run |-> NoRun, link |-> "none", staging |-> FALSE, cut |-> FALSE]

MigrationInit ==
    /\ source \in Sources
    /\ imp = Idle
    /\ dir = NoDir
    /\ foreign = FALSE
    /\ receipts = [p \in Paths |-> NoReceipt]
    /\ runs = 0 /\ cuts = 0 /\ changes = 0

Goto(pc) == imp' = [imp EXCEPT !.pc = pc]
Quit == imp' = Idle
Mine == receipts[imp.path]
Files == <<source, foreign, runs, cuts, changes>>

-----------------------------------------------------------------------------
(* Reading the source.                                                     *)

(* Mutant of Accepted: trusts the rows' Git evidence.                      *)
AcceptedUnverified(s) ==
    /\ s.database = "sound"
    /\ \A r \in s.rows : Quiescent(r) /\ CardVerified(r) /\ PathsInventoried(r)

(* probe_legacy_state: the database can be read and tells its version.     *)
Probed(s) == s.database # "unreadable"

(* _authenticate_schema: exactly the tables and columns of that version.   *)
SchemaAuthentic(s) == s.database = "sound"

(* load_legacy_state: an authentic, sound, idle copy whose every row and   *)
(* every file it refers to verifies.                                       *)
Accepted(s) ==
    /\ SchemaAuthentic(s)
    /\ \A r \in s.rows : Importable(r)

(* assert_unchanged: the copy, Git and every referenced file are still     *)
(* exactly what was loaded.                                                *)
Unchanged == source.database = "sound" /\ source.rows = imp.snap

(* An exception reaches the outer handler of migrate_legacy_state.         *)
Fail == imp' = [imp EXCEPT !.pc = "clean", !.doc = "failure"]

Start(p, dry) ==
    /\ imp.pc = "idle" /\ runs < MaxRuns
    /\ runs' = runs + 1
    /\ imp' = [Idle EXCEPT !.pc = "load", !.dry = dry, !.path = p]
    /\ UNCHANGED <<source, dir, foreign, receipts, cuts, changes>>

(* A source that cannot even be probed leaves no receipt.                  *)
Load ==
    /\ imp.pc = "load"
    /\ CASE ~Probed(source) -> Quit
         [] Probed(source) /\ Accepted(source) ->
                imp' = [imp EXCEPT !.pc = "paths", !.snap = source.rows]
         [] Probed(source) /\ ~Accepted(source) -> Fail
    /\ UNCHANGED <<dir, receipts, Files>>

Vacant == dir.at # "dest" /\ ~foreign

(* _validate_paths, then the candidate's name: destination, receipt and    *)
(* candidate must all be absent.  The handler owns the candidate's name    *)
(* from here on, also when the refusal is that the name is taken.          *)
ValidatePaths ==
    /\ imp.pc = "paths"
    /\ IF Vacant /\ Mine.link = "none"
       THEN imp' = [imp EXCEPT !.owned = TRUE,
                               !.pc = IF dir.at = "cand" THEN "clean" ELSE "build",
                               !.doc = IF dir.at = "cand" THEN "failure" ELSE "none"]
       ELSE Fail
    /\ UNCHANGED <<dir, receipts, Files>>

-----------------------------------------------------------------------------
(* Building and publishing.                                                *)

(* _ensure_state_directory: an empty directory at the candidate's name.    *)
MakeDirectory(survives) ==
    dir' = [at |-> "cand", old |-> survives, content |-> "partial", rows |-> {}, by |-> runs]

(* V5QueueStore.initialize makes the candidate's name durable.  It may     *)
(* fail with the directory already made, before or after that fsync (a     *)
(* directory whose earlier publication may still come back is synchronized *)
(* over, or stays the one the model follows).                              *)
CreateCandidate ==
    /\ imp.pc = "build"
    /\ \/ MakeDirectory("cand") /\ Goto("rows")
       \/ \E survives \in {"cand", dir.old} \ {"dest"} : MakeDirectory(survives) /\ Fail
       \/ Fail /\ UNCHANGED dir
    /\ UNCHANGED <<receipts, Files>>

(* The rows _insert_queue_rows and its siblings write: history is kept as  *)
(* it was, field by field.                                                 *)
InsertedRows == imp.snap

(* _verify_destination: the destination's projection equals the source's.  *)
ProjectionsEqual(rows) == rows = imp.snap

(* _build_candidate inserts and compares every row in one transaction.     *)
BuildCandidate ==
    /\ imp.pc = "rows"
    /\ \/ /\ ProjectionsEqual(InsertedRows)
          /\ dir' = [dir EXCEPT !.content = "rows", !.rows = InsertedRows]
          /\ Goto("verify")
       \/ Fail /\ UNCHANGED dir
    /\ UNCHANGED <<receipts, Files>>

(* QueueMigrationReceipt.create for a success demands the comparison of    *)
(* all rows, the inventory of their paths, and every continuation.         *)
ComparisonProven == dir.content = "rows" /\ dir.rows = imp.snap
InventoryProven == \A r \in dir.rows : PathsInventoried(r)
ContinuationsProven == \A r \in dir.rows : ContinuationVerified(r)
SucceededContract == ComparisonProven /\ InventoryProven /\ ContinuationsProven

(* _final_database_checks and assert_unchanged; the receipt is made.       *)
VerifyCandidate ==
    /\ imp.pc = "verify"
    /\ \/ /\ Unchanged /\ SucceededContract
          /\ Goto(IF imp.dry THEN "discard" ELSE "embed")
       \/ Fail
    /\ UNCHANGED <<dir, receipts, Files>>

(* _safe_remove_candidate.  The removal is not synchronized: until the     *)
(* next fsync a host crash may bring the old name back, in full, because   *)
(* metadata reaches the disk in order.                                     *)
Removed == [dir EXCEPT !.at = "none"]
PartlyRemoved == [dir EXCEPT !.content = "partial", !.old = "cand"]

(* A dry run removes its candidate before it reports.                      *)
DiscardCandidate ==
    /\ imp.pc = "discard"
    /\ \/ /\ dir' = Removed
          /\ IF Unchanged
             THEN imp' = [imp EXCEPT !.pc = "stage", !.doc = "dry", !.owned = FALSE]
             ELSE imp' = [imp EXCEPT !.pc = "clean", !.doc = "failure", !.owned = FALSE]
       \/ dir' = PartlyRemoved /\ Fail
    /\ UNCHANGED <<receipts, Files>>

(* _insert_published_receipt, _final_database_checks, assert_unchanged.    *)
EmbedReceipt ==
    /\ imp.pc = "embed"
    /\ \/ dir' = [dir EXCEPT !.content = "complete"] /\ (IF Unchanged THEN Goto("publish") ELSE Fail)
       \/ UNCHANGED dir /\ Fail
    /\ UNCHANGED <<receipts, Files>>

(* _atomic_rename_noreplace, once it has moved the directory.              *)
RenameTo(name) == dir' = [dir EXCEPT !.at = name]

(* _publish_state up to the rename: it may succeed, fail, report an error  *)
(* although it moved the directory, or be interrupted as it returns: a     *)
(* KeyboardInterrupt is not an OSError, so it goes to the outer handler.   *)
Publish ==
    /\ imp.pc = "publish"
    /\ \/ /\ Vacant /\ RenameTo("dest")
          /\ \/ Goto("sync")
             \/ Goto("rollback")
             \/ imp' = [imp EXCEPT !.pc = "clean", !.doc = "failure", !.cut = TRUE]
       \/ Fail /\ UNCHANGED dir
    /\ UNCHANGED <<receipts, Files>>

(* _publish_state after the rename: the parent directory's fsync.          *)
SyncPublished ==
    /\ imp.pc = "sync"
    /\ \/ dir' = [dir EXCEPT !.old = "dest"] /\ Goto("check")
       \/ UNCHANGED dir /\ Goto("rollback")
    /\ UNCHANGED <<receipts, Files>>

(* Mutant of CheckPublished: announces what the database says before the   *)
(* destination was reopened, and rolls back from there.                    *)
CheckPublishedLate ==
    /\ imp.pc = "check"
    /\ \/ imp' = [imp EXCEPT !.pc = "stage", !.doc = "success"]
       \/ imp' = [imp EXCEPT !.pc = "clean", !.doc = "failure"]
    /\ UNCHANGED <<dir, receipts, Files>>

(* _verify_published_destination: the reopened database is sound and holds *)
(* this run's receipt.                                                     *)
PublishedVerified == dir.content = "complete" /\ dir.by = runs

(* ... and assert_unchanged.                                               *)
CheckPublished ==
    /\ imp.pc = "check"
    /\ \/ /\ PublishedVerified /\ Unchanged
          /\ imp' = [imp EXCEPT !.pc = "stage", !.doc = "success"]
       \/ Goto("rollback")
    /\ UNCHANGED <<dir, receipts, Files>>

(* _rollback_published_state: back to the candidate's name and fsync.  If  *)
(* either is uncertain, every name is left as it is and nothing is said.   *)
Rollback ==
    /\ imp.pc = "rollback"
    /\ \/ RenameTo("cand") /\ Goto("settle back")
       \/ UNCHANGED dir /\ Quit
    /\ UNCHANGED <<receipts, Files>>

SyncRollback ==
    /\ imp.pc = "settle back"
    /\ \/ dir' = [dir EXCEPT !.old = "cand"] /\ Fail
       \/ UNCHANGED dir /\ Quit
    /\ UNCHANGED <<receipts, Files>>

-----------------------------------------------------------------------------
(* _atomic_write_receipt.                                                  *)

(* Writing the receipt failed before it was visible.                       *)
Unwritten ==
    CASE imp.doc = "success" -> Goto("rollback")
      [] imp.doc = "dry"     -> Fail
      [] imp.doc = "failure" -> Quit

(* A durable staging file, if its name is free.                            *)
StageReceipt ==
    /\ imp.pc = "stage"
    /\ \/ /\ ~Mine.staging
          /\ receipts' = [receipts EXCEPT ![imp.path].staging = TRUE]
          /\ Goto("link")
       \/ UNCHANGED receipts /\ Unwritten
    /\ UNCHANGED <<dir, Files>>

(* The document a run leaves at its path.                                  *)
ReceiptDocument == [doc |-> imp.doc, run |-> runs, link |-> "volatile", staging |-> TRUE,
                    cut |-> imp.cut]

(* os.link: fails if the path exists; an error unlinks the staging name.   *)
LinkReceipt ==
    /\ imp.pc = "link"
    /\ \/ /\ Mine.link = "none"
          /\ receipts' = [receipts EXCEPT ![imp.path] = ReceiptDocument]
          /\ Goto("durable")
       \/ receipts' = [receipts EXCEPT ![imp.path].staging = FALSE] /\ Unwritten
    /\ UNCHANGED <<dir, Files>>

(* The directory fsync and the staging name's removal.  Once the receipt   *)
(* is visible no failure undoes anything: the error is reported as         *)
(* indeterminate and every name is kept.                                   *)
SettleReceipt ==
    /\ imp.pc = "durable"
    /\ \/ \E left \in BOOLEAN :
             receipts' = [receipts EXCEPT ![imp.path].link = "durable", ![imp.path].staging = left]
       \/ UNCHANGED receipts
    /\ Quit
    /\ UNCHANGED <<dir, Files>>

(* _safe_failure_receipt_path: the receipt's path is still free.           *)
FailurePathSafe == Mine.link = "none"

(* The outer handler: _safe_remove_candidate on whatever has the           *)
(* candidate's name, then a failure receipt.                               *)
CleanUp ==
    /\ imp.pc = "clean"
    /\ IF imp.owned /\ dir.at = "cand"
       THEN dir' \in {Removed, PartlyRemoved}
       ELSE UNCHANGED dir
    /\ IF FailurePathSafe THEN Goto("stage") ELSE Quit
    /\ UNCHANGED <<receipts, Files>>

-----------------------------------------------------------------------------
(* The environment.                                                        *)

(* Something else takes the destination's name.                            *)
ForeignAppears ==
    /\ Vacant
    /\ foreign' = TRUE
    /\ UNCHANGED <<source, imp, dir, receipts, runs, cuts, changes>>

(* Somebody else writes a file at the receipt's path during the import.    *)
ForeignReceipt ==
    /\ imp.pc # "idle" /\ Mine.link = "none"
    /\ receipts' = [receipts EXCEPT ![imp.path].doc = "other", ![imp.path].link = "durable"]
    /\ UNCHANGED <<source, imp, dir, foreign, runs, cuts, changes>>

(* A writer that was not stopped touches the copy, Git or a file.          *)
SourceChanges ==
    /\ changes < MaxChanges
    /\ changes' = changes + 1
    /\ \E r \in source.rows :
         \E r2 \in {[r EXCEPT !.target = "none"], [r EXCEPT !.tree = "absent", !.registered = FALSE],
                    [r EXCEPT !.files = "card"], [r EXCEPT !.state = "running"]} :
            r2 # r /\ source' = [source EXCEPT !.rows = (source.rows \ {r}) \union {r2}]
    /\ UNCHANGED <<imp, dir, foreign, receipts, runs, cuts>>

ProcessDies ==
    /\ imp.pc # "idle" /\ cuts < MaxCuts
    /\ cuts' = cuts + 1
    /\ Quit
    /\ UNCHANGED <<source, dir, foreign, receipts, runs, changes>>

(* Names that were never synchronized may be gone after a host crash.      *)
HostCrashes ==
    /\ cuts < MaxCuts
    /\ cuts' = cuts + 1
    /\ Quit
    /\ \E name \in {dir.at, dir.old} :
         /\ name = "dest" => ~foreign
         /\ dir' = [dir EXCEPT !.at = name, !.old = name]
    /\ \E lost \in SUBSET {p \in Paths : receipts[p].link = "volatile"} :
         receipts' = [p \in Paths |->
             IF p \in lost THEN [NoReceipt EXCEPT !.staging = receipts[p].staging]
             ELSE IF receipts[p].link = "volatile" THEN [receipts[p] EXCEPT !.link = "durable"]
             ELSE receipts[p]]
    /\ UNCHANGED <<source, foreign, runs, changes>>

Import ==
    \/ Load \/ ValidatePaths \/ CreateCandidate \/ BuildCandidate \/ VerifyCandidate
    \/ DiscardCandidate \/ EmbedReceipt \/ Publish \/ SyncPublished \/ CheckPublished
    \/ Rollback \/ SyncRollback \/ StageReceipt \/ LinkReceipt \/ SettleReceipt \/ CleanUp

MigrationNext ==
    \/ \E p \in Paths, dry \in BOOLEAN : Start(p, dry)
    \/ Import
    \/ ForeignAppears \/ ForeignReceipt \/ SourceChanges \/ ProcessDies \/ HostCrashes

MigrationSpec == MigrationInit /\ [][MigrationNext]_migrationVars

-----------------------------------------------------------------------------
(* What must hold.                                                         *)

Visible(p) == receipts[p].link # "none"

(* Every variable has its type, and the directory's content grows with the *)
(* importer's position: what is being published is complete.               *)
MigrationTypeOK ==
    /\ dir.at \in {"none", "cand", "dest"} /\ dir.old \in {"none", "cand", "dest"}
    /\ dir.content \in {"none", "partial", "rows", "complete"}
    /\ dir.by \in 0 .. runs /\ runs \in 0 .. MaxRuns
    /\ imp.path \in Paths /\ imp.doc \in {"none", "success", "dry", "failure"}
    /\ \A p \in Paths : receipts[p].doc = "none" <=> receipts[p].link = "none"
    /\ imp.pc \in {"publish", "sync", "check", "rollback"} => dir.content = "complete" /\ dir.by = runs

(* A visible external receipt that says the import succeeded is never      *)
(* contradicted: the destination it names is there, complete, from that    *)
(* run, and a host crash cannot take it back.  It is why migrate_v5        *)
(* publishes and synchronizes the state first and never rolls it back once *)
(* the receipt is visible.                                                 *)
SuccessMeansPublished ==
    \A p \in Paths : Visible(p) /\ receipts[p].doc = "success" =>
        /\ dir.at = "dest" /\ dir.old = "dest"
        /\ dir.content = "complete" /\ dir.by = receipts[p].run

(* A failure receipt says "published: false".  Unless the run was          *)
(* interrupted while the rename returned, that stays true of that run's    *)
(* directory, also across a host crash (_rollback_published_state forbids  *)
(* such a receipt while the rollback is uncertain).                        *)
FailureIsTruthful ==
    \A p \in Paths :
        /\ Visible(p) /\ receipts[p].doc = "failure" /\ ~receipts[p].cut
        /\ dir.by = receipts[p].run
        => dir.at # "dest" /\ dir.old # "dest"

(* What a receipt tells an operator is so, success or failure, whenever    *)
(* the process or the host goes down around its publication                *)
(* (_atomic_write_receipt, _rollback_published_state).                     *)
ReceiptsAreTrue == SuccessMeansPublished /\ FailureIsTruthful

(* Whenever our directory has the destination's name, even right after a   *)
(* crash, it holds every row of an accepted, idle source and the receipt   *)
(* of its own import: there is no half-imported state to start from.       *)
DestinationIsComplete ==
    dir.at = "dest" \/ dir.old = "dest" =>
        /\ dir.content = "complete"
        /\ \A r \in dir.rows : Importable(r)

(* The exclusive rename never takes a name somebody else created between   *)
(* the importer's check and its rename.                                    *)
NothingIsReplaced == ~(foreign /\ dir.at = "dest")

(* A pending item of an imported queue can be dispatched: its commit is    *)
(* pinned by its ref, and a worktree it records is live.                   *)
ImportedWorkIsUsable ==
    dir.at = "dest" => \A r \in dir.rows :
        r.state \in PendingStates /\ r.pinned => r.target = "commit" /\ (r.path => LiveWorktree(r))

(* What stands at the destination was put there whole, over nothing, and   *)
(* can be run (_publish_state, _verify_legacy_git_runtime).                *)
DestinationIsSound == DestinationIsComplete /\ NothingIsReplaced /\ ImportedWorkIsUsable

(* A durable external receipt is evidence for good: no later run, retry or *)
(* crash changes it.                                                       *)
ReceiptsAreKept ==
    [][\A p \in Paths : receipts[p].link = "durable" =>
          /\ receipts'[p].doc = receipts[p].doc
          /\ receipts'[p].run = receipts[p].run
          /\ receipts'[p].link = "durable"]_migrationVars
=============================================================================
