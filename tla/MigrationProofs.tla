--------------------------- MODULE MigrationProofs --------------------------
(***************************************************************************)
(* What the importer promises, for any sources, receipt paths, number of   *)
(* runs and number of crashes.  The inductive invariant says, for every    *)
(* point of the importer, what its directory is and which receipts may     *)
(* already be visible.                                                     *)
(***************************************************************************)
EXTENDS Migration, TLAPS

Names == {"none", "cand", "dest"}
Points == {"idle", "load", "paths", "build", "rows", "verify", "discard", "embed", "publish", "sync",
           "check", "rollback", "settle back", "stage", "link", "durable", "clean"}
Documents == {"none", "success", "dry", "failure"}

Receipts == [doc : Documents \union {"other"}, run : Nat, link : {"none", "volatile", "durable"},
             staging : BOOLEAN, cut : BOOLEAN]

Importers == [pc : Points, dry : BOOLEAN, path : Paths, snap : SUBSET EvidenceRecords,
              doc : Documents, cut : BOOLEAN, owned : BOOLEAN]

ImpType == imp \in Importers
DirType ==
    dir \in [at : Names, old : Names, content : {"none", "partial", "rows", "complete"},
             rows : SUBSET EvidenceRecords, by : Nat]
ReceiptType == receipts \in [Paths -> Receipts]
SourceType ==
    source \in [database : {"sound", "invalid", "unreadable"}, rows : SUBSET EvidenceRecords]
RunsType == runs \in 0 .. MaxRuns

TypeInv == ImpType /\ DirType /\ ReceiptType /\ SourceType /\ RunsType

(* The types as they are used below: by field.                             *)
FieldTypes ==
    /\ imp.pc \in Points /\ imp.doc \in Documents /\ imp.path \in Paths /\ imp.cut \in BOOLEAN
    /\ dir.at \in Names /\ dir.old \in Names /\ dir.by \in Nat /\ runs \in Nat
    /\ \A p \in Paths : receipts[p].run \in Nat

(* Where the directory is, and who made it, at each point.                 *)
DirInv ==
    /\ dir.by <= runs
    /\ imp.pc \in {"load", "paths", "build"} => dir.by < runs
    /\ imp.pc = "build" => dir.at # "dest"
    /\ imp.pc \in {"rows", "verify", "discard", "embed", "publish"} =>
           dir.at = "cand" /\ dir.old = "cand" /\ dir.by = runs
    /\ imp.pc \in {"publish", "sync", "check", "rollback", "settle back"} =>
           dir.content = "complete" /\ dir.by = runs
    /\ imp.pc \in {"sync", "check", "rollback"} => dir.at = "dest"
    /\ imp.pc = "check" => dir.old = "dest"
    /\ imp.pc = "settle back" => dir.at = "cand"

(* Which rows the importer holds, and the directory contains.              *)
RowsInv ==
    /\ imp.pc \in {"paths", "build", "rows"} => \A r \in imp.snap : Importable(r)
    /\ imp.pc \in {"verify", "discard", "embed", "publish", "sync", "check", "rollback", "settle back"} =>
           \A r \in dir.rows : Importable(r)

(* What the document about to be written says is true of the directory.    *)
DocInv ==
    /\ imp.pc \in {"stage", "link"} => imp.doc # "none"
    /\ imp.pc \in {"stage", "link", "durable"} /\ imp.doc = "success" =>
           /\ dir.at = "dest" /\ dir.old = "dest" /\ dir.content = "complete" /\ dir.by = runs
           /\ \A r \in dir.rows : Importable(r)
    /\ imp.pc = "clean" => imp.doc = "failure"
    /\ /\ imp.pc \in {"clean", "stage", "link", "durable"} /\ imp.doc \in {"dry", "failure"}
       /\ ~imp.cut /\ dir.by = runs
       => dir.at # "dest" /\ dir.old # "dest"
    /\ imp.pc = "durable" => Visible(imp.path)

(* A visible receipt of the current run exists only at its end.            *)
ReceiptInv ==
    \A p \in Paths :
        /\ receipts[p].doc = "none" <=> receipts[p].link = "none"
        /\ receipts[p].doc \in {"success", "dry", "failure"} =>
               /\ receipts[p].run <= runs
               /\ receipts[p].run = runs => imp.pc \in {"idle", "durable"}

IInv ==
    /\ TypeInv /\ DirInv /\ RowsInv /\ DocInv /\ ReceiptInv
    /\ SuccessMeansPublished /\ FailureIsTruthful /\ DestinationIsComplete /\ NothingIsReplaced

-----------------------------------------------------------------------------
(* How the steps change the importer's record.                             *)

LEMMA Fields == TypeInv => FieldTypes
BY MigrationAssumption DEF TypeInv, ImpType, Importers, DirType, ReceiptType, RunsType, Receipts, FieldTypes

LEMMA IdleType == Idle \in Importers /\ Idle.pc = "idle" /\ Idle.doc = "none" /\ ~Idle.cut
<1> DEFINE first == CHOOSE p \in Paths : TRUE
<1>1. first \in Paths
    BY MigrationAssumption
<1>2. Idle = [pc |-> "idle", dry |-> FALSE, path |-> first, snap |-> {}, doc |-> "none",
              cut |-> FALSE, owned |-> FALSE]
    BY DEF Idle
<1> HIDE DEF first
<1> QED
    BY <1>1, <1>2 DEF Importers, Points, Documents

LEMMA GotoStep ==
    ASSUME ImpType, NEW pc \in Points, Goto(pc)
    PROVE  /\ ImpType'
           /\ imp'.pc = pc /\ imp'.doc = imp.doc /\ imp'.cut = imp.cut /\ imp'.snap = imp.snap
BY DEF ImpType, Importers, Goto

LEMMA FailStep ==
    ASSUME ImpType, Fail
    PROVE  ImpType' /\ imp'.pc = "clean" /\ imp'.doc = "failure" /\ imp'.cut = imp.cut
BY Zenon DEF ImpType, Importers, Fail, Points, Documents

LEMMA QuitStep ==
    ASSUME Quit
    PROVE  ImpType' /\ imp'.pc = "idle" /\ imp'.doc = "none"
BY IdleType DEF Quit, ImpType

LEMMA UnwrittenStep ==
    ASSUME ImpType, imp.doc # "none", Unwritten
    PROVE  /\ ImpType'
           /\ \/ imp.doc = "success" /\ imp'.pc = "rollback"
              \/ imp.doc = "dry" /\ imp'.pc = "clean" /\ imp'.doc = "failure" /\ imp'.cut = imp.cut
              \/ imp.doc = "failure" /\ imp'.pc = "idle" /\ imp'.doc = "none"
BY GotoStep, FailStep, QuitStep, Zenon DEF Unwritten, ImpType, Importers, Documents, Points

-----------------------------------------------------------------------------
(* Steps that change only the importer, or the importer and its directory. *)

LEMMA ImporterStep ==
    ASSUME IInv, ImpType', UNCHANGED <<source, dir, foreign, receipts, runs>>,
           imp'.pc # "idle" => imp.pc \notin {"idle", "durable"},
           DirInv', RowsInv', DocInv'
    PROVE  IInv'
<1>1. TypeInv'
    BY DEF IInv, TypeInv, DirType, ReceiptType, SourceType, RunsType
<1>2. ReceiptInv'
    BY DEF IInv, ReceiptInv
<1>3. SuccessMeansPublished' /\ FailureIsTruthful'
    BY DEF IInv, SuccessMeansPublished, FailureIsTruthful, Visible
<1>4. DestinationIsComplete' /\ NothingIsReplaced'
    BY DEF IInv, DestinationIsComplete, NothingIsReplaced
<1> QED
    BY <1>1, <1>2, <1>3, <1>4 DEF IInv

LEMMA DirectoryStep ==
    ASSUME IInv, ImpType', DirType', UNCHANGED <<source, foreign, receipts, runs>>,
           imp.pc \notin {"idle", "durable"},
           DirInv', RowsInv', DocInv', DestinationIsComplete', NothingIsReplaced',
           SuccessMeansPublished', FailureIsTruthful'
    PROVE  IInv'
<1>1. TypeInv'
    BY DEF IInv, TypeInv, ReceiptType, SourceType, RunsType
<1>2. ReceiptInv'
    BY DEF IInv, ReceiptInv
<1> QED
    BY <1>1, <1>2 DEF IInv

(* While a run works on its own directory, no visible receipt speaks of    *)
(* that directory.                                                         *)
LEMMA Unannounced ==
    ASSUME IInv, imp.pc \notin {"idle", "durable"}, dir.by = runs, NEW p \in Paths,
           receipts[p].doc \in {"success", "failure"}
    PROVE  receipts[p].run # dir.by /\ receipts[p].doc = "failure"
<1>1. receipts[p].run # dir.by /\ receipts[p].link # "none"
    BY Fields DEF IInv, ReceiptInv
<1> QED
    BY <1>1 DEF IInv, SuccessMeansPublished, Visible

LEMMA StartInv ==
    ASSUME IInv, NEW p \in Paths, NEW dry \in BOOLEAN, Start(p, dry)
    PROVE  IInv'
<1>1. ImpType' /\ imp'.pc = "load"
    BY IdleType, Zenon DEF Start, ImpType, Importers, Points
<1>2. UNCHANGED <<source, dir, foreign, receipts>> /\ runs' = runs + 1 /\ RunsType'
    BY MigrationAssumption DEF IInv, TypeInv, RunsType, Start
<1>3. TypeInv'
    BY <1>1, <1>2 DEF IInv, TypeInv, DirType, ReceiptType, SourceType
<1>4. dir'.by < runs' /\ dir'.by <= runs'
    <2>1. dir.by \in Nat /\ runs \in Nat /\ dir.by <= runs
        BY Fields, Zenon DEF IInv, FieldTypes, DirInv
    <2> QED
        BY <1>2, <2>1
<1>5. DirInv' /\ RowsInv' /\ DocInv'
    BY <1>1, <1>4 DEF DirInv, RowsInv, DocInv
<1>6. ASSUME NEW q \in Paths, receipts[q].doc \in {"success", "dry", "failure"}
      PROVE  receipts[q].run <= runs' /\ receipts[q].run # runs'
    <2>1. receipts[q].run \in Nat /\ runs \in Nat /\ receipts[q].run <= runs
        BY <1>6, Fields DEF IInv, FieldTypes, ReceiptInv
    <2> QED
        BY <1>2, <2>1
<1>7. ReceiptInv'
    BY <1>2, <1>6 DEF IInv, ReceiptInv
<1>8. SuccessMeansPublished' /\ FailureIsTruthful'
    BY <1>2 DEF IInv, SuccessMeansPublished, FailureIsTruthful, Visible
<1>9. DestinationIsComplete' /\ NothingIsReplaced'
    BY <1>2 DEF IInv, DestinationIsComplete, NothingIsReplaced
<1> QED
    BY <1>3, <1>5, <1>7, <1>8, <1>9 DEF IInv

LEMMA LoadInv == ASSUME IInv, Load PROVE IInv'
<1>1. ImpType'
    BY GotoStep, FailStep, QuitStep, Zenon
    DEF IInv, TypeInv, Load, ImpType, Importers, Points, Documents, SourceType
<1>2. \/ imp'.pc = "idle"
      \/ imp'.pc = "paths" /\ \A r \in imp'.snap : Importable(r)
      \/ imp'.pc = "clean" /\ imp'.doc = "failure"
    BY GotoStep, FailStep, QuitStep, Zenon
    DEF IInv, TypeInv, Load, ImpType, Importers, Points, Accepted
<1>3. imp.pc = "load" /\ UNCHANGED <<source, dir, foreign, receipts, runs>>
    BY DEF Load, Files
<1>4. DirInv' /\ RowsInv'
    BY <1>2, <1>3, Fields, Zenon DEF IInv, FieldTypes, Points, DirInv, RowsInv
<1>5. DocInv'
    BY <1>2, <1>3, Fields DEF IInv, FieldTypes, Points, DirInv, RowsInv, DocInv
<1> QED
    BY <1>1, <1>3, <1>4, <1>5, ImporterStep

LEMMA ValidatePathsInv == ASSUME IInv, ValidatePaths PROVE IInv'
<1>1. ImpType'
    BY GotoStep, FailStep, QuitStep, Zenon
    DEF IInv, TypeInv, ValidatePaths, ImpType, Importers, Points, Documents
<1>2. \/ imp'.pc = "build" /\ dir.at # "dest" /\ imp'.snap = imp.snap
      \/ imp'.pc = "clean" /\ imp'.doc = "failure"
    BY GotoStep, FailStep, QuitStep, Zenon
    DEF IInv, TypeInv, ValidatePaths, ImpType, Importers, Points, Vacant
<1>3. imp.pc = "paths" /\ UNCHANGED <<source, dir, foreign, receipts, runs>>
    BY DEF ValidatePaths, Files
<1>4. DirInv' /\ RowsInv'
    BY <1>2, <1>3, Fields, Zenon DEF IInv, FieldTypes, Points, DirInv, RowsInv
<1>5. DocInv'
    BY <1>2, <1>3, Fields DEF IInv, FieldTypes, Points, DirInv, RowsInv, DocInv
<1> QED
    BY <1>1, <1>3, <1>4, <1>5, ImporterStep

LEMMA VerifyCandidateInv == ASSUME IInv, VerifyCandidate PROVE IInv'
<1>1. ImpType'
    BY GotoStep, FailStep, QuitStep, Zenon
    DEF IInv, TypeInv, VerifyCandidate, ImpType, Importers, Points, Documents
<1>2. \/ imp'.pc \in {"discard", "embed"}
      \/ imp'.pc = "clean" /\ imp'.doc = "failure"
    BY GotoStep, FailStep, QuitStep, Zenon
    DEF IInv, TypeInv, VerifyCandidate, ImpType, Importers, Points
<1>3. imp.pc = "verify" /\ UNCHANGED <<source, dir, foreign, receipts, runs>>
    BY DEF VerifyCandidate, Files
<1>4. DirInv' /\ RowsInv'
    BY <1>2, <1>3, Fields, Zenon DEF IInv, FieldTypes, Points, DirInv, RowsInv
<1>5. DocInv'
    BY <1>2, <1>3, Fields DEF IInv, FieldTypes, Points, DirInv, RowsInv, DocInv
<1> QED
    BY <1>1, <1>3, <1>4, <1>5, ImporterStep

LEMMA CheckPublishedInv == ASSUME IInv, CheckPublished PROVE IInv'
<1>1. ImpType'
    BY GotoStep, FailStep, QuitStep, Zenon
    DEF IInv, TypeInv, CheckPublished, ImpType, Importers, Points, Documents
<1>2. \/ imp'.pc = "stage" /\ imp'.doc = "success"
      \/ imp'.pc = "rollback"
    BY GotoStep, FailStep, QuitStep, Zenon
    DEF IInv, TypeInv, CheckPublished, ImpType, Importers, Points
<1>3. imp.pc = "check" /\ UNCHANGED <<source, dir, foreign, receipts, runs>>
    BY DEF CheckPublished, Files
<1>4. DirInv' /\ RowsInv'
    BY <1>2, <1>3, Fields, Zenon DEF IInv, FieldTypes, Points, DirInv, RowsInv
<1>5. DocInv'
    BY <1>2, <1>3, Fields DEF IInv, FieldTypes, Points, DirInv, RowsInv, DocInv
<1> QED
    BY <1>1, <1>3, <1>4, <1>5, ImporterStep

LEMMA CreateCandidateInv == ASSUME IInv, CreateCandidate PROVE IInv'
<1>1. /\ ImpType'
      /\ \/ imp'.pc = "rows" /\ imp'.snap = imp.snap /\ MakeDirectory("cand")
         \/ /\ imp'.pc = "clean" /\ imp'.doc = "failure"
            /\ \E survives \in {"cand", dir.old} \ {"dest"} : MakeDirectory(survives)
         \/ imp'.pc = "clean" /\ imp'.doc = "failure" /\ UNCHANGED dir
    BY GotoStep, FailStep, Zenon DEF IInv, TypeInv, CreateCandidate, Points
<1>2. runs \in Nat /\ runs <= runs /\ dir.old \in Names
    BY Fields DEF IInv, FieldTypes
<1>4. imp.pc = "build" /\ UNCHANGED <<source, foreign, receipts, runs>>
    BY DEF CreateCandidate, Files
<1>5. dir.by # runs /\ dir.by <= runs /\ dir.at # "dest"
    BY <1>4, Fields DEF IInv, FieldTypes, DirInv
<1>6. ASSUME NEW survives \in {"cand", "none"}, MakeDirectory(survives),
             \/ imp'.pc = "rows" /\ imp'.snap = imp.snap /\ survives = "cand"
             \/ imp'.pc = "clean" /\ imp'.doc = "failure"
      PROVE  IInv'
    <2>1. /\ dir'.at = "cand" /\ dir'.old = survives /\ dir'.by = runs
          /\ DirType'
        BY <1>2, <1>6 DEF MakeDirectory, DirType, Names
    <2>2. DirInv' /\ RowsInv' /\ DocInv'
        BY <1>2, <1>4, <1>6, <2>1 DEF IInv, DirInv, RowsInv, DocInv
    <2>3. ASSUME NEW p \in Paths, receipts[p].doc \in {"success", "failure"}
          PROVE  receipts[p].doc # "success" /\ receipts[p].run # runs
        BY <1>4, <1>5, <2>3 DEF IInv, ReceiptInv, SuccessMeansPublished, Visible
    <2>4. SuccessMeansPublished' /\ FailureIsTruthful'
        BY <1>4, <1>6, <2>1, <2>3 DEF SuccessMeansPublished, FailureIsTruthful, Visible
    <2>5. DestinationIsComplete' /\ NothingIsReplaced'
        BY <1>4, <1>6, <2>1 DEF DestinationIsComplete, NothingIsReplaced
    <2> QED
        BY <1>1, <1>4, <2>1, <2>2, <2>4, <2>5, DirectoryStep
<1>7. CASE imp'.pc = "clean" /\ imp'.doc = "failure" /\ UNCHANGED dir
    <2>1. DirType' /\ DirInv' /\ RowsInv' /\ DocInv'
        BY <1>4, <1>5, <1>7 DEF IInv, TypeInv, DirType, DirInv, RowsInv, DocInv
    <2> QED
        BY <1>1, <1>4, <1>7, <2>1, ImporterStep
<1>8. ASSUME NEW survives \in {"cand", dir.old} \ {"dest"} PROVE survives \in {"cand", "none"}
    BY <1>2, <1>8 DEF Names
<1> QED
    BY <1>1, <1>6, <1>7, <1>8

LEMMA BuildCandidateInv == ASSUME IInv, BuildCandidate PROVE IInv'
<1>1. ImpType' /\ DirType'
    BY GotoStep, FailStep, QuitStep, Zenon
    DEF IInv, TypeInv, BuildCandidate, ImpType, DirType, RunsType, Importers, Points,
        Documents, Names, InsertedRows
<1>2. \/ /\ imp'.pc = "verify"
         /\ dir'.at = dir.at /\ dir'.old = dir.old /\ dir'.by = dir.by /\ dir'.rows = imp.snap
      \/ imp'.pc = "clean" /\ imp'.doc = "failure" /\ UNCHANGED dir
    BY GotoStep, FailStep, QuitStep, Zenon
    DEF IInv, TypeInv, BuildCandidate, ImpType, DirType, Importers, Points, InsertedRows
<1>3. imp.pc = "rows" /\ UNCHANGED <<source, foreign, receipts, runs>>
    BY DEF BuildCandidate, Files
<1>4. DirInv' /\ RowsInv'
    BY <1>2, <1>3, Fields, Zenon DEF IInv, FieldTypes, DirInv, RowsInv
<1>5. DocInv'
    BY <1>2, <1>3, Fields DEF IInv, FieldTypes, DirInv, RowsInv, DocInv
<1>6. SuccessMeansPublished' /\ FailureIsTruthful'
    BY <1>2, <1>3, Fields, Unannounced DEF IInv, FieldTypes, DirInv, SuccessMeansPublished, FailureIsTruthful, Visible
<1>7. DestinationIsComplete' /\ NothingIsReplaced'
    BY <1>2, <1>3 DEF IInv, DirInv, RowsInv, DestinationIsComplete, NothingIsReplaced
<1> QED
    BY <1>1, <1>3, <1>4, <1>5, <1>6, <1>7, DirectoryStep

LEMMA DiscardCandidateInv == ASSUME IInv, DiscardCandidate PROVE IInv'
<1>1. /\ ImpType'
      /\ \/ imp'.pc = "stage" /\ imp'.doc = "dry"
         \/ imp'.pc = "clean" /\ imp'.doc = "failure"
    <2>1. CASE Fail
        BY <2>1, FailStep DEF IInv, TypeInv
    <2>2. CASE imp' = [imp EXCEPT !.pc = "stage", !.doc = "dry", !.owned = FALSE]
        BY <2>2, Zenon DEF IInv, TypeInv, ImpType, Importers, Points, Documents
    <2>3. CASE imp' = [imp EXCEPT !.pc = "clean", !.doc = "failure", !.owned = FALSE]
        BY <2>3, Zenon DEF IInv, TypeInv, ImpType, Importers, Points, Documents
    <2> QED
        BY <2>1, <2>2, <2>3 DEF DiscardCandidate
<1>2. DirType' /\ dir'.at \in {"none", "cand"} /\ dir'.old = "cand" /\ dir'.by = dir.by
    <2>1. CASE dir' = Removed
        BY <2>1 DEF IInv, TypeInv, DirType, Names, Removed, DirInv, DiscardCandidate
    <2>2. CASE dir' = PartlyRemoved
        BY <2>2, Zenon
        DEF IInv, TypeInv, DirType, Names, PartlyRemoved, DirInv, DiscardCandidate
    <2> QED
        BY <2>1, <2>2 DEF DiscardCandidate
<1>3. imp.pc = "discard" /\ UNCHANGED <<source, foreign, receipts, runs>>
    BY DEF DiscardCandidate, Files
<1>4. DirInv' /\ RowsInv'
    BY <1>1, <1>2, <1>3, Fields, Zenon DEF IInv, FieldTypes, DirInv, RowsInv
<1>5. DocInv'
    BY <1>1, <1>2, <1>3, Fields DEF IInv, FieldTypes, DirInv, RowsInv, DocInv
<1>6. SuccessMeansPublished' /\ FailureIsTruthful'
    BY <1>1, <1>2, <1>3, Fields, Unannounced DEF IInv, FieldTypes, DirInv, SuccessMeansPublished, FailureIsTruthful, Visible
<1>7. DestinationIsComplete' /\ NothingIsReplaced'
    BY <1>1, <1>2, <1>3 DEF IInv, DirInv, RowsInv, DestinationIsComplete, NothingIsReplaced
<1> QED
    BY <1>1, <1>2, <1>3, <1>4, <1>5, <1>6, <1>7, DirectoryStep

LEMMA EmbedReceiptInv == ASSUME IInv, EmbedReceipt PROVE IInv'
<1>1. ImpType' /\ DirType'
    BY GotoStep, FailStep, QuitStep, Zenon
    DEF IInv, TypeInv, EmbedReceipt, ImpType, DirType, RunsType, Importers, Points,
        Documents, Names
<1>2. /\ \/ imp'.pc = "publish" /\ dir'.content = "complete"
         \/ imp'.pc = "clean" /\ imp'.doc = "failure"
      /\ dir'.at = dir.at /\ dir'.old = dir.old /\ dir'.by = dir.by /\ dir'.rows = dir.rows
    BY GotoStep, FailStep, QuitStep, Zenon
    DEF IInv, TypeInv, EmbedReceipt, ImpType, DirType, Importers, Points
<1>3. imp.pc = "embed" /\ UNCHANGED <<source, foreign, receipts, runs>>
    BY DEF EmbedReceipt, Files
<1>4. DirInv' /\ RowsInv'
    BY <1>2, <1>3, Fields, Zenon DEF IInv, FieldTypes, DirInv, RowsInv
<1>5. DocInv'
    BY <1>2, <1>3, Fields DEF IInv, FieldTypes, DirInv, RowsInv, DocInv
<1>6. SuccessMeansPublished' /\ FailureIsTruthful'
    BY <1>2, <1>3, Fields, Unannounced DEF IInv, FieldTypes, DirInv, SuccessMeansPublished, FailureIsTruthful, Visible
<1>7. DestinationIsComplete' /\ NothingIsReplaced'
    BY <1>2, <1>3 DEF IInv, DirInv, RowsInv, DestinationIsComplete, NothingIsReplaced
<1> QED
    BY <1>1, <1>3, <1>4, <1>5, <1>6, <1>7, DirectoryStep

LEMMA PublishInv == ASSUME IInv, Publish PROVE IInv'
<1>1. ImpType' /\ DirType'
    BY GotoStep, FailStep, QuitStep, Zenon
    DEF IInv, TypeInv, Publish, ImpType, DirType, RunsType, Importers, Points, Documents,
        Names, RenameTo, Vacant
<1>2. \/ /\ \/ imp'.pc \in {"sync", "rollback"}
            \/ imp'.pc = "clean" /\ imp'.doc = "failure" /\ imp'.cut
         /\ ~foreign /\ dir'.at = "dest" /\ dir'.old = dir.old /\ dir'.by = dir.by
         /\ dir'.content = dir.content /\ dir'.rows = dir.rows
      \/ imp'.pc = "clean" /\ imp'.doc = "failure" /\ UNCHANGED dir
    <2>1. CASE Vacant /\ RenameTo("dest")
        <3>1. /\ ~foreign /\ dir'.at = "dest" /\ dir'.old = dir.old /\ dir'.by = dir.by
              /\ dir'.content = dir.content /\ dir'.rows = dir.rows
            BY <2>1 DEF IInv, TypeInv, DirType, Vacant, RenameTo
        <3>2. \/ imp'.pc \in {"sync", "rollback"}
              \/ imp'.pc = "clean" /\ imp'.doc = "failure" /\ imp'.cut
              \/ Fail /\ UNCHANGED dir
            BY GotoStep, Zenon DEF IInv, TypeInv, Publish, ImpType, Importers, Points
        <3> QED
            BY <3>1, <3>2, FailStep DEF IInv, TypeInv
    <2>2. CASE Fail /\ UNCHANGED dir
        BY <2>2, FailStep DEF IInv, TypeInv
    <2> QED
        BY <2>1, <2>2 DEF Publish
<1>3. imp.pc = "publish" /\ UNCHANGED <<source, foreign, receipts, runs>>
    BY DEF Publish, Files
<1>4. DirInv' /\ RowsInv'
    BY <1>2, <1>3, Fields, Zenon DEF IInv, FieldTypes, DirInv, RowsInv
<1>5. DocInv'
    BY <1>2, <1>3, Fields DEF IInv, FieldTypes, DirInv, RowsInv, DocInv
<1>6. SuccessMeansPublished' /\ FailureIsTruthful'
    BY <1>2, <1>3, Fields, Unannounced DEF IInv, FieldTypes, DirInv, SuccessMeansPublished, FailureIsTruthful, Visible
<1>7. DestinationIsComplete' /\ NothingIsReplaced'
    BY <1>2, <1>3 DEF IInv, DirInv, RowsInv, DestinationIsComplete, NothingIsReplaced
<1> QED
    BY <1>1, <1>3, <1>4, <1>5, <1>6, <1>7, DirectoryStep

LEMMA SyncPublishedInv == ASSUME IInv, SyncPublished PROVE IInv'
<1>1. ImpType' /\ DirType'
    BY GotoStep, FailStep, QuitStep, Zenon
    DEF IInv, TypeInv, SyncPublished, ImpType, DirType, RunsType, Importers, Points,
        Documents, Names
<1>2. \/ /\ imp'.pc = "check"
         /\ dir'.at = dir.at /\ dir'.old = "dest" /\ dir'.by = dir.by
         /\ dir'.content = dir.content /\ dir'.rows = dir.rows
      \/ imp'.pc = "rollback" /\ UNCHANGED dir
    BY GotoStep, FailStep, QuitStep, Zenon
    DEF IInv, TypeInv, SyncPublished, ImpType, DirType, Importers, Points
<1>3. imp.pc = "sync" /\ UNCHANGED <<source, foreign, receipts, runs>>
    BY DEF SyncPublished, Files
<1>4. DirInv' /\ RowsInv'
    BY <1>2, <1>3, Fields, Zenon DEF IInv, FieldTypes, DirInv, RowsInv
<1>5. DocInv'
    BY <1>2, <1>3, Fields DEF IInv, FieldTypes, DirInv, RowsInv, DocInv
<1>6. SuccessMeansPublished' /\ FailureIsTruthful'
    BY <1>2, <1>3, Fields, Unannounced DEF IInv, FieldTypes, DirInv, SuccessMeansPublished, FailureIsTruthful, Visible
<1>7. DestinationIsComplete' /\ NothingIsReplaced'
    BY <1>2, <1>3 DEF IInv, DirInv, RowsInv, DestinationIsComplete, NothingIsReplaced
<1> QED
    BY <1>1, <1>3, <1>4, <1>5, <1>6, <1>7, DirectoryStep

LEMMA RollbackInv == ASSUME IInv, Rollback PROVE IInv'
<1>1. ImpType' /\ DirType'
    BY GotoStep, FailStep, QuitStep, Zenon
    DEF IInv, TypeInv, Rollback, ImpType, DirType, RunsType, Importers, Points, Documents,
        Names, RenameTo
<1>2. \/ /\ imp'.pc = "settle back"
         /\ dir'.at = "cand" /\ dir'.old = dir.old /\ dir'.by = dir.by
         /\ dir'.content = dir.content /\ dir'.rows = dir.rows
      \/ imp'.pc = "idle" /\ UNCHANGED dir
    BY GotoStep, FailStep, QuitStep, Zenon
    DEF IInv, TypeInv, Rollback, ImpType, DirType, Importers, Points, RenameTo
<1>3. imp.pc = "rollback" /\ UNCHANGED <<source, foreign, receipts, runs>>
    BY Zenon DEF Rollback, Files
<1>4. DirInv' /\ RowsInv'
    BY <1>2, <1>3, Fields, Zenon DEF IInv, FieldTypes, DirInv, RowsInv
<1>5. DocInv'
    BY <1>2, <1>3, Fields, Zenon DEF IInv, FieldTypes, DirInv, RowsInv, DocInv
<1>6. SuccessMeansPublished' /\ FailureIsTruthful'
    BY <1>2, <1>3, Fields, Unannounced, Zenon
    DEF IInv, FieldTypes, DirInv, SuccessMeansPublished, FailureIsTruthful, Visible
<1>7. DestinationIsComplete' /\ NothingIsReplaced'
    BY <1>2, <1>3, Zenon DEF IInv, DirInv, RowsInv, DestinationIsComplete, NothingIsReplaced
<1> QED
    BY <1>1, <1>3, <1>4, <1>5, <1>6, <1>7, DirectoryStep

LEMMA SyncRollbackInv == ASSUME IInv, SyncRollback PROVE IInv'
<1>1. ImpType' /\ DirType'
    BY GotoStep, FailStep, QuitStep, Zenon
    DEF IInv, TypeInv, SyncRollback, ImpType, DirType, RunsType, Importers, Points,
        Documents, Names
<1>2. \/ /\ imp'.pc = "clean" /\ imp'.doc = "failure"
         /\ dir'.at = dir.at /\ dir'.old = "cand" /\ dir'.by = dir.by
      \/ imp'.pc = "idle" /\ UNCHANGED dir
    BY GotoStep, FailStep, QuitStep, Zenon
    DEF IInv, TypeInv, SyncRollback, ImpType, DirType, Importers, Points
<1>3. imp.pc = "settle back" /\ UNCHANGED <<source, foreign, receipts, runs>>
    BY Zenon DEF SyncRollback, Files
<1>4. DirInv' /\ RowsInv'
    BY <1>2, <1>3, Fields, Zenon DEF IInv, FieldTypes, DirInv, RowsInv
<1>5. DocInv'
    BY <1>2, <1>3, Fields, Zenon DEF IInv, FieldTypes, DirInv, RowsInv, DocInv
<1>6. SuccessMeansPublished' /\ FailureIsTruthful'
    BY <1>2, <1>3, Fields, Unannounced, Zenon
    DEF IInv, FieldTypes, DirInv, SuccessMeansPublished, FailureIsTruthful, Visible
<1>7. DestinationIsComplete' /\ NothingIsReplaced'
    BY <1>2, <1>3, Zenon DEF IInv, DirInv, RowsInv, DestinationIsComplete, NothingIsReplaced
<1> QED
    BY <1>1, <1>3, <1>4, <1>5, <1>6, <1>7, DirectoryStep, Zenon

-----------------------------------------------------------------------------
(* Steps that write receipts.                                              *)

(* Making or removing a staging name leaves the documents as they are.     *)
SameDocuments ==
    \A p \in Paths :
        /\ receipts'[p].doc = receipts[p].doc /\ receipts'[p].run = receipts[p].run
        /\ receipts'[p].link = receipts[p].link /\ receipts'[p].cut = receipts[p].cut

LEMMA StagingStep ==
    ASSUME TypeInv, NEW staged \in BOOLEAN,
           receipts' = [receipts EXCEPT ![imp.path].staging = staged]
    PROVE  ReceiptType' /\ SameDocuments
<1> DEFINE row == [receipts[imp.path] EXCEPT !.staging = staged]
<1>1. imp.path \in Paths /\ receipts[imp.path] \in Receipts
    BY DEF TypeInv, ImpType, Importers, ReceiptType
<1>2. /\ row \in Receipts /\ row.doc = receipts[imp.path].doc /\ row.run = receipts[imp.path].run
      /\ row.link = receipts[imp.path].link /\ row.cut = receipts[imp.path].cut
    BY <1>1 DEF Receipts
<1>3. receipts' = [receipts EXCEPT ![imp.path] = row]
    OBVIOUS
<1> HIDE DEF row
<1> QED
    BY <1>1, <1>2, <1>3 DEF TypeInv, ReceiptType, SameDocuments

LEMMA SameDocumentsStep ==
    ASSUME IInv, ImpType', ReceiptType', SameDocuments, UNCHANGED <<source, dir, foreign, runs>>,
           imp.pc \notin {"idle", "durable"}, DirInv', RowsInv', DocInv'
    PROVE  IInv'
<1>1. TypeInv'
    BY DEF IInv, TypeInv, DirType, SourceType, RunsType
<1>2. ReceiptInv'
    BY DEF IInv, ReceiptInv, SameDocuments
<1>3. SuccessMeansPublished' /\ FailureIsTruthful'
    BY DEF IInv, SuccessMeansPublished, FailureIsTruthful, Visible, SameDocuments
<1>4. DestinationIsComplete' /\ NothingIsReplaced'
    BY DEF IInv, DestinationIsComplete, NothingIsReplaced
<1> QED
    BY <1>1, <1>2, <1>3, <1>4 DEF IInv

(* A receipt that could not be written: the importer rolls back, cleans up *)
(* or gives up, and the invariant's part about its position holds there.   *)
LEMMA UnwrittenPosition ==
    ASSUME IInv, imp.pc \in {"stage", "link"}, Unwritten, UNCHANGED <<dir, runs>>
    PROVE  ImpType' /\ DirInv' /\ RowsInv' /\ DocInv'
<1>1. /\ ImpType'
      /\ \/ imp.doc = "success" /\ imp'.pc = "rollback"
         \/ imp.doc = "dry" /\ imp'.pc = "clean" /\ imp'.doc = "failure" /\ imp'.cut = imp.cut
         \/ imp.doc = "failure" /\ imp'.pc = "idle" /\ imp'.doc = "none"
    BY UnwrittenStep DEF IInv, TypeInv, DocInv
<1>2. DirInv' /\ RowsInv'
    BY <1>1, Zenon DEF IInv, DirInv, RowsInv, DocInv
<1>3. DocInv'
    BY <1>1, Zenon DEF IInv, DirInv, DocInv
<1> QED
    BY <1>1, <1>2, <1>3

LEMMA StageReceiptInv == ASSUME IInv, StageReceipt PROVE IInv'
<1>1. imp.pc = "stage" /\ UNCHANGED <<source, dir, foreign, runs>>
    BY DEF StageReceipt, Files
<1>2. CASE UNCHANGED receipts /\ Unwritten
    <2>1. ReceiptType' /\ SameDocuments
        BY <1>2 DEF IInv, TypeInv, ReceiptType, SameDocuments
    <2> QED
        BY <1>1, <1>2, <2>1, UnwrittenPosition, SameDocumentsStep
<1>3. CASE receipts' = [receipts EXCEPT ![imp.path].staging = TRUE] /\ Goto("link")
    <2>1. ReceiptType' /\ SameDocuments
        BY <1>3, StagingStep, Zenon DEF IInv
    <2>2. ImpType' /\ imp'.pc = "link" /\ imp'.doc = imp.doc /\ imp'.cut = imp.cut
        BY <1>3, GotoStep, Zenon DEF IInv, TypeInv, Points
    <2>3. DirInv' /\ RowsInv' /\ DocInv'
        BY <1>1, <2>2 DEF IInv, DirInv, RowsInv, DocInv
    <2> QED
        BY <1>1, <2>1, <2>2, <2>3, SameDocumentsStep
<1> QED
    BY <1>2, <1>3 DEF StageReceipt

LEMMA LinkReceiptInv == ASSUME IInv, LinkReceipt PROVE IInv'
<1>1. imp.pc = "link" /\ UNCHANGED <<source, dir, foreign, runs>>
    BY DEF LinkReceipt, Files
<1>2. CASE receipts' = [receipts EXCEPT ![imp.path].staging = FALSE] /\ Unwritten
    <2>1. ReceiptType' /\ SameDocuments
        BY <1>2, StagingStep, Zenon DEF IInv
    <2> QED
        BY <1>1, <1>2, <2>1, UnwrittenPosition, SameDocumentsStep
<1>3. CASE receipts' = [receipts EXCEPT ![imp.path] = ReceiptDocument] /\ Goto("durable")
    <2>1. imp.path \in Paths /\ ReceiptDocument \in Receipts /\ runs \in Nat /\ runs <= runs
        BY Fields DEF IInv, FieldTypes, ReceiptDocument, Receipts
    <2>2. /\ ImpType' /\ imp'.pc = "durable" /\ imp'.doc = imp.doc /\ imp'.cut = imp.cut
          /\ imp'.path = imp.path
        BY <1>3, GotoStep, Zenon DEF IInv, TypeInv, Points, Goto, ImpType, Importers
    <2>3. TypeInv'
        BY <1>1, <1>3, <2>1, <2>2 DEF IInv, TypeInv, DirType, ReceiptType, SourceType, RunsType
    <2>4. /\ receipts'[imp.path].doc = imp.doc /\ receipts'[imp.path].run = runs
          /\ receipts'[imp.path].link = "volatile" /\ receipts'[imp.path].cut = imp.cut
          /\ \A p \in Paths : p # imp.path => receipts'[p] = receipts[p]
        BY <1>3, <2>1 DEF IInv, TypeInv, ReceiptType, ReceiptDocument
    <2>5. DirInv' /\ RowsInv' /\ DocInv'
        BY <1>1, <2>2, <2>4 DEF IInv, DirInv, RowsInv, DocInv, Visible
    <2>6. ReceiptInv'
        BY <1>1, <2>1, <2>2, <2>4 DEF IInv, ReceiptInv, DocInv
    <2>7. SuccessMeansPublished'
        BY <1>1, <2>4 DEF IInv, SuccessMeansPublished, Visible, DocInv
    <2>8. FailureIsTruthful'
        BY <1>1, <2>4 DEF IInv, FailureIsTruthful, Visible, DocInv
    <2>9. DestinationIsComplete' /\ NothingIsReplaced'
        BY <1>1 DEF IInv, DestinationIsComplete, NothingIsReplaced
    <2> QED
        BY <2>3, <2>5, <2>6, <2>7, <2>8, <2>9 DEF IInv
<1> QED
    BY <1>2, <1>3 DEF LinkReceipt

LEMMA SettleReceiptInv == ASSUME IInv, SettleReceipt PROVE IInv'
<1>1. imp.pc = "durable" /\ UNCHANGED <<source, dir, foreign, runs>>
    BY DEF SettleReceipt, Files
<1>2. ImpType' /\ imp'.pc = "idle"
    BY QuitStep DEF SettleReceipt
<1>3. DirInv' /\ RowsInv' /\ DocInv'
    BY <1>1, <1>2 DEF IInv, DirInv, RowsInv, DocInv
<1>4. CASE UNCHANGED receipts
    BY <1>1, <1>2, <1>3, <1>4, ImporterStep
<1>5. ASSUME NEW left \in BOOLEAN,
             receipts' = [receipts EXCEPT ![imp.path].link = "durable", ![imp.path].staging = left]
      PROVE  IInv'
    <2> DEFINE row == [receipts[imp.path] EXCEPT !.link = "durable", !.staging = left]
    <2>1. imp.path \in Paths /\ receipts[imp.path] \in Receipts
        BY DEF IInv, TypeInv, ImpType, Importers, ReceiptType
    <2>2. /\ row \in Receipts /\ row.doc = receipts[imp.path].doc /\ row.run = receipts[imp.path].run
          /\ row.link = "durable" /\ row.cut = receipts[imp.path].cut
        BY <2>1, Zenon DEF Receipts
    <2>3. receipts' = [receipts EXCEPT ![imp.path] = row]
        BY <1>5, <2>1, Zenon DEF IInv, TypeInv, ReceiptType
    <2> HIDE DEF row
    <2>4. /\ ReceiptType'
          /\ \A p \in Paths :
                 /\ receipts'[p].doc = receipts[p].doc /\ receipts'[p].run = receipts[p].run
                 /\ receipts'[p].link = "none" <=> receipts[p].link = "none"
                 /\ receipts'[p].cut = receipts[p].cut
        BY <1>1, <2>1, <2>2, <2>3 DEF IInv, TypeInv, ReceiptType, DocInv, Visible
    <2>5. TypeInv'
        BY <1>1, <1>2, <2>4 DEF IInv, TypeInv, DirType, SourceType, RunsType
    <2>6. ReceiptInv'
        BY <1>1, <1>2, <2>4 DEF IInv, ReceiptInv
    <2>7. SuccessMeansPublished' /\ FailureIsTruthful'
        BY <1>1, <2>4 DEF IInv, SuccessMeansPublished, FailureIsTruthful, Visible
    <2>8. DestinationIsComplete' /\ NothingIsReplaced'
        BY <1>1 DEF IInv, DestinationIsComplete, NothingIsReplaced
    <2> QED
        BY <1>3, <2>5, <2>6, <2>7, <2>8 DEF IInv
<1> QED
    BY <1>4, <1>5, Zenon DEF SettleReceipt

LEMMA CleanUpInv == ASSUME IInv, CleanUp PROVE IInv'
<1>1. imp.pc = "clean" /\ imp.doc = "failure" /\ UNCHANGED <<source, foreign, receipts, runs>>
    BY DEF IInv, DocInv, CleanUp, Files
<1>2. /\ ImpType'
      /\ \/ imp'.pc = "stage" /\ imp'.doc = "failure" /\ imp'.cut = imp.cut
         \/ imp'.pc = "idle"
    <2>1. CASE Goto("stage")
        BY <1>1, <2>1, GotoStep, Zenon DEF IInv, TypeInv, Points
    <2>2. CASE Quit
        BY <2>2, QuitStep
    <2> QED
        BY <2>1, <2>2 DEF CleanUp
<1>3. CASE UNCHANGED dir
    <2>1. DirInv' /\ RowsInv' /\ DocInv'
        BY <1>1, <1>2, <1>3, Zenon DEF IInv, DirInv, RowsInv, DocInv
    <2> QED
        BY <1>1, <1>2, <1>3, <2>1, ImporterStep
<1>4. CASE dir.at = "cand" /\ dir' \in {Removed, PartlyRemoved}
    <2>1. /\ DirType' /\ dir'.at # "dest" /\ dir'.by = dir.by
          /\ \/ dir'.old = "cand"
             \/ dir'.old = dir.old /\ dir'.content = dir.content /\ dir'.rows = dir.rows
        BY <1>4, Zenon DEF IInv, TypeInv, DirType, Names, Removed, PartlyRemoved
    <2>2. DirInv' /\ RowsInv'
        BY <1>1, <1>2, <2>1, Zenon DEF IInv, DirInv, RowsInv
    <2>3. DocInv'
        BY <1>1, <1>2, <2>1 DEF IInv, DocInv
    <2>4. SuccessMeansPublished'
        BY <1>1, <1>4 DEF IInv, SuccessMeansPublished, Visible
    <2>5. FailureIsTruthful'
        BY <1>1, <2>1 DEF IInv, FailureIsTruthful, Visible
    <2>6. DestinationIsComplete' /\ NothingIsReplaced'
        BY <2>1 DEF IInv, DestinationIsComplete, NothingIsReplaced
    <2> QED
        BY <1>1, <1>2, <2>1, <2>2, <2>3, <2>4, <2>5, <2>6, DirectoryStep
<1> QED
    BY <1>3, <1>4 DEF CleanUp

-----------------------------------------------------------------------------
(* The environment's steps.                                                *)

LEMMA ForeignAppearsInv == ASSUME IInv, ForeignAppears PROVE IInv'
<1>1. dir.at # "dest" /\ UNCHANGED <<source, imp, dir, receipts, runs>>
    BY DEF ForeignAppears, Vacant
<1>2. TypeInv' /\ DirInv' /\ RowsInv' /\ ReceiptInv'
    BY <1>1, Zenon
    DEF IInv, TypeInv, ImpType, DirType, ReceiptType, SourceType, RunsType, DirInv, RowsInv,
                ReceiptInv
<1>3. DocInv'
    BY <1>1 DEF IInv, DocInv, Visible
<1>4. SuccessMeansPublished' /\ FailureIsTruthful'
    BY <1>1 DEF IInv, SuccessMeansPublished, FailureIsTruthful, Visible
<1>5. DestinationIsComplete' /\ NothingIsReplaced'
    BY <1>1 DEF IInv, DestinationIsComplete, NothingIsReplaced
<1> QED
    BY <1>2, <1>3, <1>4, <1>5 DEF IInv

LEMMA ForeignReceiptInv == ASSUME IInv, ForeignReceipt PROVE IInv'
<1> DEFINE row == [receipts[imp.path] EXCEPT !.doc = "other", !.link = "durable"]
<1>1. /\ receipts[imp.path].link = "none" /\ UNCHANGED <<source, imp, dir, foreign, runs>>
      /\ imp.path \in Paths /\ receipts[imp.path] \in Receipts
    BY DEF ForeignReceipt, Mine, IInv, TypeInv, ImpType, Importers, ReceiptType
<1>2. row \in Receipts /\ row.doc = "other" /\ row.link = "durable"
    BY <1>1, Zenon DEF Receipts
<1>3. receipts' = [receipts EXCEPT ![imp.path] = row]
    BY <1>1, Zenon DEF ForeignReceipt, IInv, TypeInv, ReceiptType
<1> HIDE DEF row
<1>4. /\ ReceiptType' /\ receipts'[imp.path].doc = "other" /\ receipts'[imp.path].link = "durable"
      /\ \A p \in Paths : p # imp.path => receipts'[p] = receipts[p]
    BY <1>1, <1>2, <1>3 DEF IInv, TypeInv, ReceiptType
<1>5. TypeInv' /\ DirInv' /\ RowsInv'
    BY <1>1, <1>4, Zenon
    DEF IInv, TypeInv, ImpType, DirType, SourceType, RunsType, DirInv, RowsInv
<1>6. DocInv'
    BY <1>1, <1>4 DEF IInv, DocInv, Visible
<1>7. ReceiptInv'
    BY <1>1, <1>4 DEF IInv, ReceiptInv
<1>8. SuccessMeansPublished' /\ FailureIsTruthful'
    BY <1>1, <1>4 DEF IInv, SuccessMeansPublished, FailureIsTruthful, Visible
<1>9. DestinationIsComplete' /\ NothingIsReplaced'
    BY <1>1 DEF IInv, DestinationIsComplete, NothingIsReplaced
<1> QED
    BY <1>5, <1>6, <1>7, <1>8, <1>9 DEF IInv

LEMMA SourceChangesInv == ASSUME IInv, SourceChanges PROVE IInv'
<1>1. UNCHANGED <<imp, dir, foreign, receipts, runs>>
    BY DEF SourceChanges
<1>2. PICK r \in source.rows :
          \E r2 \in {[r EXCEPT !.target = "none"], [r EXCEPT !.tree = "absent", !.registered = FALSE],
                     [r EXCEPT !.files = "card"], [r EXCEPT !.state = "running"]} :
              source' = [source EXCEPT !.rows = (source.rows \ {r}) \union {r2}]
    BY Zenon DEF SourceChanges
<1>3. r \in EvidenceRecords /\ source.rows \subseteq EvidenceRecords
    BY DEF IInv, TypeInv, SourceType
<1>4. PICK r2 : /\ r2 \in EvidenceRecords
                /\ source' = [source EXCEPT !.rows = (source.rows \ {r}) \union {r2}]
    BY <1>2, <1>3, Zenon DEF EvidenceRecords, FileStates, RunningStates
<1>5. SourceType'
    BY <1>3, <1>4 DEF IInv, TypeInv, SourceType
<1>6. TypeInv' /\ DirInv' /\ RowsInv' /\ ReceiptInv'
    BY <1>1, <1>5, Zenon
    DEF IInv, TypeInv, ImpType, DirType, ReceiptType, RunsType, DirInv, RowsInv, ReceiptInv
<1>7. DocInv'
    BY <1>1 DEF IInv, DocInv, Visible
<1>8. SuccessMeansPublished' /\ FailureIsTruthful'
    BY <1>1 DEF IInv, SuccessMeansPublished, FailureIsTruthful, Visible
<1>9. DestinationIsComplete' /\ NothingIsReplaced'
    BY <1>1 DEF IInv, DestinationIsComplete, NothingIsReplaced
<1> QED
    BY <1>6, <1>7, <1>8, <1>9 DEF IInv

LEMMA ProcessDiesInv == ASSUME IInv, ProcessDies PROVE IInv'
<1>1. UNCHANGED <<source, dir, foreign, receipts, runs>> /\ ImpType' /\ imp'.pc = "idle"
    BY QuitStep DEF ProcessDies
<1>2. DirInv' /\ RowsInv' /\ DocInv'
    BY <1>1, Zenon DEF IInv, DirInv, RowsInv, DocInv
<1> QED
    BY <1>1, <1>2, ImporterStep

(* After a host crash a receipt is lost, or it is what it was.             *)
LEMMA CrashedReceipts ==
    ASSUME TypeInv, HostCrashes
    PROVE  /\ ReceiptType'
           /\ \A p \in Paths :
                 \/ receipts'[p].doc = "none" /\ receipts'[p].link = "none"
                 \/ /\ receipts'[p].doc = receipts[p].doc /\ receipts'[p].run = receipts[p].run
                    /\ receipts'[p].link = "none" <=> receipts[p].link = "none"
                    /\ receipts'[p].cut = receipts[p].cut
<1>1. PICK lost \in SUBSET {p \in Paths : receipts[p].link = "volatile"} :
          receipts' = [p \in Paths |->
              IF p \in lost THEN [NoReceipt EXCEPT !.staging = receipts[p].staging]
              ELSE IF receipts[p].link = "volatile" THEN [receipts[p] EXCEPT !.link = "durable"]
              ELSE receipts[p]]
    BY DEF HostCrashes
<1>2. ASSUME NEW p \in Paths
      PROVE  /\ receipts'[p] \in Receipts
             /\ \/ receipts'[p].doc = "none" /\ receipts'[p].link = "none"
                \/ /\ receipts'[p].doc = receipts[p].doc /\ receipts'[p].run = receipts[p].run
                   /\ receipts'[p].link = "none" <=> receipts[p].link = "none"
                   /\ receipts'[p].cut = receipts[p].cut
    <2>1. receipts[p] \in Receipts
        BY DEF TypeInv, ReceiptType
    <2>2. CASE p \in lost
        <3>1. receipts'[p] = [doc |-> "none", run |-> 0, link |-> "none",
                              staging |-> receipts[p].staging, cut |-> FALSE]
            BY <1>1, <2>2, Zenon DEF NoReceipt, NoRun
        <3>2. receipts[p].staging \in BOOLEAN
            BY <2>1 DEF Receipts
        <3> QED
            BY <3>1, <3>2 DEF Receipts, Documents
    <2>3. CASE p \notin lost /\ receipts[p].link = "volatile"
        <3> DEFINE row == [receipts[p] EXCEPT !.link = "durable"]
        <3>1. receipts'[p] = row
            BY <1>1, <2>3
        <3>2. /\ row \in Receipts /\ row.doc = receipts[p].doc /\ row.run = receipts[p].run
              /\ row.link = "durable" /\ row.cut = receipts[p].cut
            BY <2>1 DEF Receipts
        <3> HIDE DEF row
        <3> QED
            BY <2>3, <3>1, <3>2
    <2>4. CASE p \notin lost /\ receipts[p].link # "volatile"
        BY <1>1, <2>1, <2>4
    <2> QED
        BY <2>2, <2>3, <2>4
<1>3. receipts' = [p \in Paths |-> receipts'[p]]
    BY <1>1
<1> QED
    BY <1>2, <1>3 DEF ReceiptType

LEMMA HostCrashesInv == ASSUME IInv, HostCrashes PROVE IInv'
<1>1. UNCHANGED <<source, foreign, runs>> /\ ImpType' /\ imp'.pc = "idle"
    BY QuitStep DEF HostCrashes
<1>2. PICK name \in {dir.at, dir.old} :
          (name = "dest" => ~foreign) /\ dir' = [dir EXCEPT !.at = name, !.old = name]
    BY Zenon DEF HostCrashes
<1>3. /\ DirType' /\ dir'.at = name /\ dir'.old = name /\ dir'.by = dir.by
      /\ dir'.content = dir.content /\ dir'.rows = dir.rows
    BY <1>2, Zenon DEF IInv, TypeInv, DirType
<1>4. TypeInv'
    BY <1>1, <1>3, CrashedReceipts DEF IInv, TypeInv, SourceType, RunsType
<1>5. DirInv' /\ RowsInv' /\ DocInv'
    BY <1>1, <1>3, Zenon DEF IInv, DirInv, RowsInv, DocInv
<1>6. ReceiptInv'
    BY <1>1, CrashedReceipts DEF IInv, ReceiptInv
<1>7. SuccessMeansPublished'
    BY <1>2, <1>3, CrashedReceipts DEF IInv, SuccessMeansPublished, Visible
<1>8. FailureIsTruthful'
    BY <1>2, <1>3, CrashedReceipts DEF IInv, FailureIsTruthful, Visible
<1>9. DestinationIsComplete' /\ NothingIsReplaced'
    BY <1>1, <1>2, <1>3 DEF IInv, DestinationIsComplete, NothingIsReplaced
<1> QED
    BY <1>4, <1>5, <1>6, <1>7, <1>8, <1>9 DEF IInv

LEMMA StutterInv == ASSUME IInv, UNCHANGED migrationVars PROVE IInv'
<1>1. UNCHANGED <<source, imp, dir, foreign, receipts, runs>>
    BY DEF migrationVars
<1>2. TypeInv' /\ DirInv' /\ RowsInv' /\ ReceiptInv'
    BY <1>1, Zenon
    DEF IInv, TypeInv, ImpType, DirType, ReceiptType, SourceType, RunsType, DirInv, RowsInv,
                ReceiptInv
<1>3. DocInv'
    BY <1>1 DEF IInv, DocInv, Visible
<1>4. SuccessMeansPublished' /\ FailureIsTruthful'
    BY <1>1 DEF IInv, SuccessMeansPublished, FailureIsTruthful, Visible
<1>5. DestinationIsComplete' /\ NothingIsReplaced'
    BY <1>1 DEF IInv, DestinationIsComplete, NothingIsReplaced
<1> QED
    BY <1>2, <1>3, <1>4, <1>5 DEF IInv

-----------------------------------------------------------------------------
(* The invariant holds in every behaviour.                                 *)

LEMMA InitInv == ASSUME MigrationInit PROVE IInv
<1>1. imp = Idle /\ dir = NoDir /\ foreign = FALSE /\ runs = 0 /\ source \in Sources
    BY DEF MigrationInit
<1>2. /\ NoReceipt \in Receipts /\ NoReceipt.doc = "none" /\ NoReceipt.link = "none"
      /\ receipts = [p \in Paths |-> NoReceipt]
    BY DEF MigrationInit, NoReceipt, NoRun, Receipts, Documents
<1>3. TypeInv
    BY <1>1, <1>2, IdleType, MigrationAssumption
    DEF TypeInv, ImpType, DirType, ReceiptType, SourceType, RunsType, NoDir, NoRun, Names
<1>4. imp.pc = "idle" /\ dir.at = "none" /\ dir.old = "none" /\ dir.by = 0 /\ dir.by <= runs
    BY <1>1, IdleType DEF NoDir, NoRun
<1>5. \A p \in Paths : receipts[p].doc = "none" /\ receipts[p].link = "none"
    BY <1>2
<1>6. DirInv /\ RowsInv /\ DocInv
    BY <1>4 DEF DirInv, RowsInv, DocInv
<1>7. ReceiptInv /\ SuccessMeansPublished /\ FailureIsTruthful
    BY <1>5 DEF ReceiptInv, SuccessMeansPublished, FailureIsTruthful, Visible
<1>8. DestinationIsComplete /\ NothingIsReplaced
    BY <1>1, <1>4 DEF DestinationIsComplete, NothingIsReplaced
<1> QED
    BY <1>3, <1>6, <1>7, <1>8 DEF IInv

LEMMA ImportInv == ASSUME IInv, Import PROVE IInv'
BY LoadInv, ValidatePathsInv, CreateCandidateInv, BuildCandidateInv, VerifyCandidateInv,
   DiscardCandidateInv, EmbedReceiptInv, PublishInv, SyncPublishedInv, CheckPublishedInv, RollbackInv,
   SyncRollbackInv, StageReceiptInv, LinkReceiptInv, SettleReceiptInv, CleanUpInv
DEF Import

LEMMA NextInv == ASSUME IInv, [MigrationNext]_migrationVars PROVE IInv'
BY StartInv, ImportInv, ForeignAppearsInv, ForeignReceiptInv, SourceChangesInv, ProcessDiesInv,
   HostCrashesInv, StutterInv
DEF MigrationNext

LEMMA Inductive == MigrationSpec => []IInv
<1>1. MigrationInit => IInv
    BY InitInv
<1>2. IInv /\ [MigrationNext]_migrationVars => IInv'
    BY NextInv
<1> QED
    BY <1>1, <1>2, PTL DEF MigrationSpec

(* Every variable keeps its type for any number of runs and crashes, and   *)
(* what migrate_v5 publishes is complete and this run's own.               *)
THEOREM TypeCorrect == MigrationSpec => []MigrationTypeOK
<1>1. ASSUME IInv PROVE MigrationTypeOK
    <2>1. dir.at \in Names /\ dir.old \in Names /\ imp.path \in Paths /\ imp.doc \in Documents
        BY <1>1, Fields DEF IInv, FieldTypes
    <2>2. dir.content \in {"none", "partial", "rows", "complete"}
        BY <1>1 DEF IInv, TypeInv, DirType
    <2>3. dir.by \in 0 .. runs /\ runs \in 0 .. MaxRuns
        <3>1. dir.by \in Nat /\ runs \in Nat /\ dir.by <= runs /\ runs \in 0 .. MaxRuns
            BY <1>1, Fields, Zenon DEF IInv, TypeInv, FieldTypes, DirInv, RunsType
        <3> QED
            BY <3>1
    <2>4. \A p \in Paths : receipts[p].doc = "none" <=> receipts[p].link = "none"
        BY <1>1 DEF IInv, ReceiptInv
    <2>5. imp.pc \in {"publish", "sync", "check", "rollback"} => dir.content = "complete" /\ dir.by = runs
        BY <1>1, Zenon DEF IInv, DirInv
    <2> QED
        BY <2>1, <2>2, <2>3, <2>4, <2>5 DEF MigrationTypeOK, Names, Documents
<1> QED
    BY <1>1, Inductive, PTL

(* No visible receipt is ever contradicted, whatever the importer, a retry *)
(* or a crash does afterwards: a success names a complete published        *)
(* directory (_atomic_write_receipt), a failure an unpublished one unless  *)
(* the run was interrupted as the rename returned                          *)
(* (_rollback_published_state).                                            *)
THEOREM ReceiptsStayTrue == MigrationSpec => []ReceiptsAreTrue
<1>1. IInv => ReceiptsAreTrue
    BY DEF IInv, ReceiptsAreTrue
<1> QED
    BY <1>1, Inductive, PTL

(* Every pending item of a published import is pinned and its recorded     *)
(* worktree is live, for every set of sources (_verify_legacy_git_runtime).*)
LEMMA WorkIsUsable ==
    ASSUME IInv
    PROVE  ImportedWorkIsUsable
<1>1. SUFFICES ASSUME dir.at = "dest", NEW r \in dir.rows,
                      r.state \in PendingStates, r.pinned
               PROVE  r.target = "commit" /\ (r.path => LiveWorktree(r))
    BY DEF ImportedWorkIsUsable
<1>2. GitRuntimeVerified(r) /\ ~r.removed
    BY <1>1, Zenon
    DEF IInv, DestinationIsComplete, Importable, GitRuntimeVerified, ColumnsConsistent
<1>3. CASE Present(r)
    BY <1>1, <1>2, <1>3 DEF GitRuntimeVerified
<1>4. CASE ~Present(r)
    <2>1. ~r.path /\ r.target = "commit"
        BY <1>1, <1>2, <1>4, Zenon DEF GitRuntimeVerified
    <2> QED
        BY <2>1
<1> QED
    BY <1>3, <1>4

(* Under the destination's name there is only ever a complete import,      *)
(* never over something else, whose pending work can be run                *)
(* (_publish_state, _build_candidate).                                     *)
THEOREM DestinationStaysSound == MigrationSpec => []DestinationIsSound
<1>1. IInv => DestinationIsSound
    BY WorkIsUsable DEF IInv, DestinationIsSound
<1> QED
    BY <1>1, Inductive, PTL

(* A durable receipt's document, run and link stay what they are.          *)
Kept ==
    \A p \in Paths : receipts[p].link = "durable" =>
        /\ receipts'[p].doc = receipts[p].doc
        /\ receipts'[p].run = receipts[p].run
        /\ receipts'[p].link = "durable"

LEMMA WritingKeeps ==
    ASSUME TypeInv, StageReceipt \/ LinkReceipt \/ SettleReceipt \/ ForeignReceipt
    PROVE  Kept
<1> DEFINE mine == receipts[imp.path]
<1>1. imp.path \in Paths /\ mine \in Receipts /\ receipts \in [Paths -> Receipts]
    BY DEF TypeInv, ImpType, Importers, ReceiptType
<1>2. CASE SameDocuments \/ UNCHANGED receipts
    BY <1>2 DEF SameDocuments, Kept
<1>3. ASSUME NEW row, receipts' = [receipts EXCEPT ![imp.path] = row],
             mine.link = "durable" => row.doc = mine.doc /\ row.run = mine.run /\ row.link = "durable"
      PROVE  Kept
    BY <1>1, <1>3 DEF Kept
<1>4. CASE StageReceipt
    BY <1>2, <1>4, StagingStep, Zenon DEF StageReceipt
<1>5. CASE LinkReceipt
    BY <1>2, <1>3, <1>5, StagingStep, Zenon DEF LinkReceipt, Mine
<1>6. CASE SettleReceipt
    <2>1. ASSUME NEW left \in BOOLEAN,
                 receipts' = [receipts EXCEPT ![imp.path].link = "durable", ![imp.path].staging = left]
          PROVE  Kept
        <3> DEFINE row == [mine EXCEPT !.link = "durable", !.staging = left]
        <3>1. row.doc = mine.doc /\ row.run = mine.run /\ row.link = "durable"
            BY <1>1 DEF Receipts
        <3>2. receipts' = [receipts EXCEPT ![imp.path] = row]
            BY <1>1, <2>1, Zenon
        <3> HIDE DEF row
        <3> QED
            BY <1>3, <3>1, <3>2, Zenon
    <2> QED
        BY <1>2, <1>6, <2>1, Zenon DEF SettleReceipt
<1>7. CASE ForeignReceipt
    <2> DEFINE row == [mine EXCEPT !.doc = "other", !.link = "durable"]
    <2>1. receipts' = [receipts EXCEPT ![imp.path] = row] /\ mine.link = "none"
        BY <1>1, <1>7, Zenon DEF ForeignReceipt, Mine
    <2> HIDE DEF row
    <2> QED
        BY <1>3, <2>1, Zenon
<1> QED
    BY <1>4, <1>5, <1>6, <1>7

LEMMA CrashKeeps == ASSUME TypeInv, HostCrashes PROVE Kept
<1>1. PICK lost \in SUBSET {p \in Paths : receipts[p].link = "volatile"} :
          receipts' = [p \in Paths |->
              IF p \in lost THEN [NoReceipt EXCEPT !.staging = receipts[p].staging]
              ELSE IF receipts[p].link = "volatile" THEN [receipts[p] EXCEPT !.link = "durable"]
              ELSE receipts[p]]
    BY DEF HostCrashes
<1>2. ASSUME NEW p \in Paths, receipts[p].link = "durable"
      PROVE  receipts'[p] = receipts[p]
    BY <1>1, <1>2
<1> QED
    BY <1>2 DEF Kept

(* A durable external receipt is evidence for good, across any number of   *)
(* retries and crashes (_atomic_write_receipt links, never replaces).      *)
THEOREM DurableReceiptsAreKept == MigrationSpec => ReceiptsAreKept
<1>1. ASSUME IInv, [MigrationNext]_migrationVars PROVE [Kept]_migrationVars
    <2>1. CASE StageReceipt \/ LinkReceipt \/ SettleReceipt \/ ForeignReceipt \/ HostCrashes
        BY <1>1, <2>1, WritingKeeps, CrashKeeps DEF IInv
    <2>2. CASE UNCHANGED receipts
        BY <2>2 DEF Kept
    <2> QED
        BY <1>1, <2>1, <2>2, Zenon
        DEF MigrationNext, Start, Import, Load, ValidatePaths, CreateCandidate, BuildCandidate,
            VerifyCandidate, DiscardCandidate, EmbedReceipt, Publish, SyncPublished, CheckPublished,
            Rollback, SyncRollback, CleanUp, ForeignAppears, SourceChanges, ProcessDies, migrationVars
<1> QED
    BY <1>1, Inductive, PTL DEF MigrationSpec, ReceiptsAreKept, Kept

=============================================================================
