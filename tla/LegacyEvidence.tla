--------------------------- MODULE LegacyEvidence ---------------------------
(***************************************************************************)
(* What the importer demands of one schema-v4 queue row before it accepts  *)
(* it (legacy_state.py): the row's own columns, the ref and worktree that  *)
(* Git really holds, its card, and the files it refers to.  An evidence    *)
(* record has                                                              *)
(*   state      the row's state                                            *)
(*   pinned     git_ref is recorded (with its exact historical name)       *)
(*   path       worktree_path and worktree_created_at are recorded         *)
(*   removed    worktree_removed_at is recorded                            *)
(*   error      worktree_cleanup_error is recorded                         *)
(*   target     what the ref points to: "none", "commit" or "other"        *)
(*   tree       the recorded directory: "absent", "live" (exact HEAD, card *)
(*              and repository) or "wrong"                                 *)
(*   registered Git lists the recorded directory as a worktree             *)
(*   files      "intact", or what does not verify: the committed "card", a *)
(*              "missing" file the row needs, or the "continuation" digest *)
(***************************************************************************)

PendingStates == {"queued", "held", "blocked"}
RunningStates == {"starting", "running", "yielding", "terminating", "force_killing"}
FinishedStates == {"succeeded", "failed", "interrupted", "force_killed"}
TerminalStates == FinishedStates \union {"removed"}

FileStates == {"intact", "card", "missing", "continuation"}

EvidenceRecords ==
    [state : PendingStates \union RunningStates \union TerminalStates,
     pinned : BOOLEAN, path : BOOLEAN, removed : BOOLEAN, error : BOOLEAN,
     target : {"none", "commit", "other"}, tree : {"absent", "live", "wrong"},
     registered : BOOLEAN, files : FileStates]

(* The columns must tell one story, before Git is asked anything.          *)
ColumnsConsistent(r) ==
    /\ ~r.pinned => ~r.path /\ ~r.removed /\ ~r.error
    /\ ~(r.removed /\ r.error)
    /\ r.state \in PendingStates => ~r.removed /\ ~r.error

(* _verify_live_worktree.                                                  *)
LiveWorktree(r) == r.tree = "live" /\ r.registered

Present(r) == r.path /\ r.tree # "absent"
Listed(r) == r.path /\ r.registered

(* _verify_legacy_git_runtime: the ref and the worktree are what the       *)
(* recorded cleanup disposition says they are.                             *)
GitRuntimeVerified(r) ==
    /\ ColumnsConsistent(r)
    /\ r.pinned =>
         /\ r.target \in {"none", "commit"}
         /\ CASE r.removed  -> r.target = "none" /\ ~Present(r) /\ ~Listed(r)
              [] ~r.removed /\ Present(r)  -> r.target = "commit" /\ LiveWorktree(r)
              [] ~r.removed /\ ~Present(r) ->
                     /\ ~Listed(r)
                     /\ r.state \in PendingStates => ~r.path /\ r.target = "commit"

(* load_legacy_state refuses a queue in which anything still runs.         *)
Quiescent(r) == r.state \in PendingStates \union TerminalStates

(* _verify_git_cards: the card is in the pinned commit, with its digest.   *)
CardVerified(r) == r.files # "card"

(* _verify_continuation_file: the checkpoint a row resumes from.           *)
ContinuationVerified(r) == r.files # "continuation"

(* _inventory_paths: every file the row needs is there, the continuation   *)
(* with its digest.                                                        *)
PathsInventoried(r) == r.files # "missing" /\ ContinuationVerified(r)

Importable(r) ==
    Quiescent(r) /\ CardVerified(r) /\ PathsInventoried(r) /\ GitRuntimeVerified(r)
=============================================================================
