---------------------------- MODULE MCWorktrees -----------------------------
(***************************************************************************)
(* Model checking Worktrees.  One run explores five instances; scope is    *)
(* chosen in the initial state and never changes:                          *)
(*   registry  - two operators race over registrations, revisions and      *)
(*               lifecycle, on a new host and on one with an imported      *)
(*               Project; the scheduler is idle;                           *)
(*   admission - two operators race over submissions, revisions and        *)
(*               lifecycle of a registered Project;                        *)
(*   typed     - one Project with a queued item, and every fault of the    *)
(*               scheduler, Git and the host;                              *)
(*   legacy    - the same for an item imported from schema v4 whose        *)
(*               Project was adopted and resumed;                          *)
(*   pair      - two queued items of one Project, with scheduler crashes   *)
(*               and failures of Git, payloads and launches.               *)
(***************************************************************************)
EXTENDS Worktrees

CONSTANTS pNew, pOld, rA, rB, rC, o1, o2

VARIABLE scope

mcVars == <<vars, scope>>

MCNested == {{rA, rB}}

(* A Project that was registered (typed) or adopted with a second, typed   *)
(* revision (legacy), resumed, and has queued items of its first revision. *)
Running(p, kind, count) ==
    /\ revisions = <<[project |-> p, sequence |-> 1, kind |-> kind, root |-> rC]>>
                   \o (IF kind = "legacy-v4"
                       THEN <<[project |-> p, sequence |-> 2, kind |-> "project-v1", root |-> rC]>>
                       ELSE <<>>)
    /\ projects = [q \in Projects |->
           [lifecycle |-> "active", current |-> IF q = p THEN Len(revisions) ELSE 0, open |-> FALSE]]
    /\ items = [i \in 1 .. count |-> NewItem(p, 1, i, "queued", FALSE)]
    /\ disk = [r \in Roots |-> "intact"]
    /\ plans = [o \in Operators |-> Idle]

MCInit ==
    /\ WorktreeInit
    /\ \/ scope = "registry" /\ CatalogInit
       \/ scope = "admission" /\ Running(pNew, "project-v1", 0)
       \/ scope = "typed" /\ Running(pNew, "project-v1", 1)
       \/ scope = "legacy" /\ Running(pOld, "legacy-v4", 1)
       \/ scope = "pair" /\ Running(pNew, "project-v1", 2)

(* In the scheduler's instances the operators hold, release and remove     *)
(* items, and pause, resume, archive and repair Projects.                  *)
Meddle ==
    \/ \E p \in Projects, target \in Lifecycles : TransitionProject(p, target)
    \/ \E p \in Projects : CloseCircuit(p)
    \/ \E i \in ItemIds : HoldItem(i) \/ ReleaseItem(i) \/ RemoveItem(i)

Register(o) ==
    \/ \E p \in Projects, r \in Roots : PlanRegister(o, p, r, "active")
    \/ \E p \in Projects, r \in Roots, activate \in BOOLEAN : PlanAppend(o, p, r, activate)
    \/ CommitRegister(o)
    \/ CommitAppend(o)

Admit(o) ==
    \/ PlanSubmit(o, pNew, "queued")
    \/ CommitSubmit(o)
    \/ \E r \in {rA, rC} : PlanAppend(o, pNew, r, TRUE)
    \/ CommitAppend(o)

Idling == scope \in {"registry", "admission"}
Single == scope \in {"typed", "legacy"}

MCNext ==
    /\ scope' = scope
    /\ \/ scope = "registry" /\ (\E o \in Operators : Register(o)) /\ UNCHANGED worktreeVars
       \/ scope = "admission" /\ (\E o \in Operators : Admit(o)) /\ UNCHANGED worktreeVars
       \/ Idling /\ Administer /\ UNCHANGED worktreeVars
       \/ ~Idling /\ Service
       \/ Single /\ Meddle /\ UNCHANGED worktreeVars
       \/ Single /\ Environment
       \/ scope = "pair" /\ Crash
       \/ scope = "pair" /\ \E i \in ItemIds : ExecutorEnds(i)
       \/ scope = "pair" /\ \E p \in Projects : CloseCircuit(p) /\ UNCHANGED worktreeVars

(* Fairness: the service is restarted and keeps stepping, executors end,   *)
(* and a GPU whose work ended is eventually seen idle between two dispatch *)
(* passes.                                                                 *)
MCSpec ==
    /\ MCInit /\ [][MCNext]_mcVars
    /\ WF_mcVars(~Idling /\ Service /\ scope' = scope)
    /\ \A i \in Slots : WF_mcVars(i \in ItemIds /\ ExecutorEnds(i) /\ scope' = scope)
    /\ \A i \in Slots : SF_mcVars(i \in ItemIds /\ ReleaseLease(i) /\ scope' = scope)

=============================================================================
