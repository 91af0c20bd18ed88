----------------------------- MODULE GpuOwnership -----------------------------
(***************************************************************************)
(* What the durable queue promises about the GPUs of the host, with no     *)
(* rows, states or processes: a GPU is free, leased to one item, or        *)
(* reserved for external use; a reservation of a leased GPU waits, does    *)
(* not take the GPU away, and keeps later items out.                       *)
(***************************************************************************)
CONSTANTS Items, Gpus

VARIABLES
    lessees,   \* the items leasing each GPU
    reserved,  \* the GPUs reserved for external use
    waiting    \* the GPUs a reservation is waiting for

vars == <<lessees, reserved, waiting>>

Init ==
    /\ lessees = [g \in Gpus |-> {}]
    /\ reserved = {}
    /\ waiting = {}

\* A free GPU that nobody reserved goes to an item that leases no other.
Acquire(i, g) ==
    /\ lessees[g] = {}
    /\ g \notin reserved \cup waiting
    /\ \A h \in Gpus : i \notin lessees[h]
    /\ lessees' = [lessees EXCEPT ![g] = {i}]
    /\ UNCHANGED <<reserved, waiting>>

\* The lease ends; a waiting reservation does not get the GPU by this step.
Release(i, g) ==
    /\ lessees[g] = {i}
    /\ lessees' = [lessees EXCEPT ![g] = {}]
    /\ UNCHANGED <<reserved, waiting>>

\* Reservations come, wait, start and end, without touching a lease: only a
\* GPU that is not leased can be reserved, and only a leased one is waited for.
Reserve ==
    /\ UNCHANGED lessees
    /\ reserved' \subseteq Gpus
    /\ waiting' \subseteq Gpus
    /\ reserved' \cap waiting' = {}
    /\ \A g \in reserved' \ reserved : lessees[g] = {}
    /\ \A g \in waiting' \ waiting : lessees[g] # {}

Next ==
    \/ \E i \in Items, g \in Gpus : Acquire(i, g) \/ Release(i, g)
    \/ Reserve

Spec == Init /\ [][Next]_vars
===============================================================================
