------------------------------ MODULE Lifecycle ------------------------------
(***************************************************************************)
(* What docker4ssh promises of a container and of its rows in the          *)
(* database, without sessions, objects or the registry: it is created,     *)
(* recorded, started and stopped, at last removed, and only then           *)
(* forgotten, credentials first.  Sessions implements this.                *)
(***************************************************************************)
CONSTANT Containers

VARIABLES
    state,      \* docker's state of each container
    recorded,   \* the containers that have a settings row
    saved       \* the containers a client can log in to

lifecycleVars == <<state, recorded, saved>>

\* A container kept by an earlier run is stopped, recorded and saved.
LifecycleInit ==
    /\ state \in [Containers -> {"absent", "stopped"}]
    /\ recorded = {c \in Containers : state[c] = "stopped"}
    /\ saved = recorded

Move(c, from, to) == state[c] \in from /\ state' = [state EXCEPT ![c] = to]

Made(c) == Move(c, {"absent"}, "stopped") /\ UNCHANGED <<recorded, saved>>

\* A row is written for a container that exists.
Recorded(c) ==
    /\ state[c] \in {"stopped", "running"} /\ c \notin recorded
    /\ recorded' = recorded \cup {c}
    /\ UNCHANGED <<state, saved>>

\* Only a recorded container is started.
Started(c) ==
    /\ Move(c, {"stopped"}, "running") /\ c \in recorded
    /\ UNCHANGED <<recorded, saved>>

Halted(c) == Move(c, {"running"}, "stopped") /\ UNCHANGED <<recorded, saved>>

\* Credentials are given from inside the container.
Saved(c) ==
    /\ state[c] = "running" /\ c \in recorded
    /\ saved' = saved \cup {c}
    /\ UNCHANGED <<state, recorded>>

\* They may be taken back, even late.
Unsaved(c) ==
    /\ saved' = saved \ {c}
    /\ UNCHANGED <<state, recorded>>

Removed(c) == Move(c, {"stopped", "running"}, "removed") /\ UNCHANGED <<recorded, saved>>

Forgotten(c) ==
    /\ state[c] = "removed"
    /\ c \notin saved /\ recorded' = recorded \ {c}
    /\ UNCHANGED <<state, saved>>

LifecycleNext ==
    \E c \in Containers :
        Made(c) \/ Recorded(c) \/ Started(c) \/ Halted(c) \/ Saved(c) \/ Unsaved(c)
        \/ Removed(c) \/ Forgotten(c)

LifecycleSpec == LifecycleInit /\ [][LifecycleNext]_lifecycleVars
===============================================================================
