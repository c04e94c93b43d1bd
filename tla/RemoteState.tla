---------------------------- MODULE RemoteState ----------------------------
(***************************************************************************)
(* What the jobs that run terraform promise about its state, without       *)
(* workflows, commands or steps: only who holds the lock changes the       *)
(* cluster, and writes the state; who creates the cluster has seen the     *)
(* very state he replaces; every state that is written is true; and the    *)
(* lock is given back when the state is true, unless a state could not be  *)
(* written or a lock was broken, and no state was written since.  Module   *)
(* Delivery implements this specification.                                 *)
(***************************************************************************)
EXTENDS Integers

CONSTANTS
    Clients,  \* the jobs that run terraform
    NoOne     \* holds the lock when it is free

VARIABLES
    cluster,  \* there is a cluster
    state,    \* what the state says of it, and a serial number
    holder,   \* who holds the lock
    seen,     \* [Clients -> serial number of the state it has looked at]
    doubtful  \* the lock was given up, and no state was written since

remoteVars == <<cluster, state, holder, seen, doubtful>>

Init ==
    /\ cluster = FALSE
    /\ state = [cluster |-> FALSE, serial |-> 0]
    /\ holder = NoOne
    /\ seen = [c \in Clients |-> 0]
    /\ doubtful = FALSE

SawTheState(c) == seen[c] = state.serial

Look(c) ==
    /\ holder = NoOne
    /\ seen' = [seen EXCEPT ![c] = state.serial]
    /\ UNCHANGED <<cluster, state, holder, doubtful>>

Take(c) ==
    /\ holder = NoOne
    /\ holder' = c
    /\ UNCHANGED <<cluster, state, seen, doubtful>>

Create(c) ==
    /\ holder = c /\ SawTheState(c)
    /\ ~cluster /\ cluster' = TRUE
    /\ UNCHANGED <<state, holder, seen, doubtful>>

Remove(c) ==
    /\ holder = c
    /\ cluster /\ cluster' = FALSE
    /\ UNCHANGED <<state, holder, seen, doubtful>>

(* The truth is written, with the next number and together with the lock.  *)
(* Unless the state was doubtful it says something new.                    *)
Record(c) ==
    /\ holder = c /\ holder' = NoOne
    /\ cluster => SawTheState(c)
    /\ state' = [cluster |-> cluster, serial |-> state.serial + 1]
    /\ doubtful' = FALSE
    /\ ~doubtful => cluster # state.cluster
    /\ UNCHANGED <<cluster, seen>>

Release(c) ==
    /\ holder = c /\ holder' = NoOne
    /\ ~doubtful => state.cluster = cluster
    /\ UNCHANGED <<cluster, state, seen, doubtful>>

(* The lock is given back by one who could not write the state, or broken. *)
GiveUp ==
    /\ holder # NoOne /\ holder' = NoOne
    /\ doubtful' = TRUE
    /\ UNCHANGED <<cluster, state, seen>>

Next ==
    \/ \E c \in Clients :
         Look(c) \/ Take(c) \/ Create(c) \/ Remove(c) \/ Record(c) \/ Release(c)
    \/ GiveUp

Spec == Init /\ [][Next]_remoteVars
============================================================================
