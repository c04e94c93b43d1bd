---------------------------- MODULE DesiredState ---------------------------
(***************************************************************************)
(* What the operator promises, without processes, caches, queues or        *)
(* retries: it creates the Deployment only where there is none, for a CR   *)
(* that asked for it and with the size that CR asked for; it changes only  *)
(* the size, to one some version of a CR asked for; and it never takes the *)
(* Deployment away.  Module Operator implements this specification.        *)
(***************************************************************************)
EXTENDS Integers

VARIABLES
    cr,     \* the CR: its uid (0: there is none) and size
    dep,    \* the Deployment: its owner, replicas and whether there is one
    hand,   \* who wrote the Deployment last, "operator" or "other"
    asked   \* every uid and size a CR ever had together

desiredVars == <<cr, dep, hand, asked>>

NoCr  == [uid |-> 0, size |-> 0]
NoDep == [present |-> FALSE, owner |-> 0, replicas |-> 0]
Deployment(owner, n) == [present |-> TRUE, owner |-> owner, replicas |-> n]

Init ==
    /\ cr = NoCr
    /\ dep = NoDep
    /\ hand = "other"
    /\ asked = {}

(* The user creates or edits the CR, or deletes it. *)
Ask ==
    /\ cr'.uid # 0
    /\ asked' = asked \cup {cr'}
    /\ UNCHANGED <<dep, hand>>

Withdraw ==
    /\ cr' = NoCr
    /\ UNCHANGED <<dep, hand, asked>>

(* The operator creates the Deployment or gives it another size. *)
Provide ==
    /\ ~dep.present
    /\ \E request \in asked : dep' = Deployment(request.uid, request.size)
    /\ hand' = "operator"
    /\ UNCHANGED <<cr, asked>>

Resize ==
    /\ dep.present
    /\ \E request \in asked : dep' = Deployment(dep.owner, request.size)
    /\ hand' = "operator"
    /\ UNCHANGED <<cr, asked>>

(* Somebody else scales the Deployment or deletes it; the garbage          *)
(* collector does when the CR that owns it is gone.                        *)
Interfere ==
    /\ dep.present
    /\ dep' = NoDep \/ dep' = Deployment(dep.owner, dep'.replicas)
    /\ hand' = "other"
    /\ UNCHANGED <<cr, asked>>

(* Somebody else creates a Deployment; it belongs to nobody.              *)
Intrude ==
    /\ ~dep.present
    /\ dep' = Deployment(0, dep'.replicas)
    /\ hand' = "other"
    /\ UNCHANGED <<cr, asked>>

Next == Ask \/ Withdraw \/ Provide \/ Resize \/ Interfere \/ Intrude

Spec == Init /\ [][Next]_desiredVars
============================================================================
