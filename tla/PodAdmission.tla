---------------------------- MODULE PodAdmission ---------------------------
(***************************************************************************)
(* What creating a pod comes to, without servers, CAs, configurations or   *)
(* calls: a pod that was sent is refused, or it is stored in one step, as  *)
(* what the hooks it had to pass make of it, and perhaps some that were    *)
(* configured later, none of which has anything against it.  Module        *)
(* Admission implements this specification.                                *)
(***************************************************************************)

CONSTANTS
    Requests, Inputs,
    CanMutate(_), MutatePod(_),  \* mutate-pods
    CanLabel(_), LabelPod(_),    \* webhook
    ValidatePod(_)               \* validate-pods

VARIABLES
    phase,  \* [Requests -> "new", "pending", "refused" or "stored"]
    sent,   \* [Requests -> the pod that was sent]
    due,    \* [Requests -> the hooks it has to pass]
    pod     \* [Requests -> the pod that is stored, or was sent]

podVars == <<phase, sent, due, pod>>

Hooks == {"mutate-pods", "webhook", "validate-pods"}

Init ==
    /\ phase = [r \in Requests |-> "new"]
    /\ sent \in [Requests -> Inputs]
    /\ due = [r \in Requests |-> {}]
    /\ pod = sent

Moves(r, from, to) == phase[r] \in from /\ phase' = [phase EXCEPT ![r] = to]

(* A pod that was not stored is sent, again perhaps. *)
Send(r) ==
    /\ Moves(r, {"new", "refused"}, "pending")
    /\ \E hooks \in SUBSET Hooks : due' = [due EXCEPT ![r] = hooks]
    /\ UNCHANGED <<sent, pod>>

(* A copy of a stored pod is sent in its place, perhaps with other labels. *)
SendCopy(r) ==
    /\ Moves(r, {"stored"}, "pending")
    /\ \E hooks \in SUBSET Hooks : due' = [due EXCEPT ![r] = hooks]
    /\ \E other \in Inputs :
         LET copy == [pod[r] EXCEPT !.labels = other.labels]
         IN  sent' = [sent EXCEPT ![r] = copy] /\ pod' = [pod EXCEPT ![r] = copy]

Refuse(r) ==
    /\ Moves(r, {"pending"}, "refused")
    /\ UNCHANGED <<sent, due, pod>>

(* Passing a set of hooks, one after the other. *)
MutatedBy(hooks, p) == IF "mutate-pods" \in hooks THEN MutatePod(p) ELSE p
LabelledBy(hooks, p) ==
    IF "webhook" \in hooks THEN LabelPod(MutatedBy(hooks, p)) ELSE MutatedBy(hooks, p)

Accept(hooks, p) ==
    /\ "mutate-pods" \in hooks => CanMutate(p)
    /\ "webhook" \in hooks => CanLabel(MutatedBy(hooks, p))
    /\ "validate-pods" \in hooks => ValidatePod(LabelledBy(hooks, p))

Store(r) ==
    /\ Moves(r, {"pending"}, "stored")
    /\ \E hooks \in SUBSET Hooks :
         /\ due[r] \subseteq hooks
         /\ Accept(hooks, sent[r])
         /\ pod' = [pod EXCEPT ![r] = LabelledBy(hooks, sent[r])]
    /\ UNCHANGED <<sent, due>>

Next == \E r \in Requests : Send(r) \/ SendCopy(r) \/ Refuse(r) \/ Store(r)

Spec == Init /\ [][Next]_podVars
============================================================================
