----------------------------- MODULE PodReview -----------------------------
(***************************************************************************)
(* What the two admission webhooks of the repository do to a pod:          *)
(* kubewebhook/pkg/mutation and kubewebhook/pkg/validation, and the patch  *)
(* of mutatingwebhook/server.go.                                           *)
(*                                                                         *)
(* A pod is what they read and write of it:                                *)
(*   badName     - its name contains "offensive"                           *)
(*   labels      - a function from the labels it has to their values       *)
(*   tolerations - a sequence                                              *)
(*   env         - for each container, init containers included, its       *)
(*                 sequence of environment variables                       *)
(***************************************************************************)
EXTENDS Integers, Sequences, SequencesExt

CONSTANTS
    TaintMaxAge,  \* 14 in the code
    NotANumber    \* a value of the lifespan label that strconv.Atoi refuses

ASSUME MaxAgeAssumption == TaintMaxAge \in Nat

Lifespan == "acme.com/lifespan-requested"
HasLabel(pod, label) == label \in DOMAIN pod.labels

(* The value of a lifespan label is what strconv.Atoi makes of it.         *)
Toleration == [operator : {"Exists", "Equal"}, value : Int]
IsSeq(s)   == s \in Seq(Range(s))

IsPod(pod) ==
    /\ pod = [badName |-> pod.badName, labels |-> pod.labels,
              tolerations |-> pod.tolerations, env |-> pod.env]
    /\ pod.badName \in BOOLEAN
    /\ pod.labels = [label \in DOMAIN pod.labels |-> pod.labels[label]]
    /\ HasLabel(pod, Lifespan) => pod.labels[Lifespan] \in Int \cup {NotANumber}
    /\ pod.tolerations \in Seq(Toleration)
    /\ pod.env = [c \in DOMAIN pod.env |-> pod.env[c]]
    /\ \A c \in DOMAIN pod.env : IsSeq(pod.env[c])
----------------------------------------------------------------------------
(* minLifespanTolerations: which remaining lifespans of a node a pod puts  *)
(* up with.  Without the label (or with an empty one) it is any.           *)

AnyLifespan == [operator |-> "Exists", value |-> 0]
Remaining(n) == [operator |-> "Equal", value |-> n]

LifespansAbove(minAge) ==
    IF minAge >= TaintMaxAge THEN <<>>
    ELSE [k \in 1..(TaintMaxAge - minAge) |-> Remaining(TaintMaxAge + 1 - k)]

(* One for each lifespan from taintMaxAge down to minAge; none beyond it.  *)
LifespansFrom(minAge) == [k \in 1..(TaintMaxAge - minAge + 1) |-> Remaining(TaintMaxAge + 1 - k)]

LifespanTolerations(pod) ==
    IF HasLabel(pod, Lifespan) THEN LifespansFrom(pod.labels[Lifespan]) ELSE <<AnyLifespan>>

(* appendTolerations: the loop that collects toAppend.                     *)
NotIn(new, existing) ==
    LET toAppend[i \in 0..Len(new)] ==
          IF i = 0 THEN <<>>
          ELSE IF new[i] \in Range(existing) THEN toAppend[i - 1]
          ELSE Append(toAppend[i - 1], new[i])
    IN  toAppend[Len(new)]

AppendAll(new, existing) == existing \o new
PrependTolerations(new, existing) == NotIn(new, existing) \o existing

AppendTolerations(new, existing) == existing \o NotIn(new, existing)

TolerateLifespan(pod) ==
    [pod EXCEPT !.tolerations = AppendTolerations(LifespanTolerations(pod), @)]
----------------------------------------------------------------------------
(* injectEnv.                                                              *)

Kube == [name |-> "KUBE", value |-> "true"]

HasEnvVar(env, var) == \E i \in DOMAIN env : env[i].name = var.name

InjectEnvVar(pod, var) ==
    [pod EXCEPT !.env = [c \in DOMAIN pod.env |->
        IF HasEnvVar(pod.env[c], var) THEN pod.env[c] ELSE Append(pod.env[c], var)]]
----------------------------------------------------------------------------
(* What each webhook answers: "patch" is the pod with its patch applied,   *)
(* "error" an HTTP status other than 200.                                  *)

(* The patch is the difference between the pod and the mutated pod.        *)
CanMutate(pod) == HasLabel(pod, Lifespan) => pod.labels[Lifespan] # NotANumber
MutatePod(pod) == InjectEnvVar(TolerateLifespan(pod), Kube)

ValidName(pod) == ~pod.badName
ValidLabels(pod) == HasLabel(pod, "managedby") /\ pod.labels["managedby"] = "steve"

ValidatePod(pod) ==
    /\ DOMAIN pod.labels # {}
    /\ ValidName(pod)
    /\ ValidLabels(pod)

(* The patch of mutatingwebhook adds a member to the object at             *)
(* /metadata/labels: there is none in a pod without labels, and the API    *)
(* server then refuses the patch and with it the pod.                      *)
CanLabel(pod) == DOMAIN pod.labels # {}
LabelPod(pod) ==
    [pod EXCEPT !.labels = [label \in DOMAIN @ \cup {"myExtraLabel"} |->
        IF label = "myExtraLabel" THEN "webhook-was-here" ELSE @[label]]]
============================================================================
