----------------------------- MODULE Admission -----------------------------
(***************************************************************************)
(* Pods on their way through the API server and the webhooks of            *)
(* kubewebhook/ and mutatingwebhook/.  A webhook server makes a new CA     *)
(* every time it starts and keeps it in memory (certsetup); the caBundle   *)
(* in the webhook configurations is copied there by hand (README.md of     *)
(* mutatingwebhook), so the API server can call a webhook only while the   *)
(* two agree.  The configurations name no failurePolicy: a call that fails *)
(* fails the request.                                                      *)
(***************************************************************************)
EXTENDS PodReview

CONSTANTS
    Requests,   \* pod creations that can be under way at a time
    Inputs,     \* pods clients start from
    Namespaces, \* namespaces they create them in, as their sets of labels
    MaxFaults   \* bound: restarts of webhook servers, failed calls

ASSUME FaultsAssumption == MaxFaults \in Nat
ASSUME InputsAssumption == \A p \in Inputs : IsPod(p)

VARIABLES
    ca,        \* [Servers -> the CA of the running process, 0 when none runs]
    made,      \* [Servers -> how many CAs were made so far]
    noted,     \* [Servers -> the CA the administrator copied last]
    installed, \* hooks that are configured
    bundle,    \* [Hooks -> the CA in the hook's caBundle]
    stage,     \* [Requests -> where a creation is]
    home,      \* [Requests -> the namespace it is for]
    sent,      \* [Requests -> the pod as the client sent it]
    pod,       \* [Requests -> the pod as it is now]
    due,       \* [Requests -> history: hooks it had to pass when it was sent]
    faults

serverVars  == <<ca, made>>
adminVars   == <<noted, installed, bundle>>
requestVars == <<stage, home, sent, pod, due>>
vars        == <<serverVars, adminVars, requestVars, faults>>

(* The two servers, the hooks they serve, in the order in which the API    *)
(* server calls them, and the namespaces the configurations select.        *)
Servers == {"kubewebhook", "mutatingwebhook"}
Hooks   == {"mutate-pods", "webhook", "validate-pods"}
Server(hook) == IF hook = "webhook" THEN "mutatingwebhook" ELSE "kubewebhook"

After(hook) ==
    CASE hook = "mutate-pods" -> "webhook"
      [] hook = "webhook" -> "validate-pods"
      [] hook = "validate-pods" -> "stored"

SelectsAll(hook, namespace) == TRUE
Selects(hook, namespace) ==
    (IF hook = "webhook" THEN "webhook" ELSE "admission-webhook") \in namespace

(* Neither server's own namespace has a label (webhook.yaml).              *)
ServerNamespace == {}

InForce(hook, namespace) == hook \in installed /\ Selects(hook, namespace)
Reachable(hook) == ca[Server(hook)] # 0 /\ bundle[hook] = ca[Server(hook)]

Stages == Hooks \cup {"new", "refused", "stored"}

(* The configurations start out with the caBundle that is in the           *)
(* repository, which is no running process's.                              *)
Init ==
    /\ ca = [s \in Servers |-> 0]
    /\ made = [s \in Servers |-> 0]
    /\ noted = [s \in Servers |-> 0]
    /\ installed = {}
    /\ bundle = [h \in Hooks |-> 0]
    /\ stage = [r \in Requests |-> "new"]
    /\ home \in [Requests -> Namespaces]
    /\ sent \in [Requests -> Inputs]
    /\ pod = sent
    /\ due = [r \in Requests |-> {}]
    /\ faults = 0

Fault == faults < MaxFaults /\ faults' = faults + 1
----------------------------------------------------------------------------
(* Webhook servers.  The pod a server runs in has to be admitted, too.     *)

(* certsetup: a key of its own, and so a CA that no other start has made.  *)
NewCa(s) == made[s] + 1

Start(s) ==
    /\ ca[s] = 0
    /\ \A h \in Hooks : InForce(h, ServerNamespace) => Reachable(h)
    /\ made' = [made EXCEPT ![s] = NewCa(s)]
    /\ ca' = [ca EXCEPT ![s] = NewCa(s)]
    /\ UNCHANGED <<adminVars, requestVars, faults>>

Stop(s) ==
    /\ ca[s] # 0
    /\ Fault
    /\ ca' = [ca EXCEPT ![s] = 0]
    /\ UNCHANGED <<made, adminVars, requestVars>>
----------------------------------------------------------------------------
(* The administrator: getCA, then kubectl apply of the configuration.      *)

NoteAnyCa(s) ==
    \E other \in Servers :
        /\ ca[other] # 0
        /\ noted' = [noted EXCEPT ![s] = ca[other]]
        /\ UNCHANGED <<serverVars, installed, bundle, requestVars, faults>>

NoteCa(s) ==
    /\ ca[s] # 0
    /\ noted[s] # ca[s]
    /\ noted' = [noted EXCEPT ![s] = ca[s]]
    /\ UNCHANGED <<serverVars, installed, bundle, requestVars, faults>>

Apply(h) ==
    /\ h \notin installed \/ bundle[h] # noted[Server(h)]
    /\ installed' = installed \cup {h}
    /\ bundle' = [bundle EXCEPT ![h] = noted[Server(h)]]
    /\ UNCHANGED <<serverVars, noted, requestVars, faults>>
----------------------------------------------------------------------------
(* Clients: they create a pod, create it again when that was refused, or   *)
(* create a copy of a stored pod, perhaps with other labels, in its place  *)
(* (kubectl replace --force, a restored backup).                           *)

Send(r, newPod, namespace) ==
    /\ stage' = [stage EXCEPT ![r] = "mutate-pods"]
    /\ home' = [home EXCEPT ![r] = namespace]
    /\ sent' = [sent EXCEPT ![r] = newPod]
    /\ pod' = [pod EXCEPT ![r] = newPod]
    /\ due' = [due EXCEPT ![r] = {h \in Hooks : InForce(h, namespace)}]
    /\ UNCHANGED <<serverVars, adminVars, faults>>

Create(r) == stage[r] = "new" /\ Send(r, sent[r], home[r])

Retry(r) == stage[r] = "refused" /\ Send(r, sent[r], home[r])

Recreate(r) ==
    /\ stage[r] = "stored"
    /\ \E other \in Inputs, namespace \in Namespaces :
         Send(r, [pod[r] EXCEPT !.labels = other.labels], namespace)
----------------------------------------------------------------------------
(* The API server calls the hooks one by one.                              *)

MoveOnWithoutPatch(r, hook, newPod) ==
    /\ stage' = [stage EXCEPT ![r] = After(hook)]
    /\ UNCHANGED pod

MoveOn(r, hook, newPod) ==
    /\ stage' = [stage EXCEPT ![r] = After(hook)]
    /\ pod' = [pod EXCEPT ![r] = newPod]

Ignore(r) ==
    /\ stage' = [stage EXCEPT ![r] = After(stage[r])]
    /\ UNCHANGED pod

Refuse(r) ==
    /\ stage' = [stage EXCEPT ![r] = "refused"]
    /\ UNCHANGED pod

NotSelected(r) ==
    /\ stage[r] \in Hooks
    /\ ~InForce(stage[r], home[r])
    /\ MoveOn(r, stage[r], pod[r])
    /\ UNCHANGED <<serverVars, adminVars, home, sent, due, faults>>

(* The server is down, serves with another CA, or takes over 5 seconds.    *)
CallFails(r) ==
    /\ stage[r] \in Hooks
    /\ InForce(stage[r], home[r])
    /\ \/ ~Reachable(stage[r]) /\ UNCHANGED faults
       \/ Fault
    /\ Refuse(r)
    /\ UNCHANGED <<serverVars, adminVars, home, sent, due>>

Answers(r, hook) ==
    /\ stage[r] = hook
    /\ InForce(hook, home[r])
    /\ Reachable(hook)
    /\ UNCHANGED <<serverVars, adminVars, home, sent, due, faults>>

(* ServeMutatePods: a lifespan that is no integer is answered with a 500.  *)
ServeMutatePods(r) ==
    /\ Answers(r, "mutate-pods")
    /\ IF CanMutate(pod[r])
       THEN MoveOn(r, "mutate-pods", MutatePod(pod[r]))
       ELSE Refuse(r)

PostWebhook(r) ==
    /\ Answers(r, "webhook")
    /\ IF CanLabel(pod[r])
       THEN MoveOn(r, "webhook", LabelPod(pod[r]))
       ELSE Refuse(r)

ServeValidatePods(r) ==
    /\ Answers(r, "validate-pods")
    /\ IF ValidatePod(pod[r])
       THEN MoveOn(r, "validate-pods", pod[r])
       ELSE Refuse(r)

Admit(r) ==
    \/ NotSelected(r)
    \/ CallFails(r)
    \/ ServeMutatePods(r)
    \/ PostWebhook(r)
    \/ ServeValidatePods(r)
----------------------------------------------------------------------------
Next ==
    \/ \E s \in Servers : Start(s) \/ Stop(s) \/ NoteCa(s)
    \/ \E h \in Hooks : Apply(h)
    \/ \E r \in Requests : Create(r) \/ Retry(r) \/ Recreate(r) \/ Admit(r)

Spec == Init /\ [][Next]_vars

(* A Deployment restarts its server, a ReplicaSet retries its pods, and    *)
(* the administrator follows README.md.                                    *)
FairSpec ==
    /\ Spec
    /\ \A s \in Servers : WF_vars(Start(s)) /\ WF_vars(NoteCa(s))
    /\ \A h \in Hooks : WF_vars(Apply(h))
    /\ \A r \in Requests : WF_vars(Retry(r)) /\ WF_vars(Admit(r))
----------------------------------------------------------------------------
(* Properties.                                                             *)

(* No CA is known, noted or configured that the server has not made.       *)
TypeOK ==
    /\ ca \in [Servers -> Nat] /\ made \in [Servers -> Nat] /\ faults \in Nat
    /\ \A s \in Servers : ca[s] <= made[s] /\ noted[s] \in 0..made[s]
    /\ \A h \in Hooks : bundle[h] \in 0..made[Server(h)]
    /\ installed \subseteq Hooks
    /\ stage \in [Requests -> Stages]
    /\ home \in [Requests -> Namespaces]
    /\ due \in [Requests -> SUBSET Hooks]

Stored(r) == stage[r] = "stored"

Mutated(r)   == "mutate-pods" \in due[r] => CanMutate(pod[r]) /\ MutatePod(pod[r]) = pod[r]
Labelled(r)  == "webhook" \in due[r] => HasLabel(pod[r], "myExtraLabel")
Validated(r) == "validate-pods" \in due[r] => ValidatePod(pod[r])

(* No pod slips past a webhook: whatever is down, restarts, serves with    *)
(* another CA or times out on the way, a stored pod passed every hook that *)
(* was configured for its namespace when it was sent, and what one hook    *)
(* saw to still holds after those that came later.                         *)
NothingSlipsThrough ==
    \A r \in Requests : Stored(r) => Mutated(r) /\ Labelled(r) /\ Validated(r)

(* The label of mutatingwebhook, which its patch adds or overwrites.       *)
ExtraLabelOf(r, label) ==
    label = "myExtraLabel" /\ pod[r].labels[label] = "webhook-was-here"

(* Webhooks add to the tolerations and variables the client sent only at   *)
(* their end, and leave its labels alone, with one exception: a client     *)
(* that sets myExtraLabel itself loses its value for "webhook-was-here"    *)
(* (server.go:58: "add" replaces a member that is there).  That label is   *)
(* also the only one a webhook ever brings in.                             *)
ClientKeepsItsPod ==
    \A r \in Requests :
        /\ IsPrefix(sent[r].tolerations, pod[r].tolerations)
        /\ \A c \in DOMAIN sent[r].env : IsPrefix(sent[r].env[c], pod[r].env[c])
        /\ DOMAIN sent[r].labels \subseteq DOMAIN pod[r].labels
        /\ \A label \in DOMAIN pod[r].labels :
             \/ HasLabel(sent[r], label) /\ pod[r].labels[label] = sent[r].labels[label]
             \/ ExtraLabelOf(r, label)

Tolerates(somePod, lifespan) ==
    Range(somePod.tolerations) \cap {AnyLifespan, Remaining(lifespan)} # {}

(* A mutated pod tolerates a node that has n left to live (n up to         *)
(* taintMaxAge) exactly if the client's own tolerations did, or the pod    *)
(* asks for no lifespan, or for one of at most n; also when it is a copy   *)
(* of a pod that had been mutated for other labels.                        *)
ScheduledWhereItMayLive ==
    \A r \in Requests : Stored(r) /\ "mutate-pods" \in due[r] =>
        \A n \in 0..TaintMaxAge :
            Tolerates(pod[r], n) <=>
                \/ Tolerates(sent[r], n)
                \/ HasLabel(pod[r], Lifespan) => pod[r].labels[Lifespan] <= n

(* No toleration is there twice, and KUBE at most once in a container.     *)
Unrepeated(somePod) ==
    /\ IsInjective(somePod.tolerations)
    /\ \A c \in DOMAIN somePod.env :
         Cardinality({i \in DOMAIN somePod.env[c] : somePod.env[c][i].name = Kube.name}) <= 1

(* Copies of copies do not pile up tolerations and variables, however      *)
(* often a pod passes mutate-pods: no client here repeats one itself.      *)
NothingTwice == \A r \in Requests : Unrepeated(pod[r])

(* A creation passes hooks of two servers, one call after the other, while *)
(* they restart, fail and are configured; it comes to what the module      *)
(* PodAdmission promises: all of them at once, or nothing.                 *)
AtOnce == INSTANCE PodAdmission WITH
    phase <- [r \in Requests |-> IF stage[r] \in Hooks THEN "pending" ELSE stage[r]],
    pod   <- [r \in Requests |-> IF Stored(r) THEN pod[r] ELSE sent[r]]

AdmitsAtOnce == AtOnce!Spec

Acceptable(somePod, namespace) ==
    /\ Selects("mutate-pods", namespace) => CanMutate(somePod)
    /\ Selects("webhook", namespace) => CanLabel(somePod)
    /\ Selects("validate-pods", namespace) => ValidatePod(somePod)

(* Servers that restart do not lock anybody out for good, least of all     *)
(* themselves: once the administrator has copied the new CA, the client of *)
(* a pod the webhooks have nothing against gets it stored.                 *)
AcceptablePodsGetIn ==
    \A r \in Requests :
        stage[r] \in Hooks /\ Acceptable(sent[r], home[r]) ~> Stored(r)
----------------------------------------------------------------------------
(* "add label if we're creating a pod" (mutatingwebhook/server.go:56): a   *)
(* pod created in a namespace that only mutatingwebhook watches gets in.   *)
EveryPodIsLabelled ==
    \A r \in Requests :
        stage[r] \in Hooks /\ home[r] = {"webhook"} ~> Stored(r)
============================================================================
