-------------------------- MODULE AdmissionProofs --------------------------
(***************************************************************************)
(* Proofs about module Admission for any number of requests, pods,         *)
(* namespaces and faults.                                                  *)
(***************************************************************************)
EXTENDS Admission, PodReviewProofs, FiniteSetTheorems

LEMMA Hooking ==
    /\ \A h \in Hooks : After(h) \in Stages \ {"new", "refused", h} /\ Server(h) \in Servers
    /\ \A h \in Hooks : After(h) = "validate-pods" <=> h = "webhook"
    /\ \A h \in Hooks : After(h) = "stored" <=> h = "validate-pods"
    /\ \A h \in Hooks : After(h) = "webhook" <=> h = "mutate-pods"
  BY DEF Hooks, After, Stages, Server, Servers
----------------------------------------------------------------------------
(* The invariant: the hooks a creation has to pass stay in force until it  *)
(* ends, and what each hook saw to holds from there on.                    *)

CaInv  == noted \in [Servers -> Nat] /\ bundle \in [Hooks -> Nat]
PodInv == /\ sent = [r \in Requests |-> sent[r]] /\ pod = [r \in Requests |-> pod[r]]
          /\ \A r \in Requests : IsPod(sent[r]) /\ IsPod(pod[r])
DueInv == \A r \in Requests : stage[r] \in Hooks => \A h \in due[r] : InForce(h, home[r])

(* The hooks whose turn has been at a stage; and the pod in hand: what the *)
(* hooks it passed, those that were due among them, made of the pod sent.  *)
Before(place) ==
    CASE place \in {"new", "mutate-pods"} -> {}
      [] place = "webhook"                -> {"mutate-pods"}
      [] place = "validate-pods"          -> {"mutate-pods", "webhook"}
      [] OTHER                            -> Hooks

Reviewed(r) == \E hooks \in SUBSET Before(stage[r]) :
    /\ AtOnce!Accept(hooks, sent[r])
    /\ pod[r] = AtOnce!LabelledBy(hooks, sent[r])
    /\ stage[r] \in Hooks \cup {"stored"} => due[r] \cap Before(stage[r]) \subseteq hooks

LEMMA NothingPassed ==
    ASSUME NEW p
    PROVE  AtOnce!Accept({}, p) /\ AtOnce!LabelledBy({}, p) = p
  BY DEF AtOnce!Accept, AtOnce!LabelledBy, AtOnce!MutatedBy

IInv == TypeOK /\ CaInv /\ PodInv /\ DueInv /\ \A r \in Requests : Reviewed(r)

LEMMA InitIInv == Init => IInv
  <1> SUFFICES ASSUME Init PROVE IInv
    OBVIOUS
  <1>1. TypeOK
    BY DEF Init, TypeOK, Servers, Hooks, Server, Stages
  <1>2. CaInv /\ DueInv
    BY DEF Init, CaInv, DueInv, Hooks
  <1>3. PodInv
    BY InputsAssumption DEF Init, PodInv
  <1>4. \A r \in Requests : Reviewed(r)
    BY NothingPassed DEF Init, Reviewed, Before
  <1> QED BY <1>1, <1>2, <1>3, <1>4 DEF IInv

(* A step that leaves the requests alone and takes no hook away.           *)
LEMMA RequestsStay ==
    ASSUME IInv, UNCHANGED requestVars, installed \subseteq installed'
    PROVE  PodInv' /\ DueInv' /\ \A r \in Requests : Reviewed(r)'
  <1>1. UNCHANGED <<stage, home, sent, pod, due>>
    BY DEF requestVars
  <1>2. PodInv'
    BY <1>1 DEF IInv, PodInv
  <1>3. DueInv'
    BY <1>1 DEF IInv, DueInv, InForce
  <1>4. \A r \in Requests : Reviewed(r)'
    BY <1>1 DEF IInv, Reviewed
  <1> QED BY <1>2, <1>3, <1>4

LEMMA ServersStep ==
    ASSUME IInv, NEW s \in Servers, Start(s) \/ Stop(s) \/ NoteCa(s)
    PROVE  IInv'
  <1>1. /\ ca \in [Servers -> Nat] /\ made \in [Servers -> Nat] /\ faults \in Nat
        /\ noted \in [Servers -> Nat] /\ bundle \in [Hooks -> Nat]
        /\ \A t \in Servers : ca[t] <= made[t] /\ noted[t] \in 0..made[t]
        /\ \A h \in Hooks : bundle[h] \in 0..made[Server(h)]
    BY DEF IInv, TypeOK, CaInv
  <1>2. UNCHANGED <<installed, bundle, stage, home, sent, pod, due>>
    BY DEF Start, Stop, NoteCa, adminVars, requestVars
  <1>3. PodInv' /\ DueInv' /\ \A r \in Requests : Reviewed(r)'
    BY <1>2, RequestsStay DEF requestVars
  <1>4. ASSUME /\ ca' \in [Servers -> Nat] /\ made' \in [Servers -> Nat] /\ faults' \in Nat
               /\ noted' \in [Servers -> Nat]
               /\ \A t \in Servers : ca'[t] <= made'[t] /\ noted'[t] \in 0..made'[t]
               /\ \A t \in Servers : made[t] <= made'[t]
        PROVE  IInv'
    <2>1. \A h \in Hooks : bundle'[h] \in 0..made'[Server(h)]
      BY <1>1, <1>2, <1>4, Hooking
    <2> QED BY <1>1, <1>2, <1>3, <1>4, <2>1 DEF IInv, TypeOK, CaInv
  <1>5. CASE Start(s)
    BY <1>1, <1>4, <1>5 DEF Start, NewCa, adminVars
  <1>6. CASE Stop(s)
    BY <1>1, <1>4, <1>6 DEF Stop, Fault, adminVars
  <1>7. CASE NoteCa(s)
    BY <1>1, <1>4, <1>7 DEF NoteCa, serverVars
  <1> QED BY <1>5, <1>6, <1>7

LEMMA ApplyStep ==
    ASSUME IInv, NEW h \in Hooks, Apply(h)
    PROVE  IInv'
  <1>1. PodInv' /\ DueInv' /\ \A r \in Requests : Reviewed(r)'
    BY RequestsStay DEF Apply
  <1>2. TypeOK'
    BY Hooking DEF IInv, TypeOK, CaInv, Apply, serverVars, requestVars
  <1>3. CaInv'
    BY Hooking DEF IInv, CaInv, Apply
  <1> QED BY <1>1, <1>2, <1>3 DEF IInv
----------------------------------------------------------------------------
(* One request moves.                                                      *)

LEMMA OneRequest ==
    ASSUME IInv, NEW r \in Requests, UNCHANGED <<serverVars, adminVars>>, faults' \in Nat,
           stage' \in [Requests -> Stages],
           home' \in [Requests -> Namespaces],
           due' \in [Requests -> SUBSET Hooks],
           \A q \in Requests \ {r} : /\ stage'[q] = stage[q] /\ home'[q] = home[q]
                                     /\ due'[q] = due[q] /\ sent'[q] = sent[q] /\ pod'[q] = pod[q],
           sent' = [q \in Requests |-> sent'[q]], pod' = [q \in Requests |-> pod'[q]],
           IsPod(sent'[r]), IsPod(pod'[r]),
           stage'[r] \in Hooks => \A h \in due'[r] : InForce(h, home'[r]),
           Reviewed(r)'
    PROVE  IInv'
  <1>1. UNCHANGED <<ca, made, noted, installed, bundle>>
    BY DEF serverVars, adminVars
  <1>2. TypeOK' /\ CaInv'
    BY <1>1 DEF IInv, TypeOK, CaInv
  <1>3. PodInv'
    BY DEF IInv, PodInv
  <1>4. DueInv'
    BY <1>1 DEF IInv, DueInv, InForce
  <1>5. ASSUME NEW q \in Requests \ {r} PROVE Reviewed(q)'
    BY DEF IInv, Reviewed
  <1> QED BY <1>2, <1>3, <1>4, <1>5 DEF IInv

LEMMA SendStep ==
    ASSUME IInv, NEW r \in Requests, NEW p, NEW namespace \in Namespaces, IsPod(p),
           Send(r, p, namespace)
    PROVE  IInv'
  <1>1. /\ stage \in [Requests -> Stages] /\ home \in [Requests -> Namespaces]
        /\ due \in [Requests -> SUBSET Hooks] /\ faults \in Nat
        /\ sent = [q \in Requests |-> sent[q]] /\ pod = [q \in Requests |-> pod[q]]
    BY DEF IInv, TypeOK, PodInv
  <1>2. /\ stage' = [stage EXCEPT ![r] = "mutate-pods"]
        /\ home' = [home EXCEPT ![r] = namespace]
        /\ sent' = [sent EXCEPT ![r] = p] /\ pod' = [pod EXCEPT ![r] = p]
        /\ due' = [due EXCEPT ![r] = {h \in Hooks : InForce(h, namespace)}]
        /\ UNCHANGED <<serverVars, adminVars, faults>>
    BY DEF Send
  <1>3. /\ stage' \in [Requests -> Stages] /\ home' \in [Requests -> Namespaces]
        /\ due' \in [Requests -> SUBSET Hooks]
        /\ stage'[r] = "mutate-pods" /\ home'[r] = namespace
        /\ due'[r] = {h \in Hooks : InForce(h, namespace)}
    BY <1>1, <1>2 DEF Stages, Hooks
  <1>4. /\ sent' = [q \in Requests |-> sent'[q]] /\ pod' = [q \in Requests |-> pod'[q]]
        /\ sent'[r] = p /\ pod'[r] = p
    BY <1>1, <1>2
  <1>5. \A q \in Requests \ {r} : /\ stage'[q] = stage[q] /\ home'[q] = home[q]
                                  /\ due'[q] = due[q] /\ sent'[q] = sent[q] /\ pod'[q] = pod[q]
    BY <1>1, <1>2
  <1>6. Reviewed(r)'
    BY <1>3, <1>4, NothingPassed DEF Reviewed, Before
  <1> QED BY <1>1, <1>2, <1>3, <1>4, <1>5, <1>6, OneRequest

LEMMA ClientStep ==
    ASSUME IInv, NEW r \in Requests, Create(r) \/ Retry(r) \/ Recreate(r)
    PROVE  IInv'
  <1>1. IsPod(sent[r]) /\ IsPod(pod[r]) /\ home[r] \in Namespaces
    BY DEF IInv, PodInv, TypeOK
  <1>2. CASE Create(r) \/ Retry(r)
    BY <1>1, <1>2, SendStep DEF Create, Retry
  <1>3. CASE Recreate(r)
    <2>1. PICK other \in Inputs, namespace \in Namespaces :
            Send(r, [pod[r] EXCEPT !.labels = other.labels], namespace)
      BY <1>3 DEF Recreate
    <2>2. IsPod([pod[r] EXCEPT !.labels = other.labels])
      BY <1>1, InputsAssumption, Relabelled
    <2> QED BY <2>1, <2>2, SendStep
  <1> QED BY <1>2, <1>3

LEMMA AdmitStep ==
    ASSUME IInv, NEW r \in Requests, Admit(r)
    PROVE  IInv'
  <1>1. /\ stage \in [Requests -> Stages] /\ home \in [Requests -> Namespaces]
        /\ due \in [Requests -> SUBSET Hooks] /\ faults \in Nat
        /\ sent = [q \in Requests |-> sent[q]] /\ pod = [q \in Requests |-> pod[q]]
        /\ IsPod(sent[r]) /\ IsPod(pod[r]) /\ Reviewed(r)
    BY DEF IInv, TypeOK, PodInv
  <1>2. UNCHANGED <<serverVars, adminVars, home, sent, due>> /\ faults' \in Nat
    BY <1>1 DEF Admit, NotSelected, CallFails, ServeMutatePods, PostWebhook, ServeValidatePods,
       Answers, Fault
  <1>3. stage[r] \in Hooks /\ \A h \in due[r] : InForce(h, home[r])
    BY DEF IInv, DueInv, Admit, NotSelected, CallFails, ServeMutatePods, PostWebhook,
       ServeValidatePods, Answers, Hooks
  <1>4. ASSUME NEW to \in Stages, NEW p, IsPod(p),
               stage' = [stage EXCEPT ![r] = to], pod' = [pod EXCEPT ![r] = p],
               Reviewed(r)'
        PROVE  IInv'
    <2>1. /\ stage' \in [Requests -> Stages] /\ pod' = [q \in Requests |-> pod'[q]]
          /\ pod'[r] = p /\ stage'[r] = to
          /\ \A q \in Requests \ {r} : stage'[q] = stage[q] /\ pod'[q] = pod[q]
      BY <1>1, <1>4
    <2>2. \A h \in due'[r] : InForce(h, home'[r])
      BY <1>2, <1>3 DEF InForce
    <2> QED BY <1>1, <1>2, <1>3, <1>4, <2>1, OneRequest
  <1>5. ASSUME Refuse(r) PROVE IInv'
    <2>1. stage'[r] = "refused" /\ pod' = [pod EXCEPT ![r] = pod[r]] /\ "refused" \in Stages
      BY <1>1, <1>5 DEF Refuse, Stages
    <2>2. Reviewed(r)'
      BY <1>1, <1>2, <1>3, <2>1 DEF Reviewed, Before, Hooks
    <2> QED BY <1>1, <1>4, <1>5, <2>1, <2>2 DEF Refuse
  <1>6. ASSUME NEW h \in Hooks, NEW p, IsPod(p), stage[r] = h, MoveOn(r, h, p),
               \/ p = pod[r] /\ h \notin due[r]
               \/ p = MutatePod(pod[r]) /\ h = "mutate-pods" /\ CanMutate(pod[r])
               \/ p = LabelPod(pod[r]) /\ h = "webhook" /\ CanLabel(pod[r])
               \/ p = pod[r] /\ h = "validate-pods" /\ ValidatePod(pod[r])
        PROVE  IInv'
    <2>1. /\ stage'[r] = After(h) /\ pod'[r] = p /\ After(h) \in Stages
          /\ due'[r] = due[r] /\ sent'[r] = sent[r]
      BY <1>1, <1>2, <1>6, Hooking DEF MoveOn
    <2>2. PICK hooks \in SUBSET Before(h) :
            /\ AtOnce!Accept(hooks, sent[r]) /\ pod[r] = AtOnce!LabelledBy(hooks, sent[r])
            /\ due[r] \cap Before(h) \subseteq hooks
      BY <1>1, <1>6 DEF Reviewed
    <2>3. Before(After(h)) = Before(h) \cup {h} /\ h \notin Before(h)
      BY <1>6 DEF Before, After, Hooks
    <2>4. CASE p = pod[r] /\ h \notin due[r]
      BY <1>4, <1>6, <2>1, <2>2, <2>3, <2>4 DEF Reviewed, MoveOn
    <2>5. CASE p = MutatePod(pod[r]) /\ h = "mutate-pods" /\ CanMutate(pod[r])
      <3>1. hooks = {}
        BY <2>2, <2>5 DEF Before
      <3>2. AtOnce!Accept({h}, sent[r]) /\ p = AtOnce!LabelledBy({h}, sent[r])
        BY <2>2, <2>5, <3>1, NothingPassed
        DEF AtOnce!Accept, AtOnce!LabelledBy, AtOnce!MutatedBy
      <3>3. Reviewed(r)'
        BY <2>1, <2>2, <2>3, <3>1, <3>2 DEF Reviewed
      <3> QED BY <1>4, <1>6, <2>1, <3>3 DEF MoveOn
    <2>6. CASE p = LabelPod(pod[r]) /\ h = "webhook" /\ CanLabel(pod[r])
      <3>1. /\ AtOnce!Accept(hooks \cup {h}, sent[r])
            /\ p = AtOnce!LabelledBy(hooks \cup {h}, sent[r])
        BY <2>2, <2>3, <2>6 DEF Before, AtOnce!Accept, AtOnce!LabelledBy, AtOnce!MutatedBy
      <3>2. Reviewed(r)'
        BY <2>1, <2>2, <2>3, <3>1 DEF Reviewed
      <3> QED BY <1>4, <1>6, <2>1, <3>2 DEF MoveOn
    <2>7. CASE p = pod[r] /\ h = "validate-pods" /\ ValidatePod(pod[r])
      <3>1. /\ AtOnce!Accept(hooks \cup {h}, sent[r])
            /\ p = AtOnce!LabelledBy(hooks \cup {h}, sent[r])
        BY <2>2, <2>3, <2>7 DEF AtOnce!Accept, AtOnce!LabelledBy, AtOnce!MutatedBy
      <3>2. Reviewed(r)'
        BY <2>1, <2>2, <2>3, <3>1 DEF Reviewed
      <3> QED BY <1>4, <1>6, <2>1, <3>2 DEF MoveOn
    <2> QED BY <1>6, <2>4, <2>5, <2>6, <2>7
  <1>7. CASE NotSelected(r)
    BY <1>1, <1>3, <1>6, <1>7 DEF NotSelected
  <1>8. CASE CallFails(r)
    BY <1>5, <1>8 DEF CallFails
  <1>9. CASE ServeMutatePods(r)
    <2>1. CanMutate(pod[r]) => IsPod(MutatePod(pod[r]))
      BY <1>1, MutatePodFacts
    <2> QED BY <1>5, <1>6, <1>9, <2>1 DEF ServeMutatePods, Answers, Hooks
  <1>10. CASE PostWebhook(r)
    BY <1>1, <1>5, <1>6, <1>10, LabelPodFacts DEF PostWebhook, Answers, Hooks
  <1>11. CASE ServeValidatePods(r)
    BY <1>1, <1>5, <1>6, <1>11 DEF ServeValidatePods, Answers, Hooks
  <1> QED BY <1>7, <1>8, <1>9, <1>10, <1>11 DEF Admit

LEMMA Invariance == Spec => []IInv
  <1>1. IInv /\ [Next]_vars => IInv'
    <2>1. ASSUME IInv, UNCHANGED vars PROVE IInv'
      <3>1. UNCHANGED <<ca, made, noted, installed, bundle, stage, home, sent, pod, due, faults>>
        BY <2>1 DEF vars, serverVars, adminVars, requestVars
      <3>2. PodInv' /\ DueInv' /\ \A r \in Requests : Reviewed(r)'
        BY <2>1, <3>1, RequestsStay DEF requestVars
      <3> QED BY <2>1, <3>1, <3>2 DEF IInv, TypeOK, CaInv
    <2> QED BY <2>1, ServersStep, ApplyStep, ClientStep, AdmitStep DEF Next
  <1> QED BY InitIInv, <1>1, PTL DEF Spec

(* No CA is known, noted or configured that the server has not made.       *)
THEOREM TypeCorrect == Spec => []TypeOK
  BY Invariance, PTL DEF IInv

----------------------------------------------------------------------------
(* What a pod that was reviewed has to do with the pod that was sent: it   *)
(* is mutated or not, and then labelled or not.                            *)

Forms(p) == {p} \cup (IF CanMutate(p) THEN {MutatePod(p)} ELSE {})

LEMMA ReviewedFacts ==
    ASSUME IInv, NEW r \in Requests
    PROVE  /\ IsPod(sent[r]) /\ IsPod(pod[r])
           /\ \E form \in Forms(sent[r]) : pod[r] \in {form, LabelPod(form)}
           /\ Stored(r) => Labelled(r) /\ Validated(r)
           /\ Stored(r) /\ "mutate-pods" \in due[r] =>
                /\ CanMutate(sent[r])
                /\ pod[r] \in {MutatePod(sent[r]), LabelPod(MutatePod(sent[r]))}
  <1>1. IsPod(sent[r]) /\ IsPod(pod[r]) /\ Reviewed(r) /\ due[r] \subseteq Hooks
    BY DEF IInv, PodInv, TypeOK
  <1>2. PICK hooks \in SUBSET Before(stage[r]) :
          /\ AtOnce!Accept(hooks, sent[r]) /\ pod[r] = AtOnce!LabelledBy(hooks, sent[r])
          /\ Stored(r) => due[r] \subseteq hooks
    BY <1>1 DEF Reviewed, Before, Stored, Hooks
  <1> DEFINE form == AtOnce!MutatedBy(hooks, sent[r])
  <1>3. form \in Forms(sent[r]) /\ IsPod(form)
    BY <1>1, <1>2, MutatePodFacts DEF Forms, AtOnce!Accept, AtOnce!MutatedBy
  <1>4. pod[r] = IF "webhook" \in hooks THEN LabelPod(form) ELSE form
    BY <1>2 DEF AtOnce!LabelledBy
  <1>5. ASSUME Stored(r) PROVE Labelled(r) /\ Validated(r)
    <2>1. "webhook" \in due[r] => HasLabel(pod[r], "myExtraLabel")
      BY <1>2, <1>3, <1>4, <1>5, LabelPodFacts
    <2>2. "validate-pods" \in due[r] => ValidatePod(pod[r])
      BY <1>2, <1>5 DEF AtOnce!Accept
    <2> QED BY <2>1, <2>2 DEF Labelled, Validated
  <1>6. ASSUME Stored(r), "mutate-pods" \in due[r]
        PROVE  CanMutate(sent[r]) /\ form = MutatePod(sent[r])
    BY <1>2, <1>6 DEF AtOnce!Accept, AtOnce!MutatedBy
  <1> HIDE DEF form
  <1> QED BY <1>1, <1>3, <1>4, <1>5, <1>6

(* What the webhooks may do to one label.                                  *)
LabelKept(p, new, label) ==
    /\ HasLabel(p, label) => HasLabel(new, label)
    /\ HasLabel(new, label) =>
         \/ HasLabel(p, label) /\ new.labels[label] = p.labels[label]
         \/ label = "myExtraLabel" /\ new.labels[label] = "webhook-was-here"

LEMMA FormFacts ==
    ASSUME NEW p, IsPod(p), NEW form \in Forms(p), NEW new \in {form, LabelPod(form)}
    PROVE  /\ IsPrefix(p.tolerations, new.tolerations)
           /\ IsInjective(p.tolerations) => IsInjective(new.tolerations)
           /\ DOMAIN new.env = DOMAIN p.env
           /\ \A c \in DOMAIN p.env :
                /\ IsPrefix(p.env[c], new.env[c])
                /\ \A i, j \in DOMAIN new.env[c] :
                     new.env[c][i].name = Kube.name /\ new.env[c][j].name = Kube.name =>
                       i = j \/ (i \in DOMAIN p.env[c] /\ j \in DOMAIN p.env[c])
           /\ \A label : LabelKept(p, new, label)
  <1>1. CASE form = p
    <2>1. IsPrefix(p.tolerations, p.tolerations) /\ \A c \in DOMAIN p.env : IsPrefix(p.env[c], p.env[c])
      BY PrefixOfItself DEF IsPod, IsSeq
    <2>2. new.tolerations = p.tolerations /\ new.env = p.env
      BY <1>1, LabelPodFacts
    <2>3. \A label : LabelKept(p, new, label)
      BY <1>1, LabelPodFacts DEF LabelKept
    <2>4. \A c \in DOMAIN p.env : \A i, j \in DOMAIN new.env[c] :
            i \in DOMAIN p.env[c] /\ j \in DOMAIN p.env[c]
      BY <2>2
    <2> QED BY <2>1, <2>2, <2>3, <2>4
  <1>2. CASE form = MutatePod(p) /\ CanMutate(p)
    <2>1. IsPod(form) /\ form.labels = p.labels
      BY <1>2, MutatePodFacts
    <2>2. new.tolerations = form.tolerations /\ new.env = form.env
      BY <2>1, LabelPodFacts
    <2>3. \A label : LabelKept(p, new, label)
      BY <2>1, LabelPodFacts DEF HasLabel, LabelKept
    <2>4. /\ IsPrefix(p.tolerations, form.tolerations)
          /\ IsInjective(p.tolerations) => IsInjective(form.tolerations)
          /\ DOMAIN form.env = DOMAIN p.env
          /\ \A c \in DOMAIN p.env :
               /\ IsPrefix(p.env[c], form.env[c])
               /\ \A i, j \in DOMAIN form.env[c] :
                    form.env[c][i].name = Kube.name /\ form.env[c][j].name = Kube.name =>
                      i = j \/ (i \in DOMAIN p.env[c] /\ j \in DOMAIN p.env[c])
      BY <1>2, MutatePodFacts
    <2> QED BY <2>2, <2>3, <2>4
  <1> QED BY <1>1, <1>2 DEF Forms

LEMMA MutatedFacts ==
    ASSUME NEW p, IsPod(p), CanMutate(p), NEW new \in {MutatePod(p), LabelPod(MutatePod(p))}
    PROVE  /\ CanMutate(new) /\ MutatePod(new) = new
           /\ Range(new.tolerations) = Range(p.tolerations) \cup Range(LifespanTolerations(p))
           /\ HasLabel(new, Lifespan) <=> HasLabel(p, Lifespan)
           /\ HasLabel(p, Lifespan) => new.labels[Lifespan] = p.labels[Lifespan]
  <1> DEFINE form == MutatePod(p)
  <1>1. /\ IsPod(form) /\ CanMutate(form) /\ Provided(form) /\ form.labels = p.labels
        /\ Range(form.tolerations) = Range(p.tolerations) \cup Range(LifespanTolerations(p))
    BY MutatePodFacts
  <1> HIDE DEF form
  <1>2. "myExtraLabel" # Lifespan
    BY DEF Lifespan
  <1>3. /\ IsPod(new) /\ CanMutate(new) /\ Provided(new)
        /\ new.tolerations = form.tolerations
        /\ HasLabel(new, Lifespan) <=> HasLabel(form, Lifespan)
        /\ HasLabel(form, Lifespan) => new.labels[Lifespan] = form.labels[Lifespan]
    BY <1>1, <1>2, LabelPodFacts DEF form
  <1> QED BY <1>1, <1>3, MutatePodOnce DEF HasLabel

LEMMA TolerationsMeanLifespans ==
    ASSUME NEW p, IsPod(p), CanMutate(p), NEW n \in 0..TaintMaxAge
    PROVE  Range(LifespanTolerations(p)) \cap {AnyLifespan, Remaining(n)} # {} <=>
             (HasLabel(p, Lifespan) => p.labels[Lifespan] <= n)
  <1>1. \A m : AnyLifespan # Remaining(m) /\ (Remaining(m) = Remaining(n) <=> m = n)
    BY DEF AnyLifespan, Remaining
  <1>2. CASE ~ HasLabel(p, Lifespan)
    BY <1>2, LifespanTolerationsFacts
  <1>3. CASE HasLabel(p, Lifespan)
    <2>1. p.labels[Lifespan] \in Int /\ TaintMaxAge \in Int
      BY <1>3, MaxAgeAssumption DEF IsPod, CanMutate
    <2>2. Range(LifespanTolerations(p)) = {Remaining(m) : m \in p.labels[Lifespan]..TaintMaxAge}
      BY <1>3, LifespanTolerationsFacts
    <2>3. n \in p.labels[Lifespan]..TaintMaxAge <=> p.labels[Lifespan] <= n
      BY <2>1
    <2> QED BY <1>1, <1>3, <2>2, <2>3
  <1> QED BY <1>2, <1>3

(* Whatever is down, restarts, serves with another CA or times out: what   *)
(* each hook saw to holds of a stored pod, if the hook was configured when *)
(* the pod was sent; mutate-pods has nothing left to do for it.            *)
THEOREM NoPodSlipsThrough == Spec => []NothingSlipsThrough
  <1>1. ASSUME IInv, NEW r \in Requests, Stored(r)
        PROVE  Mutated(r) /\ Labelled(r) /\ Validated(r)
    <2>1. Mutated(r)
      BY <1>1, ReviewedFacts, MutatedFacts DEF Mutated
    <2> QED BY <1>1, <2>1, ReviewedFacts
  <1>2. IInv => NothingSlipsThrough
    BY <1>1 DEF NothingSlipsThrough
  <1> QED BY Invariance, <1>2, PTL

(* Tolerations and variables of the client keep their place, in every      *)
(* state of a creation; of the labels only myExtraLabel is ever added or   *)
(* given another value.                                                    *)
THEOREM ClientsKeepTheirPods == Spec => []ClientKeepsItsPod
  <1>1. ASSUME IInv, NEW r \in Requests
        PROVE  /\ IsPrefix(sent[r].tolerations, pod[r].tolerations)
               /\ \A c \in DOMAIN sent[r].env : IsPrefix(sent[r].env[c], pod[r].env[c])
               /\ \A label : LabelKept(sent[r], pod[r], label)
    <2>1. IsPod(sent[r]) /\ \E form \in Forms(sent[r]) : pod[r] \in {form, LabelPod(form)}
      BY <1>1, ReviewedFacts
    <2> QED BY <2>1, FormFacts
  <1>2. IInv => ClientKeepsItsPod
    BY <1>1 DEF ClientKeepsItsPod, LabelKept, ExtraLabelOf, HasLabel
  <1> QED BY Invariance, <1>2, PTL

(* A mutated pod tolerates the nodes its own tolerations or its lifespan   *)
(* allow, and no others, for any taintMaxAge and any lifespan.             *)
THEOREM PodsLiveWhereTheyMay == Spec => []ScheduledWhereItMayLive
  <1>1. ASSUME IInv, NEW r \in Requests, Stored(r), "mutate-pods" \in due[r],
               NEW n \in 0..TaintMaxAge
        PROVE  Tolerates(pod[r], n) <=>
                 \/ Tolerates(sent[r], n)
                 \/ HasLabel(pod[r], Lifespan) => pod[r].labels[Lifespan] <= n
    <2>1. /\ IsPod(sent[r]) /\ CanMutate(sent[r])
          /\ pod[r] \in {MutatePod(sent[r]), LabelPod(MutatePod(sent[r]))}
      BY <1>1, ReviewedFacts
    <2>2. /\ Range(pod[r].tolerations) =
               Range(sent[r].tolerations) \cup Range(LifespanTolerations(sent[r]))
          /\ HasLabel(pod[r], Lifespan) <=> HasLabel(sent[r], Lifespan)
          /\ HasLabel(sent[r], Lifespan) => pod[r].labels[Lifespan] = sent[r].labels[Lifespan]
      BY <2>1, MutatedFacts
    <2>3. Range(LifespanTolerations(sent[r])) \cap {AnyLifespan, Remaining(n)} # {} <=>
            (HasLabel(sent[r], Lifespan) => sent[r].labels[Lifespan] <= n)
      BY <2>1, TolerationsMeanLifespans
    <2> QED BY <2>2, <2>3 DEF Tolerates
  <1>2. IInv => ScheduledWhereItMayLive
    BY <1>1 DEF ScheduledWhereItMayLive
  <1> QED BY Invariance, <1>2, PTL
----------------------------------------------------------------------------
(* Clients that do not repeat themselves.                                  *)

CarefulClients == \A p \in Inputs : Unrepeated(p)

KubeAt(env) == {i \in DOMAIN env : env[i].name = Kube.name}

LEMMA AtMostOne ==
    ASSUME NEW S, IsFiniteSet(S)
    PROVE  Cardinality(S) <= 1 <=> \A i, j \in S : i = j
  <1>1. Cardinality(S) \in Nat
    BY FS_CardinalityType
  <1>2. Cardinality(S) = 0 <=> S = {}
    BY FS_EmptySet
  <1>3. Cardinality(S) = 1 <=> \E i : S = {i}
    BY FS_Singleton
  <1>4. Cardinality(S) <= 1 <=> Cardinality(S) = 0 \/ Cardinality(S) = 1
    BY <1>1
  <1>5. (\A i, j \in S : i = j) <=> (S = {} \/ \E i : S = {i})
    OBVIOUS
  <1> QED BY <1>2, <1>3, <1>4, <1>5

LEMMA KubeOnce ==
    ASSUME NEW env, IsSeq(env)
    PROVE  Cardinality(KubeAt(env)) <= 1 <=> \A i, j \in KubeAt(env) : i = j
  <1>1. Len(env) \in Nat /\ DOMAIN env = 1..Len(env)
    BY DEF IsSeq
  <1>2. IsFiniteSet(1..Len(env))
    BY <1>1, FS_Interval
  <1>3. IsFiniteSet(KubeAt(env))
    BY <1>1, <1>2, FS_Subset DEF KubeAt
  <1> QED BY <1>3, AtMostOne

LEMMA FormsUnrepeated ==
    ASSUME NEW p, IsPod(p), Unrepeated(p), NEW form \in Forms(p),
           NEW new \in {form, LabelPod(form)}, IsPod(new)
    PROVE  Unrepeated(new)
  <1>1. IsInjective(new.tolerations)
    BY FormFacts DEF Unrepeated
  <1>2. ASSUME NEW c \in DOMAIN new.env PROVE Cardinality(KubeAt(new.env[c])) <= 1
    <2>1. c \in DOMAIN p.env /\ IsSeq(p.env[c]) /\ IsSeq(new.env[c])
      BY FormFacts DEF IsPod
    <2>2. Cardinality(KubeAt(p.env[c])) <= 1
      BY <2>1 DEF Unrepeated, KubeAt
    <2>3. \A i, j \in KubeAt(p.env[c]) : i = j
      BY <2>1, <2>2, KubeOnce
    <2>4. IsPrefix(p.env[c], new.env[c])
      BY <2>1, FormFacts
    <2>5. \A i \in DOMAIN p.env[c] : p.env[c][i] = new.env[c][i]
      <3>1. /\ DOMAIN p.env[c] = 1..Len(p.env[c]) /\ Len(p.env[c]) \in Nat
            /\ Len(new.env[c]) \in Nat
        BY <2>1 DEF IsSeq
      <3>2. SubSeq(p.env[c], 1, Len(p.env[c])) = SubSeq(new.env[c], 1, Len(p.env[c]))
        BY <2>4 DEF IsPrefix
      <3>3. \A i \in 1..Len(p.env[c]) : SubSeq(p.env[c], 1, Len(p.env[c]))[i] = p.env[c][i]
        BY <2>1, <3>1 DEF IsSeq
      <3>4. \A i \in 1..Len(p.env[c]) : SubSeq(new.env[c], 1, Len(p.env[c]))[i] = new.env[c][i]
        BY <2>1, <3>1 DEF IsSeq
      <3> QED BY <3>1, <3>2, <3>3, <3>4
    <2>6. ASSUME NEW i \in KubeAt(new.env[c]), NEW j \in KubeAt(new.env[c]) PROVE i = j
      <3>1. i = j \/ (i \in DOMAIN p.env[c] /\ j \in DOMAIN p.env[c])
        BY <2>1, <2>6, FormFacts DEF KubeAt
      <3> QED BY <2>3, <2>5, <2>6, <3>1 DEF KubeAt
    <2> QED BY <2>1, <2>6, KubeOnce
  <1> QED BY <1>1, <1>2 DEF Unrepeated, KubeAt

SentOnce == CarefulClients => \A r \in Requests : Unrepeated(sent[r])

LEMMA PodsUnrepeated ==
    ASSUME IInv, SentOnce, CarefulClients, NEW r \in Requests
    PROVE  Unrepeated(pod[r])
  <1>1. /\ IsPod(sent[r]) /\ IsPod(pod[r]) /\ Unrepeated(sent[r])
        /\ \E form \in Forms(sent[r]) : pod[r] \in {form, LabelPod(form)}
    BY ReviewedFacts DEF SentOnce
  <1> QED BY <1>1, FormsUnrepeated

LEMMA SentOnceStep ==
    ASSUME IInv, SentOnce, [Next]_vars
    PROVE  SentOnce'
  <1>1. SUFFICES ASSUME CarefulClients, NEW q \in Requests PROVE Unrepeated(sent'[q])
    BY DEF SentOnce, CarefulClients
  <1>2. Unrepeated(sent[q])
    BY <1>1 DEF SentOnce
  <1>3. ASSUME NEW r \in Requests, NEW p, NEW namespace, Send(r, p, namespace), Unrepeated(p)
        PROVE  Unrepeated(sent'[q])
    <2>1. sent' = [sent EXCEPT ![r] = p] /\ sent = [x \in Requests |-> sent[x]]
      BY <1>3 DEF Send, IInv, PodInv
    <2>2. sent'[q] = IF q = r THEN p ELSE sent[q]
      BY <2>1
    <2> QED BY <1>2, <1>3, <2>2
  <1>4. ASSUME NEW r \in Requests, Create(r) \/ Retry(r)
        PROVE  Unrepeated(sent'[q])
    BY <1>1, <1>3, <1>4 DEF SentOnce, Create, Retry
  <1>5. ASSUME NEW r \in Requests, Recreate(r)
        PROVE  Unrepeated(sent'[q])
    <2>1. PICK other \in Inputs, namespace \in Namespaces :
            Send(r, [pod[r] EXCEPT !.labels = other.labels], namespace)
      BY <1>5 DEF Recreate
    <2> DEFINE copy == [pod[r] EXCEPT !.labels = other.labels]
    <2>2. Unrepeated(pod[r]) /\ IsPod(pod[r])
      BY <1>1, PodsUnrepeated DEF IInv, PodInv
    <2>3. copy.tolerations = pod[r].tolerations /\ copy.env = pod[r].env
      BY <2>2 DEF IsPod
    <2> HIDE DEF copy
    <2>4. Unrepeated(copy)
      BY <2>2, <2>3 DEF Unrepeated
    <2> QED BY <1>3, <2>1, <2>4 DEF copy
  <1>6. CASE UNCHANGED sent
    BY <1>2, <1>6
  <1>7. ASSUME NEW r \in Requests, Admit(r) PROVE UNCHANGED sent
    BY <1>7 DEF Admit, NotSelected, CallFails, ServeMutatePods, PostWebhook, ServeValidatePods,
       Answers
  <1>8. ASSUME NEW s \in Servers, Start(s) \/ Stop(s) \/ NoteCa(s) PROVE UNCHANGED sent
    BY <1>8 DEF Start, Stop, NoteCa, requestVars
  <1>9. ASSUME NEW h \in Hooks, Apply(h) PROVE UNCHANGED sent
    BY <1>9 DEF Apply, requestVars
  <1>10. UNCHANGED vars => UNCHANGED sent
    BY DEF vars, requestVars
  <1> QED BY <1>4, <1>5, <1>6, <1>7, <1>8, <1>9, <1>10 DEF Next

(* Clients that do not repeat tolerations or KUBE themselves never get one *)
(* twice, however often their pods are copied and reviewed again.          *)
THEOREM NothingIsTwice == Spec => [](CarefulClients => NothingTwice)
  <1>1. Init => SentOnce
    BY DEF Init, SentOnce, CarefulClients
  <1>2. IInv /\ SentOnce /\ [Next]_vars => SentOnce'
    BY SentOnceStep
  <1>3. IInv /\ SentOnce => (CarefulClients => NothingTwice)
    BY PodsUnrepeated DEF NothingTwice
  <1> QED BY Invariance, <1>1, <1>2, <1>3, PTL DEF Spec
----------------------------------------------------------------------------
(* The promise of module PodAdmission: what it sees of the requests.       *)

Phase == [r \in Requests |-> IF stage[r] \in Hooks THEN "pending" ELSE stage[r]]
Shown == [r \in Requests |-> IF Stored(r) THEN pod[r] ELSE sent[r]]

LEMMA Seen ==
    /\ AtOnce!Hooks = Hooks
    /\ \A r, from, to : AtOnce!Moves(r, from, to) <=>
         Phase[r] \in from /\ Phase' = [Phase EXCEPT ![r] = to]
    /\ UNCHANGED <<Phase, sent, due, Shown>> => UNCHANGED AtOnce!podVars
  BY DEF AtOnce!Hooks, Hooks, AtOnce!Moves, AtOnce!podVars, Phase, Shown

LEMMA AtOnceInit == Init => AtOnce!Init
  <1> SUFFICES ASSUME Init PROVE AtOnce!Init
    OBVIOUS
  <1>1. Phase = [r \in Requests |-> "new"]
    BY DEF Init, Phase, Hooks
  <1>2. Shown = sent
    BY DEF Init, Shown, Stored
  <1> QED BY <1>1, <1>2 DEF Init, AtOnce!Init, Phase, Shown

(* One creation goes to another stage.                                     *)
LEMMA StageMoves ==
    ASSUME IInv, NEW r \in Requests, NEW place, stage' = [stage EXCEPT ![r] = place]
    PROVE  /\ Phase' = [Phase EXCEPT ![r] = IF place \in Hooks THEN "pending" ELSE place]
           /\ \A q \in Requests : stage'[q] = IF q = r THEN place ELSE stage[q]
  <1>1. \A q \in Requests : stage'[q] = IF q = r THEN place ELSE stage[q]
    BY DEF IInv, TypeOK
  <1> QED BY <1>1 DEF Phase

LEMMA SentAtOnce ==
    ASSUME IInv, NEW r \in Requests, Create(r) \/ Retry(r) \/ Recreate(r)
    PROVE  AtOnce!Next
  <1>1. /\ sent = [q \in Requests |-> sent[q]] /\ pod = [q \in Requests |-> pod[q]]
        /\ stage[r] \in {"new", "refused", "stored"}
    BY DEF IInv, PodInv, Create, Retry, Recreate
  <1>2. Phase[r] = stage[r] /\ "mutate-pods" \in Hooks /\ "mutate-pods" # "stored"
    BY <1>1 DEF Phase, Hooks
  <1>3. ASSUME NEW p, NEW namespace, Send(r, p, namespace)
        PROVE  /\ Phase' = [Phase EXCEPT ![r] = "pending"]
               /\ \E hooks \in SUBSET Hooks : due' = [due EXCEPT ![r] = hooks]
               /\ sent' = [sent EXCEPT ![r] = p] /\ Shown' = [Shown EXCEPT ![r] = p]
    <2>1. Phase' = [Phase EXCEPT ![r] = "pending"]
      BY <1>2, <1>3, StageMoves DEF Send
    <2>2. {h \in Hooks : InForce(h, namespace)} \in SUBSET Hooks
      OBVIOUS
    <2>3. \A q \in Requests : stage'[q] = IF q = r THEN "mutate-pods" ELSE stage[q]
      BY <1>3, StageMoves DEF Send
    <2>4. \A q \in Requests : /\ sent'[q] = IF q = r THEN p ELSE sent[q]
                              /\ pod'[q] = IF q = r THEN p ELSE pod[q]
      BY <1>1, <1>3 DEF Send
    <2>5. Shown' = [Shown EXCEPT ![r] = p]
      BY <1>2, <2>3, <2>4 DEF Shown, Stored
    <2> QED BY <1>3, <2>1, <2>2, <2>5 DEF Send
  <1>4. CASE Create(r) \/ Retry(r)
    <2>1. stage[r] \in {"new", "refused"} /\ Send(r, sent[r], home[r])
      BY <1>4 DEF Create, Retry
    <2>2. sent' = sent /\ Shown' = Shown
      <3>1. Shown[r] = sent[r] /\ Shown = [q \in Requests |-> Shown[q]]
        BY <2>1 DEF Shown, Stored
      <3>2. sent' = [sent EXCEPT ![r] = sent[r]] /\ Shown' = [Shown EXCEPT ![r] = sent[r]]
        BY <1>3, <2>1
      <3> QED BY <1>1, <3>1, <3>2
    <2>3. AtOnce!Moves(r, {"new", "refused"}, "pending")
      BY <1>2, <1>3, <2>1, Seen
    <2>4. AtOnce!Send(r)
      BY <1>3, <2>1, <2>2, <2>3, Seen DEF AtOnce!Send, Shown
    <2> QED BY <2>4 DEF AtOnce!Next
  <1>5. CASE Recreate(r)
    <2>1. Stored(r) /\ Shown[r] = pod[r] /\ stage[r] = "stored"
      BY <1>5 DEF Recreate, Shown, Stored
    <2>2. PICK other \in Inputs, namespace \in Namespaces :
            Send(r, [pod[r] EXCEPT !.labels = other.labels], namespace)
      BY <1>5 DEF Recreate
    <2> DEFINE copy == [Shown[r] EXCEPT !.labels = other.labels]
    <2>3. Send(r, copy, namespace)
      BY <2>1, <2>2
    <2>4. /\ \E hooks \in SUBSET Hooks : due' = [due EXCEPT ![r] = hooks]
          /\ sent' = [sent EXCEPT ![r] = copy] /\ Shown' = [Shown EXCEPT ![r] = copy]
          /\ Phase' = [Phase EXCEPT ![r] = "pending"]
      <3> HIDE DEF copy
      <3> QED BY <1>3, <2>3
    <2>5. AtOnce!Moves(r, {"stored"}, "pending")
      BY <1>2, <2>1, <2>4, Seen
    <2>6. AtOnce!SendCopy(r)
      BY <2>4, <2>5, Seen DEF AtOnce!SendCopy, Shown
    <2> QED BY <2>6 DEF AtOnce!Next
  <1> QED BY <1>4, <1>5

LEMMA AdmittedAtOnce ==
    ASSUME IInv, IInv', NEW r \in Requests, Admit(r)
    PROVE  AtOnce!Next \/ UNCHANGED AtOnce!podVars
  <1>1. /\ UNCHANGED <<sent, due>> /\ stage[r] \in Hooks
        /\ \/ stage' = [stage EXCEPT ![r] = "refused"] /\ UNCHANGED pod
           \/ /\ stage' = [stage EXCEPT ![r] = After(stage[r])]
              /\ \E p : pod' = [pod EXCEPT ![r] = p]
    BY DEF Admit, NotSelected, CallFails, ServeMutatePods, PostWebhook, ServeValidatePods,
       Answers, MoveOn, Refuse, Hooks
  <1>2. Phase[r] = "pending" /\ ~Stored(r)
    BY <1>1 DEF Phase, Stored, Hooks
  <1>3. CASE stage' = [stage EXCEPT ![r] = "refused"] /\ UNCHANGED pod
    <2>1. Phase' = [Phase EXCEPT ![r] = "refused"]
      BY <1>3, StageMoves DEF Hooks
    <2>2. Shown' = Shown
      BY <1>1, <1>2, <1>3, StageMoves DEF Shown, Stored
    <2>3. AtOnce!Moves(r, {"pending"}, "refused")
      BY <1>2, <2>1, Seen
    <2>4. AtOnce!Refuse(r)
      BY <1>1, <2>2, <2>3 DEF AtOnce!Refuse, Shown
    <2> QED BY <2>4 DEF AtOnce!Next
  <1>4. ASSUME stage' = [stage EXCEPT ![r] = After(stage[r])],
               NEW p, pod' = [pod EXCEPT ![r] = p]
        PROVE  AtOnce!Next \/ UNCHANGED AtOnce!podVars
    <2>1. \A q \in Requests : /\ stage'[q] = IF q = r THEN After(stage[r]) ELSE stage[q]
                              /\ pod'[q] = IF q = r THEN p ELSE pod[q]
      <3>1. \A q \in Requests : stage'[q] = IF q = r THEN After(stage[r]) ELSE stage[q]
        BY <1>4, StageMoves
      <3>2. pod = [q \in Requests |-> pod[q]]
        BY DEF IInv, PodInv
      <3> QED BY <1>4, <3>1, <3>2
    <2>2. CASE After(stage[r]) = "stored"
      <3>1. Phase' = [Phase EXCEPT ![r] = "stored"]
        BY <1>4, <2>2, StageMoves DEF Hooks
      <3>2. Shown' = [Shown EXCEPT ![r] = p]
        BY <1>1, <2>1, <2>2 DEF Shown, Stored
      <3>3. PICK hooks \in SUBSET Hooks :
              due[r] \subseteq hooks /\ AtOnce!Accept(hooks, sent[r])
              /\ p = AtOnce!LabelledBy(hooks, sent[r])
        BY <1>1, <2>1, <2>2 DEF IInv, TypeOK, Reviewed, Before
      <3>4. AtOnce!Moves(r, {"pending"}, "stored")
        BY <1>2, <3>1, Seen
      <3>5. AtOnce!Store(r)
        BY <1>1, <3>2, <3>3, <3>4, Seen DEF AtOnce!Store, Shown
      <3> QED BY <3>5 DEF AtOnce!Next
    <2>3. CASE After(stage[r]) # "stored"
      <3>1. After(stage[r]) \in Hooks
        BY <1>1, <2>3 DEF After, Hooks
      <3>2. Phase' = [Phase EXCEPT ![r] = "pending"]
        BY <1>4, <3>1, StageMoves
      <3>3. Phase' = Phase
        BY <1>2, <3>2 DEF Phase
      <3>4. Shown' = Shown
        BY <1>1, <1>2, <2>1, <2>3 DEF Shown, Stored
      <3> QED BY <1>1, <3>3, <3>4, Seen
    <2> QED BY <2>2, <2>3
  <1> QED BY <1>1, <1>3, <1>4

LEMMA AtOnceStep == IInv /\ IInv' /\ [Next]_vars => [AtOnce!Next]_(AtOnce!podVars)
  <1> SUFFICES ASSUME IInv, IInv', [Next]_vars
               PROVE  AtOnce!Next \/ UNCHANGED AtOnce!podVars
    OBVIOUS
  <1>1. UNCHANGED requestVars => UNCHANGED AtOnce!podVars
    BY Seen DEF requestVars, Phase, Shown, Stored
  <1>2. ASSUME NEW s \in Servers, Start(s) \/ Stop(s) \/ NoteCa(s)
        PROVE  UNCHANGED AtOnce!podVars
    BY <1>1, <1>2 DEF Start, Stop, NoteCa
  <1>3. ASSUME NEW h \in Hooks, Apply(h) PROVE UNCHANGED AtOnce!podVars
    BY <1>1, <1>3 DEF Apply
  <1>4. UNCHANGED vars => UNCHANGED AtOnce!podVars
    BY <1>1 DEF vars
  <1> QED BY <1>2, <1>3, <1>4, SentAtOnce, AdmittedAtOnce DEF Next

(* For any number of requests, pods of any shape, restarts, lost calls and *)
(* changes of the configurations: creating a pod is one step that stores   *)
(* what the hooks make of it, or nothing.                                  *)
THEOREM AdmissionIsAtomic == Spec => AdmitsAtOnce
  <1>1. Spec => AtOnce!Init /\ [][AtOnce!Next]_(AtOnce!podVars)
    BY AtOnceInit, AtOnceStep, Invariance, PTL DEF Spec
  <1> QED BY <1>1 DEF AdmitsAtOnce, AtOnce!Spec
============================================================================
