# A verification of eks-cluster

TLA+ models of the programs in this repository, checked with TLC, and theorems
about them, proved with TLAPS. Paths below are relative to `src/`.

## 1. The system

eks-cluster builds a Kubernetes cluster on AWS and a few programs to run in it.

| part | state it keeps | operations | hard about it | correct when |
|---|---|---|---|---|
| **operator** `golang-app-operator/` | none of its own: informer caches, a work queue, a lease; reads and writes a custom resource (CR), a Deployment and reads pods | `Reconcile`, started by watch events, retries, timers and resync | stale caches, concurrent writers, crash between calls, lost answers, two leaders, deletion under way | the Deployment follows the CR or goes with it; nothing of anybody else's is overwritten; the status tells the truth |
| **kubewebhook** `kubewebhook/` | a CA made at start, in memory | `/mutate-pods`, `/validate-pods`, `/ca.pem`, `/health` | restart makes `caBundle` stale; calls fail; pods are sent again | no pod misses a hook; clients keep what they wrote; nobody is locked out for good |
| **mutatingwebhook** `mutatingwebhook/` | a CA made at start | `/webhook`, `/ca.pem` | as above | every pod it reviews is labelled |
| **golang-app** `golang-app-v1/`, `-v2/` | one `Event` all handlers share, `conf.toml` on disk | `GET /info`, `GET /health` | data race on the `Event` | an answer is whole, and of a configuration that was current |
| **image builds** `*/build.sh`, `.github/workflows/build.yml` | tags in ECR | build, tag, push | the jobs of v1 and v2 race for one repository and one hash; runs are cancelled; runners die between two pushes; images expire | a run that ends well published something; the tags v1 and v2 do not go back |
| **deployment** `infra/Makefile`, `.github/workflows/aws.yml` | terraform state in S3, lock in DynamoDB, the cluster | deploy, destroy | masked failures, cancelled runs, deploy and destroy at the same time, plans that are old when they are applied | terraform's state is true; what was applied is there |
| **goprometheus**, **python-app**, **testbox** | a counter; nothing | HTTP handlers | - | - |
| **terraform, Helm charts** `infra/` | declarations | - | interpreted by other programs | - |

The parts meet in the API server. The operator runs the image the builds push;
the Deployment it writes makes pods; pods in labelled namespaces pass the webhooks.

## 2. Plan

In the order in which it was worked off; each part has its proofs in modules of its own.

1. `Cluster`, `Operator`: the operator with everybody who writes the same objects,
   and its promise, `DesiredState`. Done and proved.
2. `PodReview`, `Admission`: the webhooks, and their promise, `PodAdmission`. Done and
   proved.
3. `EventService`: concurrent handlers and the shared `Event`, word by word, and their
   promise, `InfoService`. Done and proved.
4. `Workflow`, `ImageBuild`: GitHub Actions and the build jobs of `eks-cluster/golang-app`.
   Done; `Delivery` checks and proves them.
5. `Delivery`: `ImageBuild` beside `make deploy` and `make destroy`, and their promise
   about terraform's state, `RemoteState`. Done and proved.

A composition that is left out: pods of the operator's Deployment in a namespace
`Admission` watches. They carry no `managedby` label, so all of them are refused, and
nothing more happens.

## 3. Modules

### Cluster and Operator

`Cluster` is what the operator finds: a log of versions for the CR, one for its
Deployment and one for the list of pods. The newest version is the stored object,
its index its resourceVersion; a deletion is a tombstone. Its actions are those of
the user (`UserCreate`, `UserResize`, `UserDelete`), of others who write the
Deployment (`Scale`, `DropDeployment`), the garbage collector, the Deployment
controller (`StartPod`, `StopPod`) and of nodes that fail (`LosePod`). `Restore` makes
a Deployment of the CR's name without an owner (applied by hand, or from a backup);
such a Deployment is `Foreign`, and the controller resizes it, for it looks at the name
only, but does not adopt it. It is
modelled from how the controller uses it, and from the CRD
(`config/crd/bases`), and is marked external otherwise.

`Operator` extends it with the processes `main.go` starts:

| variable | code |
|---|---|
| `lease` | the lease `53b6bedc.stevejcliu.com` (`main.go:73-74`) |
| `pc` | where the process is; a call's name means it is about to make that call |
| `crSeen`, `depSeen`, `podSeen` | the informer caches behind `mgr.GetClient()` |
| `queued`, `later` | the work queue, and delayed additions to it |
| `crRead`, `depRead`, `podNames` | the locals `golangappoperatored`, `found`, `podNames` of `Reconcile` |

| action | `golangappoperator_controller.go` |
|---|---|
| `GetCr` | 65-79: not found ends the reconcile |
| `GetDeployment` | 81-102: the three ways on from the Deployment found |
| `CreateDeployment` | 84-94 and 142-176 |
| `UpdateDeployment` | 100-113 |
| `ListPods` | 115-129, and 138 when the status is current |
| `UpdateStatus` | 128-138 |
| `CallFails` | every `return ctrl.Result{}, err` |
| `SyncCr`, `Dequeue` | 192-196: only the CR is watched; one worker |

A process that is started fills its caches with a first list of each kind (`Boot`). That
list does not ask for the newest version (client-go sends resourceVersion 0), so an API
server that lags may answer it with any version, also one that is older than what this
process had seen before it ended. From there on a watch only goes forward (`Advance`).
`since` is history: how long the Deployment's log was when the life before ended. What a
process promises about the order of its writes it promises within one life.

Reads are served at the version the cache shows and never block; writes are
checked by the API server as it does: `Create` fails where there is an object,
`Update` and `Status().Update` fail unless the resourceVersion read is the newest.
Nothing the controller does depends on `spec.image` (section 7); ports, labels and the
other fields of the CR are left out.

Status updates keep the size and image in the controller's copy of the CR. As the
version must be the newest, that equals what the status subresource does.

### DesiredState

The promise without processes or caches: the Deployment is created only where there
is none, for a request that was made; only its size is changed, to one that was
asked for; the operator never takes it away. Others may scale it, drop it (`Interfere`)
or put one of their own in its place (`Intrude`). `Operator` implements it under the
refinement mapping `Desired` (newest versions only), checked in `OperatorConverge`
and proved in `OperatorRefinement`.

### PodReview and Admission

`PodReview` has the pod transformations as operators (`IsPod` says what a pod is): `TolerateLifespan`
(`minimum_lifespan.go`), `InjectEnvVar` (`inject_env.go`), `MutatePod`
(`mutation.go`), `ValidatePod` with `ValidName` and `ValidLabels`
(`pkg/validation`), `LabelPod` (`mutatingwebhook/server.go`). A patch is the
difference of two pods; it is modelled by the pod that results, and by `CanLabel`
where it may not apply. Both servers' `caBundle` configurations, the CA each
process makes (`certsetup`), the administrator's two steps (`NoteCa`: `getCA`;
`Apply`: `kubectl apply`) and the way of a pod through `mutate-pods`, `webhook` and
`validate-pods` are `Admission`. The API server calls mutating webhooks in the order
of their configurations' names, then the validating one, each once (no
`reinvocationPolicy`), and refuses the request when a call fails (no
`failurePolicy`). A namespace is its set of labels.

Configurations are installed and replaced, never deleted. Each hook is looked up
when its turn comes.

`PodAdmission` is the promise without servers, CAs and calls: a pod that was sent is
refused, or stored in one step, as exactly what the hooks it had to pass make of it, and
perhaps some that were configured on its way, none of which has anything against it.
`Admission` implements it under `AtOnce`: a pod on its way is pending, and shows as it
was sent.

### EventService

Every goroutine of `GET /info` (`golang-app-v1/pkg/api`, and the same code in v2) is
a request: `ReadInConfig`, `FillPort`, `FillLevel` are `ReadEnvironment`
(`type.go`), `StoreWord`, `StoreEnvironment` are `CreateEvent` (`event.go`), and
`LoadWord`, `LoadEnvironment`, `LoadPort`, `LoadLevel` are `render.JSON`. Nothing is
locked, so a store or load of one machine word is a step: a string has two of them,
the pointer `Environment` one. That a raced word holds a value somebody stored is the
Go memory model; that the stores of one goroutine are seen in program order holds on
amd64, which the images are built for. On a weaker machine the pointer could be seen
before what it points to, and `AnswersAreCurrent` would not hold.
`beside` is history: the requests that were under way together with one.
`EditConf` replaces `conf.toml` at any time; one that does not parse panics the
handler, which ends that request.

`InfoService` is the promise without goroutines, words and a shared `Event`: a request
reads `conf.toml` once, as it is then, and is answered once, in one step, from what it
read or what a request beside it did. `EventService` implements it under `Service`; it says
more than `AnswersAreCurrent`, which a program that reads `conf.toml` at its start would keep.

### Workflow, ImageBuild and Delivery

`Workflow` is GitHub Actions as `build.yml` and `aws.yml` use it: a `Push` starts a
run of both, the head commit's message selects jobs, `CancelPrevious` is the cancel
job (no job needs it, so it acts at any time, or never, and ends earlier runs of its
workflow whatever their messages were), `Die` a runner that is lost, `Rerun` "re-run
failed jobs". The cancel jobs of the first run have nothing to do.

`ImageBuild` is `build.sh` of v1 and v2, an action per `aws` or `docker push` call.
The scripts do not set `-e`: a failed call goes on with the next, and the last
command decides what the job reports. Without a repository URI all that follows
fails, save that an image that is found still ends the job well: that is the step
`withoutUri`. A `docker build` that fails leaves nothing to push and ends the job as
failed, which is how a lost runner (`Die`) ends it.
`Expire` is rule 3 of the lifecycle policy.

| action | code |
|---|---|
| `DescribeRepository`, `CreateRepository` | `build.sh` 17-20 |
| `LookUpUri`, `DescribeImages` | `build.sh` 23-27 |
| `PushHash`, `PushVersion` | `build.sh` 28-33 |
| `Plan`, `Apply`, `Create`, `Save`, `Configure` | `deploy-terraform` of `infra/Makefile` |
| `DestroyCharts`, `Destroy`, `Remove`, `Forget` | `destroy-charts`, `destroy-terraform` |
| `DeleteImages`, `DeleteOthers` | `aws.yml` 67 and 68-71 |

`Delivery` adds the jobs of `aws.yml`. All resources of terraform are one `cluster`:
present or not. `terraform apply` is `Apply` (take the lock; refuse a plan whose
serial number is not the state's), `Create`, and `Save` (write the state, unlock);
`terraform destroy` is `Destroy`, `Remove`, `Forget`. The write of the state may fail
(`NotWritten`): terraform then leaves it in `errored.tfstate` on a runner that is thrown
away, reports an error and gives the lock back all the same. A deploy ends there; a
destroy goes on, because of `|| true`. A write is all or nothing: the object in S3 and its
digest in DynamoDB are one state. A job that is killed in
between leaves its lock, until somebody breaks it (`ForceUnlock`, external). The
builds of the other programs have repositories of their own that nobody races for:
`BuildOthers` says that they come to be, because `aws-destroy` fails without them.

`RemoteState` is what all these jobs together do to the state: look at it while nobody
holds the lock; take the lock; create or remove the cluster while they hold it, and create
only if they saw this very state; write the state, as it is then, with the next number and
give the lock back in one step (`Record`), or give it back as it is, and then the state is
true (`Release`). Or the lock is given up (`GiveUp`): the state could not be written, or
somebody broke the lock of a killed job. `Delivery` implements it under `Remote`.

`doubtful` is history: a state could not be written or a lock was broken, and no state was
written since. The properties about terraform except those times, and must: a destroy that
removed the cluster and could not write the state, or was killed before it did, leaves a
state that is false, and a plan made before the destroy still has the state's serial number
and is applied to a cluster that is gone. The next state that is written is true again,
whatever came before, and so is every promise from there on.

## 4. Runs

| run | instance | shows |
|---|---|---|
| `OperatorRaces` | 2 processes, sizes 1 and 2, no pods, 2 changes, 1 fault, 4 versions | `TypeOK`, `NoLostUpdate`, `NeverBackwards`, `WritesWhatWasAsked` |
| `OperatorStatus` | 1 process, 2 pods, sizes 0 and 1, 2 changes, 1 fault, 3 versions, fair | `StatusIsASnapshot`, `UserOwnsSpec`, `StatusConverges` |
| `OperatorConverge` | 1 process, sizes -1, 1, 2, 4 changes, 1 fault, 3 versions, fair | `Converges`, `DeletedForGood`, `ForeignSurvives`, `KeepsPromise` |
| `AdmissionGate` | 1 request, 10 pods, 3 namespaces, ages up to 3, 1 fault | `TypeOK`, `NothingSlipsThrough`, `ClientKeepsItsPod`, `ScheduledWhereItMayLive`, `NothingTwice`, `AdmitsAtOnce` |
| `AdmissionLive` | 1 request, 3 pods, 3 namespaces, 2 faults, fair | `AcceptablePodsGetIn` |
| `EventService` | 3 requests, 2 new versions of `conf.toml` | `TypeOK`, `AnswersAreWhole`, `AnswersAreCurrent`, `ServesAsPromised` |
| `Delivery` | 2 pushes with any messages, 1 fault, 1 job run again | `TypeOK`, `StateIsTrue`, `AppliedIsThere`, `OneIsPublished`, `TagsMoveForward`, `KeepsRemoteState` |
| `OperatorStatusCleared`, `OperatorStatusChurn`, `AdmissionUnlabelled`, `BuildsBoth`, `BuildsAgain` | small | what the repository says and the code does not do (section 7) |

`TypeOK` of each run is that of its module.

Bounds:

- `MaxOps` counts changes by users and nodes. Two are enough to create a CR and
  race with one edit, scale or deletion; four to create, delete, put a foreign
  Deployment in the place and create again.
- `MaxFaults` counts crashes, lost leases, failed calls and lost answers (operator),
  stopped servers and failed calls (webhooks).
- `MaxVersions` keeps logs finite: with a cache that lags for ever `Reconcile` would
  repeat refused or redundant writes for ever. Once the Deployment's log is that
  long, a reconcile starts only with caches that are up to date, and once the CR's
  log is, pods are listed in the order of the status. Below the bound all lags and
  orders occur. Two processes never need the bound to race: each race needs at
  most a creation, one change and two writes.
- `Pods = {}` in `OperatorRaces` and `OperatorConverge`: pods only matter to the status.
- With size 2 a liveness run of the status is too large. `OperatorStatus` asks for one pod at
  a time, which is lost and replaced under another name: the length of the list stays, what
  it names does not. Two pods at a time are there while one of them is stopped or belongs
  to a Deployment that is gone.
- One request in `Admission`: requests share the servers and configurations but
  never write them, so two of them cannot disturb each other.
- Three requests in `EventService`: one that left the `Event` behind, one that is
  rendering it and one that is filling it.
- `MaxPushes` is 2: a build or deploy and what overtakes, cancels or destroys it. Three
  jobs that change terraform's state are not in the run; the theorems cover them.
- `MaxFaults` and `MaxReruns` of `Workflow` count failed calls, states that cannot be
  written and lost runners, and jobs that are run again.
- `TaintMaxAge` is 14 in the code. Lifespans 1, the maximum and one more reach both
  ends of the loop.

Deadlock checking is off for `Operator`: without a CR everything rightly stops when
the users have spent their changes; for `EventService` and `Delivery` when all
requests are answered and all pushes and faults spent. `Admission` is checked for deadlock.

A few definitions that no action uses (`DepStillThere`, `ScalesUpOnly`, `Ignore`,
`PrependTolerations` and the like, each before the definition it is a variant of)
are plausible faults: with one of them in place of that definition a run finds the
property violated that guards against it, so the instances are large enough to show it.

The symmetry of `OperatorRaces` is sound: processes are interchangeable and only
invariants are checked.

## 5. Fairness

`FairSpec` of `Operator` is weakly fair to each step a process can take by itself: a
runnable goroutine runs, a watch delivers, a timer fires, a Deployment restarts a
process, the lease of a dead holder runs out. It includes `Resync`, the periodic
resync that controller-runtime does by default (10 hours): the controller does not
watch Deployments, so without resync a scale by somebody else would stay. There is
no fairness for users, nodes and faults, and their number is bounded, so properties
of the form `<>[]` speak of what happens after the last of them.

`FairSpec` of `Admission` is fair to the restart of a server (a Deployment), to the
retry of a client (a ReplicaSet) and to the administrator of
`mutatingwebhook/README.md`. The last is not the code's doing: without somebody who
copies the new CA every restart locks all clients out, and the model says so.

`EventService` and `Delivery` state no fairness: nothing they promise is about what
must happen in the end.

## 6. Proofs

For all values of the constants, from the named assumptions about them
(`SizesAssumption`, `PodsAssumption`, `OtherAssumption`, `BoundsAssumption`,
`NoOneAssumption` and `FaultsAssumption` for the operator, `InputsAssumption` (an
input is a pod) for `Admission`, `NilAssumption` and `EditsAssumption` for
`EventService`, `PushesAssumption` and `FaultsAssumption` for `Delivery`):

| theorem | module | property |
|---|---|---|
| `TypeCorrect` | `OperatorProofs` | `TypeOK` |
| `NoUpdateIsLost` | `OperatorSafetyProofs` | `NoLostUpdate` |
| `NeverGoesBackwards` | `OperatorSafetyProofs` | `NeverBackwards` |
| `WritesOnlyWhatWasAsked` | `OperatorSafetyProofs` | `WritesWhatWasAsked` |
| `ForeignDeploymentsSurvive` | `OperatorSafetyProofs` | `ForeignSurvives` |
| `StatusLeavesSpecAlone` | `OperatorProofs` | `UserOwnsSpec` |
| `StatusesAreSnapshots` | `OperatorProofs` | `StatusIsASnapshot` |
| `OperatorKeepsPromise` | `OperatorRefinement` | `KeepsPromise` |
| `TypeCorrect` | `AdmissionProofs` | `TypeOK` |
| `MutatingAgainChangesNothing` | `PodReviewProofs` | what `mutate-pods` returns, it leaves as it is |
| `NoPodSlipsThrough` | `AdmissionProofs` | `NothingSlipsThrough` |
| `ClientsKeepTheirPods` | `AdmissionProofs` | `ClientKeepsItsPod` |
| `PodsLiveWhereTheyMay` | `AdmissionProofs` | `ScheduledWhereItMayLive` |
| `NothingIsTwice` | `AdmissionProofs` | `NothingTwice`, if no input repeats anything itself |
| `AdmissionIsAtomic` | `AdmissionProofs` | `AdmitsAtOnce` |
| `TypeCorrect` | `EventServiceProofs` | `TypeOK` |
| `NoHalfFilledAnswer` | `EventServiceProofs` | `AnswersAreWhole` |
| `NoLeftOverAnswer` | `EventServiceProofs` | `AnswersAreCurrent` |
| `EventServiceKeepsPromise` | `EventServiceProofs` | `ServesAsPromised` |
| `TypeCorrect` | `DeliveryProofs` | `TypeOK` |
| `StateStaysTrue` | `DeliverySafetyProofs` | `StateIsTrue` |
| `AppliedClusterIsThere` | `DeliverySafetyProofs` | `AppliedIsThere` |
| `DeliveryKeepsPromise` | `DeliverySafetyProofs` | `KeepsRemoteState` |
| `OneVersionIsPublished` | `DeliverySafetyProofs` | `OneIsPublished` |
| `TagsOnlyMoveForward` | `DeliverySafetyProofs` | `TagsMoveForward` |

**Operator.** `TypeOK` is inductive: logs only grow (`StepGrowsLogs`), so an index
into one stays an index. The others follow from `SafetyInv`, which adds `HandsOK`: past
`GetCr` the CR in hand exists, and a process about to update holds an existing
Deployment; without it nothing says that what is written was asked for. `NotBehind`:
the version in a process's cache, and the one in its hands, are no older than any
version the writes of its present life came from, and a process that is down has made
none; without it `NeverBackwards` is not inductive. Only the end of a process moves
`since`, to the end of the log (`LifeStep`), so a new process has nothing to be behind of,
whatever its first list returned. `ForeignInv`:
a Deployment that no operator created has no owner, so the garbage collector spares it.
`StatusInv`: the names a process is about to report are, in some order, the pods of one
version of the pod list, which stays in the log.

The refinement has one lemma for what a step does to the CR's log, one for the
Deployment's, and uses `SafetyInv` to know that an operator's write is a `Provide`
or a `Resize`.

**EventService.** Nobody ever clears a word of the `Event`, but a request may be
rendering while another is still storing. `HeapInv`: an `Environment` that its request
is about to store, or has stored, is whole. `EventInv`: the words a request is past are
there, the pointer is of a request that has stored it, and while a request renders it
is its own or that of one that was served beside it; without the last an old pointer
might show. To keep it, the request that stores must be among those beside the one
that renders: `MeetInv`, any two that are under way have met. `AnswerInv` carries all
this through the loads. In the refinement the last load, of the log level, is the step
that answers; every other step after the reading is no step of the promise.

**Delivery.** `TypeOK` is inductive by itself, with one lemma for what a step does to
the jobs (`WorkflowStep`) and one for the registry (`RegistryStep`). About terraform:
`LockInv`, only one job can be within the lock, and it is the one that holds it;
`PlanInv`, no plan is newer than the state; `SeenInv`, who is about to create or save
has the plan of this state, even when locks were given up, because the holder of such a lock
does nothing any more; `WorkInv`, what the holder has done to the cluster at each of its
steps, whether the state was true before or not: a deploy about to save has a cluster and a
destroy about to forget one that the state knew has none, so that what is written is true;
`TruthInv`, as long as nothing is doubtful, what the cluster and the state
have in common at each step of the holder, and that a plan whose serial number is the
state's asks for a cluster exactly when the state has none, because the number grows
with every change. Without `WorkInv` nothing says that the state that ends a doubt is
true, and `StateIsTrue` is not inductive. Published versions: a job that ends well without pushing found the hash
of a job that had pushed it (`HashInv`), and that one is still to publish or does not
end well (`DoneInv`, `PushedHashStays`). Tags: once a cancel job has acted, what runs
of earlier pushes was run again (`CancelInv`).

**Admission.** The lemmas about pods are in `PodReviewProofs`, for sequences of any
length. What the loop of `appendTolerations` collects is a recursive function
(`NotIn`), and `NotInFacts` says what it is: those of the new tolerations that do not
exist, none of them twice. Its proof is by induction on the length, from the well-foundedness
of `<` on `Nat`, which the library states about sets (`WFMin`), so that no operator has to be
instantiated: `LeastElement`, then `Induction`. `MutatePodFacts` follows, and that a
pod which has all its lifespan needs (`Provided`) is left as it is.

`DueInv`: a hook that was in force when a pod was sent is in force when its turn comes,
because configurations are never deleted. `Reviewed`: the pod in hand is what some of the
hooks whose turn has been, among them all that were due, made of the pod that was sent,
and they accepted it; without it nothing relates a stored pod to what its client wrote.
With `DueInv` it is inductive, and it says by itself which step of `PodAdmission` the last
call is. The other theorems follow from it with the facts about pods (`ReviewedFacts`,
`MutatedFacts`). `NothingTwice` needs, besides, that no
request was sent with anything twice (`SentOnce`), which holds although clients copy pods
that were already reviewed; that the inputs are such pods is a hypothesis of the theorem
(`CarefulClients`) and holds of the inputs of `AdmissionGate`, because a client that
repeats itself keeps what it wrote. The one thing a client does not keep is a label
`myExtraLabel` of its own: the patch of `mutatingwebhook` (`server.go:58`) overwrites it.
`ClientKeepsItsPod` says so, and `LabelKept` that no other label is added or changed;
`OwnLabel` is such a client in `AdmissionGate`.

Only model-checked: liveness (`Converges`, `DeletedForGood`, `StatusConverges`,
`AcceptablePodsGetIn`), which is outside the prover's reach.

## 7. What the code does otherwise than the repository says

- `StatusCleared`: a CR scaled to 0 keeps naming pods that are gone. `getPodNames`
  returns nil for no pods, the CRD refuses `null`, and the operator retries for ever.
- `StatusOnlyIfNeeded`: the status is rewritten when the cache lists the same pods in
  another order, and each rewrite queues another reconcile.
- `EveryPodIsLabelled`: `mutatingwebhook` locks out pods without labels instead of
  labelling them.
- `BothCanBePulled`: the jobs for v1 and v2 share a repository and the hash tag, so
  the second finds an image and skips its own; only one of the tags v1 and v2 appears.
- `RunPublishes`: a job that stopped between its two pushes and is run again finds its own
  hash; it and the other job end well, and neither tag was pushed.

Seen while modelling, without a run, because each is plain from its lines:

- `terraform destroy || true && echo` (`infra/Makefile:167`) says "destroyed successfully"
  with the cluster still there, and the job goes on to delete the image repositories.
- `spec.image` of a CR is required and never used; the image is a constant of the controller.
- `spec.size` has no minimum (`golangappoperator_types.go:31` and the CRD): a negative one is
  accepted, and every write of the Deployment is refused and retried until it is corrected.
  `Converges` is about what comes after, and its run has a negative size.
- Where the jobs for v1 and v2 both push, rule 3 of the lifecycle policy keeps one image of
  the repository that serves both tags.

## 8. Not modelled

`goprometheus` counts with an atomic counter of a library; `python-app` and `testbox`
keep no state; terraform and charts are declarations other programs interpret, and the
targets of `infra/Makefile` that install charts are called by no workflow. The generated
deep copies and the API types of the operator are data. Of the modelled parts: RBAC,
metrics, probes and logging of the operator; HTTP requests to the webhooks that no API
server sends; the contents of certificates and their expiry after ten years; `/health`
of golang-app, which answers a constant; the build jobs of programs with a repository
of their own, beyond that they create it.
