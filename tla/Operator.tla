------------------------------ MODULE Operator -----------------------------
(***************************************************************************)
(* The golang-app operator: processes started by main.go with              *)
(* --leader-elect, each with informer caches, a work queue and one         *)
(* reconcile worker that runs Reconcile of                                 *)
(* controllers/golangappoperator_controller.go for the one CR of module    *)
(* Cluster.  Every call Reconcile makes on the client is a step of its     *)
(* own: reads are served by the caches, writes go to the API server.       *)
(***************************************************************************)
EXTENDS Cluster

CONSTANTS
    NoOne,      \* "nobody holds the lease"
    MaxFaults   \* bound: crashes, lost leases, failed or lost calls in a behaviour

ASSUME NoOneAssumption == NoOne \notin Procs
ASSUME FaultsAssumption == MaxFaults \in Nat

VARIABLES
    lease,    \* holder of the lease 53b6bedc.stevejcliu.com
    pc,       \* [Procs -> where a process is; a call's name means "about to make it"]
    crSeen, depSeen, podSeen, \* [Procs -> version the informer cache shows]
    queued,   \* [Procs -> the CR's key is in the work queue]
    later,    \* [Procs -> the key is to be added after a delay]
    crRead, depRead, \* [Procs -> version Reconcile read]
    podNames, \* [Procs -> names Reconcile listed]
    since,    \* [Procs -> history: newest version of the Deployment when its present life began]
    faults    \* how many of MaxFaults are used up

cacheVars == <<crSeen, depSeen, podSeen>>
queueVars == <<queued, later>>
readVars  == <<crRead, depRead, podNames>>
procVars  == <<lease, pc, cacheVars, queueVars, readVars, since, faults>>
vars      == <<clusterVars, procVars>>

Calls  == {"getCr", "getDeployment", "create", "update", "listPods", "updateStatus"}
States == {"down", "standby", "idle"} \cup Calls

Active(m) == pc[m] \notin {"down", "standby"}

(* The objects in Reconcile's hands. *)
MyCr(m)  == crLog[crRead[m]]
MyDep(m) == depLog[depRead[m]]

OperatorInit ==
    /\ lease = NoOne
    /\ pc = [m \in Procs |-> "standby"]
    /\ crSeen = [m \in Procs |-> 1]
    /\ depSeen = [m \in Procs |-> 1]
    /\ podSeen = [m \in Procs |-> 1]
    /\ queued = [m \in Procs |-> FALSE]
    /\ later = [m \in Procs |-> FALSE]
    /\ crRead = [m \in Procs |-> 1]
    /\ depRead = [m \in Procs |-> 1]
    /\ podNames = [m \in Procs |-> <<>>]
    /\ since = [m \in Procs |-> 1]
    /\ faults = 0

Init == ClusterInit /\ OperatorInit
----------------------------------------------------------------------------
(* Processes and the lease.                                                *)

Goto(m, place) == pc' = [pc EXCEPT ![m] = place]
Fault == faults < MaxFaults /\ faults' = faults + 1

(* A manager fills its caches with a first list of each kind.  It does not *)
(* ask for the newest version (resourceVersion 0), so that an API server   *)
(* that lags may answer with any: also with one that is older than what    *)
(* this or another process has seen before.                                *)
Boot(m) ==
    /\ pc[m] = "down"
    /\ Goto(m, "standby")
    /\ \E cr \in DOMAIN crLog : crSeen' = [crSeen EXCEPT ![m] = cr]
    /\ \E dep \in DOMAIN depLog : depSeen' = [depSeen EXCEPT ![m] = dep]
    /\ \E pods \in DOMAIN podLog : podSeen' = [podSeen EXCEPT ![m] = pods]
    /\ UNCHANGED <<clusterVars, lease, queueVars, readVars, since, faults>>

(* With the lease the controller starts: every CR in the cache is queued.  *)
Lead(m) ==
    /\ pc[m] = "standby"
    /\ lease = NoOne
    /\ lease' = m
    /\ Goto(m, "idle")
    /\ queued' = [queued EXCEPT ![m] = Exists(crLog[crSeen[m]])]
    /\ UNCHANGED <<clusterVars, cacheVars, later, readVars, since, faults>>

(* The holder is dead, or is a new process that took its name.             *)
LeaseRunsOut ==
    /\ lease # NoOne
    /\ ~Active(lease)
    /\ lease' = NoOne
    /\ UNCHANGED <<clusterVars, pc, cacheVars, queueVars, readVars, since, faults>>

(* The holder is paused or cut off for longer than the lease lasts and     *)
(* does not know it yet.                                                   *)
LoseLease ==
    /\ lease # NoOne
    /\ Active(lease)
    /\ Fault
    /\ lease' = NoOne
    /\ UNCHANGED <<clusterVars, pc, cacheVars, queueVars, readVars, since>>

(* The locals of Reconcile are gone when it ends. *)
Forget(m) ==
    /\ crRead' = [crRead EXCEPT ![m] = 1]
    /\ depRead' = [depRead EXCEPT ![m] = 1]
    /\ podNames' = [podNames EXCEPT ![m] = <<>>]

Exit(m) ==
    /\ Goto(m, "down")
    /\ crSeen' = [crSeen EXCEPT ![m] = 1]
    /\ depSeen' = [depSeen EXCEPT ![m] = 1]
    /\ podSeen' = [podSeen EXCEPT ![m] = 1]
    /\ queued' = [queued EXCEPT ![m] = FALSE]
    /\ later' = [later EXCEPT ![m] = FALSE]
    /\ Forget(m)
    /\ since' = [since EXCEPT ![m] = Len(depLog)]
    /\ UNCHANGED <<clusterVars, lease>>

(* mgr.Start returns "leader election lost" and main exits.                *)
StepDown(m) == Active(m) /\ lease # m /\ Exit(m) /\ UNCHANGED faults

Crash(m) == pc[m] # "down" /\ Fault /\ Exit(m)
----------------------------------------------------------------------------
(* Informers and the work queue.  Only the CR is watched by the controller *)
(* (For); the caches of Deployments and pods change without a reconcile.   *)

AdvanceTooFar(seen, m, log) ==
    /\ pc[m] # "down"
    /\ seen[m] <= Len(log)
    /\ seen' = [seen EXCEPT ![m] = @ + 1]

RelistAnywhere(seen, m, log) ==
    /\ pc[m] # "down"
    /\ seen[m] <= Len(log)
    /\ \E version \in DOMAIN log : seen' = [seen EXCEPT ![m] = version]

(* A watch delivers the versions in their order; one that breaks is taken  *)
(* up, or the objects are listed again, from the version it had reached.   *)
Advance(seen, m, log) ==
    /\ pc[m] # "down"
    /\ seen[m] < Len(log)
    /\ seen' = [seen EXCEPT ![m] = @ + 1]

SyncCr(m) ==
    /\ Advance(crSeen, m, crLog)
    /\ queued' = [queued EXCEPT ![m] = Active(m)]
    /\ UNCHANGED <<clusterVars, lease, pc, depSeen, podSeen, later, readVars, since, faults>>

SyncDep(m) ==
    /\ Advance(depSeen, m, depLog)
    /\ UNCHANGED <<clusterVars, lease, pc, crSeen, podSeen, queueVars, readVars, since, faults>>

SyncPods(m) ==
    /\ Advance(podSeen, m, podLog)
    /\ UNCHANGED <<clusterVars, lease, pc, crSeen, depSeen, queueVars, readVars, since, faults>>

(* A back-off or a RequeueAfter is over.                                   *)
Timer(m) ==
    /\ later[m]
    /\ later' = [later EXCEPT ![m] = FALSE]
    /\ queued' = [queued EXCEPT ![m] = TRUE]
    /\ UNCHANGED <<clusterVars, lease, pc, cacheVars, readVars, since, faults>>

(* The periodic resync of the CR informer (10 hours by default).           *)
Resync(m) ==
    /\ Active(m)
    /\ Exists(crLog[crSeen[m]])
    /\ queued' = [queued EXCEPT ![m] = TRUE]
    /\ UNCHANGED <<clusterVars, lease, pc, cacheVars, later, readVars, since, faults>>

(* A write that an old cache makes Reconcile repeat would go on for ever.  *)
(* Past the bound MaxVersions a reconcile waits for caches that are up to  *)
(* date.                                                                   *)
Bounded(m) ==
    \/ Len(depLog) < MaxVersions
    \/ crSeen[m] = Len(crLog) /\ depSeen[m] = Len(depLog)

(* The worker takes the key; an event from here on queues it again.        *)
Dequeue(m) ==
    /\ pc[m] = "idle"
    /\ queued[m]
    /\ Bounded(m)
    /\ queued' = [queued EXCEPT ![m] = FALSE]
    /\ Goto(m, "getCr")
    /\ UNCHANGED <<clusterVars, lease, cacheVars, later, readVars, since, faults>>
----------------------------------------------------------------------------
(* Reconcile, call by call.  It returns with or without a delayed retry.   *)

Return(m)  == Goto(m, "idle") /\ Forget(m) /\ UNCHANGED later
Requeue(m) == Goto(m, "idle") /\ Forget(m) /\ later' = [later EXCEPT ![m] = TRUE]

(* Any call may fail; every error path returns err.                        *)
CallFails(m) ==
    /\ pc[m] \in Calls
    /\ Fault
    /\ Requeue(m)
    /\ UNCHANGED <<clusterVars, lease, cacheVars, queued, since>>

GetCr(m) ==
    /\ pc[m] = "getCr"
    /\ IF Exists(crLog[crSeen[m]])
       THEN /\ crRead' = [crRead EXCEPT ![m] = crSeen[m]]
            /\ Goto(m, "getDeployment")
            /\ UNCHANGED <<later, depRead, podNames>>
       ELSE Return(m)
    /\ UNCHANGED <<clusterVars, lease, cacheVars, queued, since, faults>>

ScalesUpOnly(m, found) == found.replicas < MyCr(m).size
NeedsResize(m, found) == found.replicas # MyCr(m).size

GetDeployment(m) ==
    /\ pc[m] = "getDeployment"
    /\ depRead' = [depRead EXCEPT ![m] = depSeen[m]]
    /\ LET found == depLog[depSeen[m]]
       IN  IF ~Exists(found) THEN Goto(m, "create")
           ELSE IF NeedsResize(m, found) THEN Goto(m, "update") ELSE Goto(m, "listPods")
    /\ UNCHANGED <<clusterVars, lease, cacheVars, queueVars, crRead, podNames, since, faults>>

NewDeploymentFromTwoReads(m) ==
    [uid |-> Len(depLog) + 1, owner |-> MyCr(m).uid, replicas |-> Cr.size,
     image |-> AppImage, by |-> m, from |-> crRead[m], base |-> 0]
NewDeploymentWithoutOwner(m) ==
    [uid |-> Len(depLog) + 1, owner |-> 0, replicas |-> MyCr(m).size,
     image |-> AppImage, by |-> m, from |-> crRead[m], base |-> 0]

(* deploymentForGolangappoperatored                                        *)
NewDeployment(m) ==
    [uid |-> Len(depLog) + 1, owner |-> MyCr(m).uid, replicas |-> MyCr(m).size,
     image |-> AppImage, by |-> m, from |-> crRead[m], base |-> 0]

CreateAllowed(m) == ~Exists(Dep) /\ ValidReplicas(MyCr(m).size)

(* Success (Requeue: true) and failure (err) both put the key back after   *)
(* the rate limiter's delay, so a success whose answer is lost is here too.*)
CreateDeployment(m) ==
    /\ pc[m] = "create"
    /\ depLog' = IF CreateAllowed(m) THEN Append(depLog, NewDeployment(m)) ELSE depLog
    /\ Requeue(m)
    /\ UNCHANGED <<crLog, podLog, ops, lease, cacheVars, queued, since, faults>>

ResizedAndAdopted(m) ==
    [MyDep(m) EXCEPT !.replicas = MyCr(m).size, !.owner = MyCr(m).uid, !.by = m,
                     !.from = crRead[m], !.base = depRead[m]]

(* Whoever created it: nothing looks at the owner of what was found.       *)
ResizedDeployment(m) ==
    [MyDep(m) EXCEPT !.replicas = MyCr(m).size, !.by = m,
                     !.from = crRead[m], !.base = depRead[m]]

DepStillThere(m) == Exists(Dep)

(* The update carries the resourceVersion that was read.                   *)
DepUnchanged(m) == depRead[m] = Len(depLog)
UpdateAllowed(m) == DepUnchanged(m) /\ ValidReplicas(MyCr(m).size)

(* Retried in a minute after a success, with back-off after an error.      *)
UpdateDeployment(m) ==
    /\ pc[m] = "update"
    /\ depLog' = IF UpdateAllowed(m) THEN Append(depLog, ResizedDeployment(m)) ELSE depLog
    /\ Requeue(m)
    /\ UNCHANGED <<crLog, podLog, ops, lease, cacheVars, queued, since, faults>>

(* The cache lists pods in no particular order.  Past the bound            *)
(* MaxVersions the same pods come in the order of the CR's status.         *)
Listings(m) ==
    {s \in SetToSeqs(Listed(podLog[podSeen[m]])) :
        \/ Len(crLog) < MaxVersions
        \/ Range(s) = Range(MyCr(m).nodes) => s = MyCr(m).nodes}

SameLength(m, listing) == Len(listing) = Len(MyCr(m).nodes)

(* reflect.DeepEqual compares the two lists element by element.            *)
StatusCurrent(m, listing) == listing = MyCr(m).nodes

ListPods(m) ==
    /\ pc[m] = "listPods"
    /\ \E listing \in Listings(m) :
         IF StatusCurrent(m, listing)
         THEN Return(m)
         ELSE /\ podNames' = [podNames EXCEPT ![m] = listing]
              /\ Goto(m, "updateStatus")
              /\ UNCHANGED <<later, crRead, depRead>>
    /\ UNCHANGED <<clusterVars, lease, cacheVars, queued, since, faults>>

CrStillThere(m) == Exists(Cr)
CrUnchanged(m) == crRead[m] = Len(crLog)
StatusAllowed(m) == CrUnchanged(m) /\ ValidNodes(podNames[m])
NewStatusAppends(m) == [MyCr(m) EXCEPT !.nodes = @ \o podNames[m]]
NewStatus(m) == [MyCr(m) EXCEPT !.nodes = podNames[m]]

(* The answer to a successful write may be lost: Reconcile returns an err. *)
UpdateStatus(m) ==
    /\ pc[m] = "updateStatus"
    /\ IF StatusAllowed(m)
       THEN /\ crLog' = Append(crLog, NewStatus(m))
            /\ \/ Return(m) /\ UNCHANGED faults
               \/ Requeue(m) /\ Fault
       ELSE Requeue(m) /\ UNCHANGED <<crLog, faults>>
    /\ UNCHANGED <<depLog, podLog, ops, lease, cacheVars, queued, since>>

Reconcile(m) ==
    \/ GetCr(m)
    \/ GetDeployment(m)
    \/ CreateDeployment(m)
    \/ UpdateDeployment(m)
    \/ ListPods(m)
    \/ UpdateStatus(m)
----------------------------------------------------------------------------
Manager(m) ==
    \/ Boot(m) \/ Lead(m) \/ StepDown(m) \/ Crash(m)
    \/ SyncCr(m) \/ SyncDep(m) \/ SyncPods(m)
    \/ Timer(m) \/ Resync(m) \/ Dequeue(m)
    \/ CallFails(m) \/ Reconcile(m)

Next ==
    \/ ClusterNext /\ UNCHANGED procVars
    \/ LeaseRunsOut
    \/ LoseLease
    \/ \E m \in Procs : Manager(m)

Spec == Init /\ [][Next]_vars

(* Every process gets its turn: a goroutine that can run does, a watch     *)
(* delivers, a timer fires.  No fairness for faults and users.             *)
ManagerFairness(m) ==
    /\ WF_vars(Boot(m)) /\ WF_vars(Lead(m)) /\ WF_vars(StepDown(m))
    /\ WF_vars(SyncCr(m)) /\ WF_vars(SyncDep(m)) /\ WF_vars(SyncPods(m))
    /\ WF_vars(Timer(m)) /\ WF_vars(Resync(m)) /\ WF_vars(Dequeue(m))
    /\ WF_vars(Reconcile(m))

FairSpec ==
    /\ Spec
    /\ ClusterFairness
    /\ WF_vars(LeaseRunsOut)
    /\ \A m \in Procs : ManagerFairness(m)
----------------------------------------------------------------------------
(* Properties.                                                             *)

LogsOK ==
    /\ crLog \in Seq(CrVersion) /\ crLog # <<>>
    /\ depLog \in Seq(DepVersion) /\ depLog # <<>>
    /\ podLog \in Seq([Pods -> Nat]) /\ podLog # <<>>

IndexesOK ==
    /\ crSeen \in [Procs -> 1..Len(crLog)] /\ crRead \in [Procs -> 1..Len(crLog)]
    /\ depSeen \in [Procs -> 1..Len(depLog)] /\ depRead \in [Procs -> 1..Len(depLog)]
    /\ podSeen \in [Procs -> 1..Len(podLog)] /\ since \in [Procs -> 1..Len(depLog)]

ProcsOK ==
    /\ ops \in Nat /\ faults \in Nat
    /\ lease \in Procs \cup {NoOne}
    /\ pc \in [Procs -> States]
    /\ queued \in [Procs -> BOOLEAN] /\ later \in [Procs -> BOOLEAN]
    /\ podNames \in [Procs -> Seq(Pods)]

(* The logs only hold well-formed versions, and no cache or local variable *)
(* of Reconcile refers to a version that does not exist (yet).             *)
TypeOK == LogsOK /\ IndexesOK /\ ProcsOK

WrittenByOperator(version) == Exists(version) /\ version.by # Other

(* However many processes believe they lead, and however old their caches  *)
(* are, a Deployment an operator writes replaces exactly the version the   *)
(* operator read: it creates where there is none and never overwrites a    *)
(* concurrent scale, another process's update or a re-created Deployment.  *)
NoLostUpdate ==
    \A i \in 2..Len(depLog) :
        WrittenByOperator(depLog[i]) =>
            IF depLog[i].base = 0
            THEN ~Exists(depLog[i-1])
            ELSE depLog[i].base = i - 1 /\ depLog[i].uid = depLog[i-1].uid

(* In one life a process never goes back to an older version of the CR:    *)
(* over retries, lost leases, cache lag and broken watches, the CR versions *)
(* its writes to the Deployment were computed from only grow.  A process   *)
(* that was started again may go back, and so may a second one that takes  *)
(* the lease over, until its cache catches up: then Converges holds.       *)
NeverBackwards ==
    \A m \in Procs : \A j \in (since[m] + 1)..Len(depLog) : \A i \in (since[m] + 1)..j :
        /\ WrittenByOperator(depLog[i]) /\ depLog[i].by = m
        /\ WrittenByOperator(depLog[j]) /\ depLog[j].by = m
        => depLog[i].from <= depLog[j].from

(* Whatever an operator writes to the Deployment was asked for by the user *)
(* in one and the same version of a CR that existed, and a Deployment it   *)
(* creates belongs to that CR, so that it dies with it.                    *)
WritesWhatWasAsked ==
    \A i \in 1..Len(depLog) :
        LET written == depLog[i]
            asked   == crLog[written.from]
        IN  WrittenByOperator(written) =>
                /\ written.from \in 1..Len(crLog)
                /\ Exists(asked)
                /\ written.replicas = asked.size
                /\ written.base = 0 => written.owner = asked.uid

(* Reporting status never touches the user's half of the CR: only a step   *)
(* of the user changes which CR there is, its size or its image, also when *)
(* the user edits it while Reconcile works on its copy.                    *)
UserOwnsSpec ==
    [][ops' = ops => Cr'.uid = Cr.uid /\ Cr'.size = Cr.size /\ Cr'.image = Cr.image]_vars

(* A status that was ever reported lists, once each, the pods that ran at  *)
(* one moment, never a mixture of two moments.                             *)
StatusIsASnapshot ==
    \A i \in 1..Len(crLog) :
        crLog[i].nodes # <<>> =>
            \E k \in 1..Len(podLog) : crLog[i].nodes \in SetToSeqs(Listed(podLog[k]))

(* When changes and faults cease, the Deployment has the size the CR asks  *)
(* for and belongs to it, unless somebody else created it (a negative size *)
(* is refused by the API server).                                          *)
Converges ==
    <>[](Exists(Cr) /\ ValidReplicas(Cr.size) =>
            Exists(Dep) /\ Dep.replicas = Cr.size /\ (Dep.owner = Cr.uid \/ Foreign(Dep)))

(* When the CR is gone for good so is the Deployment, also one that a      *)
(* Reconcile created after the CR was deleted, unless it is not its own.   *)
DeletedForGood == <>[](~Exists(Cr) => ~Exists(Dep) \/ Foreign(Dep))

(* The operator resizes a Deployment it did not create, but never makes it *)
(* the CR's: only a step of the user takes it away, and not the garbage    *)
(* collector after the CR.                                                 *)
ForeignSurvives == [][Foreign(Dep) /\ ops' = ops => Exists(Dep')]_vars

(* Operator implements the promise of module DesiredState: seen from the   *)
(* API server, nothing that lags, retries, crashes or runs twice shows.    *)
Desired == INSTANCE DesiredState WITH
    cr    <- [uid |-> Cr.uid, size |-> Cr.size],
    dep   <- [present |-> Exists(Dep), owner |-> Dep.owner, replicas |-> Dep.replicas],
    hand  <- IF Dep.by = Other THEN "other" ELSE "operator",
    asked <- {[uid |-> crLog[i].uid, size |-> crLog[i].size] :
                 i \in {k \in 1..Len(crLog) : Exists(crLog[k])}}

KeepsPromise == Desired!Spec

(* The status of a CR that asks for pods ends up naming exactly the pods   *)
(* there are.                                                              *)
StatusConverges ==
    <>[](Exists(Cr) /\ Cr.size > 0 => Range(Cr.nodes) = Listed(Pod))

----------------------------------------------------------------------------
(* What the repository says and the code does not do.                      *)

(* "GolangappoperatorStatus defines the observed state"                    *)
(* (golangappoperator_types.go:40): with size 0 the list of nodes ends up  *)
(* empty.  An empty list of pods is sent as null, which the CRD refuses.   *)
StatusCleared == <>[](Exists(Cr) /\ Cr.size = 0 => Cr.nodes = <<>>)

(* "Update status.Nodes if needed" (golangappoperator_controller.go:128):  *)
(* a step that is not the user's changes the list of nodes only to name    *)
(* other pods.                                                             *)
StatusOnlyIfNeeded ==
    [][ops' = ops /\ crLog' # crLog => Range(Cr'.nodes) # Range(Cr.nodes)]_vars
============================================================================
