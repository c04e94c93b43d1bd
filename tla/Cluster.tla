------------------------------ MODULE Cluster ------------------------------
(***************************************************************************)
(* The Kubernetes API server as the operator of golang-app-operator/ sees  *)
(* it, for ONE custom resource (CR) of kind Golangappoperator, the one     *)
(* Deployment of the same name and the pods that carry the CR's labels,    *)
(* together with everybody who writes them and is not the operator: the    *)
(* user, the garbage collector and the Deployment controller.              *)
(*                                                                         *)
(* Each kind of object is a log of its versions.  The newest version is    *)
(* the stored object, its index is its resourceVersion, and an informer    *)
(* cache (module Operator) is an index that lags behind the log.           *)
(***************************************************************************)
EXTENDS Integers, Sequences, FiniteSets, SequencesExt

CONSTANTS
    Sizes,      \* values a user may write to spec.size (an int32 with no minimum)
    Images,     \* values a user may write to spec.image
    Pods,       \* pod names
    Procs,      \* operator processes
    Other,      \* "not an operator process", as the author of a version
    MaxOps,     \* bound: changes the user and the nodes make in a behaviour
    MaxVersions \* bound: versions of an object before caches must keep up

ASSUME SizesAssumption == Sizes \subseteq Int
ASSUME PodsAssumption == IsFiniteSet(Pods)
ASSUME OtherAssumption == Other \notin Procs
ASSUME BoundsAssumption == MaxOps \in Nat /\ MaxVersions \in Nat

VARIABLES
    crLog,   \* versions of the CR
    depLog,  \* versions of the Deployment
    podLog,  \* versions of the pod list: for each name the Deployment it runs for
    ops      \* how many of MaxOps are used up

clusterVars == <<crLog, depLog, podLog, ops>>
----------------------------------------------------------------------------
(* Objects.  A uid is the log index at which the object was created; 0     *)
(* stands for "there is no object", and NoCr and NoDep are tombstones.     *)

AppImage   == "eks-cluster/golang-app:v1"

CrVersion  == [uid : Nat, size : Int, image : Images \cup {AppImage}, nodes : Seq(Pods)]
NoCr       == [uid |-> 0, size |-> 0, image |-> AppImage, nodes |-> <<>>]

(* The last three fields are history: who wrote the version and, when an   *)
(* operator did, from which version of the CR and over which version of    *)
(* the Deployment it was computed.                                         *)
DepVersion == [uid : Nat, owner : Nat, replicas : Int, image : {AppImage},
               by : Procs \cup {Other}, from : Nat, base : Nat]
NoDep      == [uid |-> 0, owner |-> 0, replicas |-> 0, image |-> AppImage,
               by |-> Other, from |-> 0, base |-> 0]

Exists(object) == object.uid # 0

Cr  == Last(crLog)
Dep == Last(depLog)
Pod == Last(podLog)

(* A Deployment that no operator created. *)
Foreign(version) == Exists(version) /\ depLog[version.uid].by = Other

(* What the API server refuses: a Deployment with a negative replica count *)
(* and a status whose required, non-nullable array "nodes" is null.        *)
ValidReplicas(n)  == n >= 0
ValidNodes(nodes) == nodes # <<>>

Listed(version) == {p \in Pods : version[p] # 0}
OwnPods == {p \in Pods : Exists(Dep) /\ Pod[p] = Dep.uid}

ClusterInit ==
    /\ crLog = <<NoCr>>
    /\ depLog = <<NoDep>>
    /\ podLog = <<[p \in Pods |-> 0]>>
    /\ ops = 0
----------------------------------------------------------------------------
(* The user applies, edits and deletes the CR (config/samples), or works   *)
(* on the Deployment behind the operator's back.                           *)

Spend == ops < MaxOps /\ ops' = ops + 1

UserCreate(n, image) ==
    /\ ~Exists(Cr)
    /\ Spend
    /\ crLog' = Append(crLog, [uid |-> Len(crLog) + 1, size |-> n, image |-> image,
                              nodes |-> <<>>])
    /\ UNCHANGED <<depLog, podLog>>

UserResize(n) ==
    /\ Exists(Cr)
    /\ Cr.size # n
    /\ Spend
    /\ crLog' = Append(crLog, [Cr EXCEPT !.size = n])
    /\ UNCHANGED <<depLog, podLog>>

UserDelete ==
    /\ Exists(Cr)
    /\ Spend
    /\ crLog' = Append(crLog, NoCr)
    /\ UNCHANGED <<depLog, podLog>>

(* kubectl scale, an autoscaler, or (n unchanged) any write that only      *)
(* moves the resourceVersion on.                                           *)
Scale(n) ==
    /\ Exists(Dep)
    /\ ValidReplicas(n)
    /\ Spend
    /\ depLog' = Append(depLog, [Dep EXCEPT !.replicas = n, !.by = Other,
                                            !.from = 0, !.base = 0])
    /\ UNCHANGED <<crLog, podLog>>

(* A Deployment of that name, with the same labels and without an owner,   *)
(* is restored from a backup or applied by hand.                           *)
Restore(n) ==
    /\ ~Exists(Dep)
    /\ ValidReplicas(n)
    /\ Spend
    /\ depLog' = Append(depLog, [NoDep EXCEPT !.uid = Len(depLog) + 1, !.replicas = n])
    /\ UNCHANGED <<crLog, podLog>>

DropDeployment ==
    /\ Exists(Dep)
    /\ Spend
    /\ depLog' = Append(depLog, NoDep)
    /\ UNCHANGED <<crLog, podLog>>

(* The garbage collector removes a Deployment whose owner is gone; it asks *)
(* the API server itself whether the owner's uid still exists.             *)
CollectGarbage ==
    /\ Exists(Dep)
    /\ Dep.owner # 0
    /\ Dep.owner # Cr.uid
    /\ depLog' = Append(depLog, NoDep)
    /\ UNCHANGED <<crLog, podLog, ops>>
----------------------------------------------------------------------------
(* The Deployment controller keeps as many pods of the current Deployment  *)
(* as it asks for; pods of an earlier Deployment disappear one by one.     *)

StartPod(p) ==
    /\ Exists(Dep)
    /\ Pod[p] = 0
    /\ Cardinality(OwnPods) < Dep.replicas
    /\ podLog' = Append(podLog, [Pod EXCEPT ![p] = Dep.uid])
    /\ UNCHANGED <<crLog, depLog, ops>>

StopPod(p) ==
    /\ Pod[p] # 0
    /\ p \in OwnPods => Cardinality(OwnPods) > Dep.replicas
    /\ podLog' = Append(podLog, [Pod EXCEPT ![p] = 0])
    /\ UNCHANGED <<crLog, depLog, ops>>

(* A node dies or drains and takes the pod with it. *)
LosePod(p) ==
    /\ Pod[p] # 0
    /\ Spend
    /\ podLog' = Append(podLog, [Pod EXCEPT ![p] = 0])
    /\ UNCHANGED <<crLog, depLog>>

ClusterNext ==
    \/ \E n \in Sizes, image \in Images : UserCreate(n, image)
    \/ \E n \in Sizes : UserResize(n) \/ Scale(n) \/ Restore(n)
    \/ UserDelete
    \/ DropDeployment
    \/ CollectGarbage
    \/ \E p \in Pods : StartPod(p) \/ StopPod(p) \/ LosePod(p)

(* Kubernetes' own controllers do not stop; users need never act again. *)
ClusterFairness ==
    /\ WF_clusterVars(CollectGarbage)
    /\ WF_clusterVars(\E p \in Pods : StartPod(p))
    /\ WF_clusterVars(\E p \in Pods : StopPod(p))
============================================================================
