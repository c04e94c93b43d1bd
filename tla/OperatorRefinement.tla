------------------------- MODULE OperatorRefinement ------------------------
(***************************************************************************)
(* Proof that module Operator implements module DesiredState: seen through *)
(* the newest versions of the CR and the Deployment, every step is a step  *)
(* of the promise or no step at all.                                       *)
(***************************************************************************)
EXTENDS OperatorSafetyProofs

Request(version) == [uid |-> version.uid, size |-> version.size]
Requests == {Request(crLog[i]) : i \in {k \in 1..Len(crLog) : Exists(crLog[k])}}

LEMMA RequestsAreAsked ==
    Requests = {[uid |-> crLog[i].uid, size |-> crLog[i].size] :
                   i \in {k \in 1..Len(crLog) : Exists(crLog[k])}}
  BY DEF Requests, Request

(* A step appends to at most one of the two logs. *)
CrWrote == \E v \in CrVersion : crLog' = Append(crLog, v) /\ (v = NoCr \/ Exists(v))

LEMMA CrStep ==
    ASSUME SafetyInv, [Next]_vars
    PROVE  crLog' = crLog \/ (CrWrote /\ depLog' = depLog)
  <1>1. TypeOK /\ HandsOK
    BY DEF SafetyInv
  <1>2. /\ Cr \in CrVersion /\ Len(crLog) \in Nat
        /\ crLog' = crLog \/ \E v \in CrVersion : crLog' = Append(crLog, v)
    BY <1>1, ObjectsTyped, StepGrowsLogs DEF LogsGrow, CrGrows
  <1>3. CASE \/ LeaseRunsOut \/ LoseLease \/ UNCHANGED vars
    BY <1>3 DEF LeaseRunsOut, LoseLease, vars, clusterVars
  <1>4. CASE ClusterNext
    <2>1. ASSUME NEW n \in Sizes, NEW image \in Images, UserCreate(n, image)
          PROVE  CrWrote /\ depLog' = depLog
      <3> DEFINE v == [uid |-> Len(crLog) + 1, size |-> n, image |-> image, nodes |-> <<>>]
      <3>1. <<>> \in Seq(Pods)
        BY EmptySeq
      <3>2. v \in CrVersion /\ Exists(v)
        BY <1>2, <3>1, SizesAssumption DEF CrVersion, Exists
      <3> QED BY <2>1, <3>2 DEF UserCreate, CrWrote
    <2>2. ASSUME NEW n \in Sizes, UserResize(n)
          PROVE  CrWrote /\ depLog' = depLog
      <3> DEFINE v == [Cr EXCEPT !.size = n]
      <3>1. v \in CrVersion /\ v.uid = Cr.uid
        BY <1>2, SizesAssumption DEF CrVersion
      <3> QED BY <2>2, <3>1 DEF UserResize, CrWrote, Exists
    <2>3. CASE UserDelete
      <3>1. <<>> \in Seq(Pods)
        BY EmptySeq
      <3>2. NoCr \in CrVersion
        BY <3>1 DEF CrVersion, NoCr
      <3> QED BY <2>3, <3>2 DEF UserDelete, CrWrote
    <2>4. CASE \/ \E n \in Sizes : Scale(n) \/ Restore(n)
               \/ DropDeployment \/ CollectGarbage
               \/ \E p \in Pods : StartPod(p) \/ StopPod(p) \/ LosePod(p)
      BY <2>4 DEF Scale, Restore, DropDeployment, CollectGarbage, StartPod, StopPod, LosePod
    <2> QED BY <1>4, <2>1, <2>2, <2>3, <2>4 DEF ClusterNext
  <1>5. ASSUME NEW m \in Procs, Manager(m)
        PROVE  crLog' = crLog \/ (CrWrote /\ depLog' = depLog)
    <2>1. CASE UpdateStatus(m)
      <3>1. MyCr(m) \in CrVersion /\ podNames[m] \in Seq(Pods) /\ Exists(MyCr(m))
        BY <1>1, <2>1, ObjectsTyped DEF TypeOK, ProcsOK, HandsOK, HoldsCr, UpdateStatus, Calls
      <3>2. NewStatus(m) \in CrVersion /\ NewStatus(m).uid = MyCr(m).uid
        BY <3>1 DEF NewStatus, CrVersion
      <3>3. NewStatus(m) \in CrVersion /\ Exists(NewStatus(m))
        BY <3>1, <3>2 DEF Exists
      <3> QED BY <2>1, <3>3 DEF UpdateStatus, CrWrote
    <2>2. CASE \/ Boot(m) \/ Lead(m) \/ StepDown(m) \/ Crash(m)
               \/ SyncCr(m) \/ SyncDep(m) \/ SyncPods(m)
               \/ Timer(m) \/ Resync(m) \/ Dequeue(m) \/ CallFails(m)
               \/ GetCr(m) \/ GetDeployment(m) \/ ListPods(m)
               \/ CreateDeployment(m) \/ UpdateDeployment(m)
      BY <2>2 DEF Boot, Lead, StepDown, Crash, Exit, SyncCr, SyncDep, SyncPods, Timer, Resync,
                  Dequeue, CallFails, GetCr, GetDeployment, ListPods, CreateDeployment,
                  UpdateDeployment, clusterVars
    <2> QED BY <1>5, <2>1, <2>2 DEF Manager, Reconcile
  <1> QED BY <1>3, <1>4, <1>5 DEF Next

LEMMA AppendedRequests ==
    ASSUME TypeOK, NEW v \in CrVersion, crLog' = Append(crLog, v)
    PROVE  /\ Cr' = v
           /\ Exists(v) => Requests' = Requests \cup {Request(v)}
           /\ ~Exists(v) => Requests' = Requests
  <1>1. /\ Cr' = v
        /\ Len(crLog) \in Nat /\ Len(crLog') = Len(crLog) + 1
        /\ \A i \in 1..Len(crLog) : crLog'[i] = crLog[i]
        /\ crLog'[Len(crLog) + 1] = v
    BY AppendToLog, ObjectsTyped DEF TypeOK, LogsOK, Cr
  <1>2. 1..Len(crLog') = 1..Len(crLog) \cup {Len(crLog) + 1}
    BY <1>1
  <1>3. CASE Exists(v)
    BY <1>1, <1>2, <1>3 DEF Requests, Exists
  <1>4. CASE ~Exists(v)
    BY <1>1, <1>2, <1>4 DEF Requests, Exists
  <1> QED BY <1>1, <1>3, <1>4

LEMMA AppendedIsNewest ==
    ASSUME TypeOK, NEW v \in DepVersion, depLog' = Append(depLog, v)
    PROVE  Dep' = v
  <1>1. Dep' = Last(depLog')
    BY DEF Dep
  <1>2. Last(Append(depLog, v)) = v
    BY AppendToLog DEF TypeOK, LogsOK
  <1> QED BY <1>1, <1>2

(* The Deployment as the promise sees it. *)
Shown(version) ==
    [present |-> Exists(version), owner |-> version.owner, replicas |-> version.replicas]

LEMMA ShownDeployment ==
    ASSUME NEW v, Exists(v)
    PROVE  Shown(v) = Desired!Deployment(v.owner, v.replicas)
  <1>1. Exists(v) = TRUE
    BY DEF Exists
  <1> QED BY <1>1 DEF Shown, Desired!Deployment

LEMMA RefineInit == Init => Desired!Init
  <1> SUFFICES ASSUME Init
               PROVE  Desired!Init
    OBVIOUS
  <1>1. /\ crLog = <<NoCr>> /\ Cr = NoCr /\ Len(crLog) = 1 /\ crLog[1] = NoCr
        /\ depLog = <<NoDep>> /\ Dep = NoDep
    BY DEF Init, ClusterInit, Cr, Dep, Last
  <1>2. {k \in 1..Len(crLog) : Exists(crLog[k])} = {}
    BY <1>1 DEF Exists, NoCr
  <1> QED BY <1>1, <1>2 DEF Desired!Init, Desired!NoCr, Desired!NoDep, NoCr, NoDep, Exists

LEMMA RefineStep == SafetyInv /\ [Next]_vars => [Desired!Next]_(Desired!desiredVars)
  <1> SUFFICES ASSUME SafetyInv, [Next]_vars
               PROVE  [Desired!Next]_(Desired!desiredVars)
    OBVIOUS
  <1>1. TypeOK /\ HandsOK
    BY DEF SafetyInv
  <1>2. Requests' = {[uid |-> crLog'[i].uid, size |-> crLog'[i].size] :
                       i \in {k \in 1..Len(crLog') : Exists(crLog'[k])}}
    BY DEF Requests, Request, Exists
  <1>3. CASE depLog' = depLog /\ crLog' = crLog
    <2>1. Cr' = Cr /\ Dep' = Dep
      BY <1>3 DEF Cr, Dep
    <2> QED BY <1>3, <2>1 DEF Desired!desiredVars, Exists
  <1>4. CASE CrWrote /\ depLog' = depLog
    <2>1. PICK v \in CrVersion : crLog' = Append(crLog, v) /\ (v = NoCr \/ Exists(v))
      BY <1>4 DEF CrWrote
    <2>2. Dep' = Dep
      BY <1>4 DEF Dep
    <2>3. Cr' = v
      BY <1>1, <2>1, AppendedRequests
    <2>4. CASE Exists(v)
      <3>1. Requests' = Requests \cup {Request(v)}
        BY <1>1, <2>1, <2>4, AppendedRequests
      <3>2. Desired!Ask
        BY <1>2, <2>2, <2>3, <2>4, <3>1, RequestsAreAsked DEF Desired!Ask, Exists, Request
      <3> QED BY <3>2 DEF Desired!Next
    <2>5. CASE v = NoCr
      <3>1. Requests' = Requests
        BY <1>1, <2>1, <2>5, AppendedRequests DEF Exists, NoCr
      <3>2. Desired!Withdraw
        BY <1>2, <2>2, <2>3, <2>5, <3>1, RequestsAreAsked
           DEF Desired!Withdraw, Desired!NoCr, Exists, NoCr
      <3> QED BY <3>2 DEF Desired!Next
    <2> QED BY <2>1, <2>4, <2>5
  <1>5. ASSUME crLog' = crLog
        PROVE  Cr' = Cr /\ Requests' = Requests
    BY <1>5 DEF Cr, Requests, Exists
  <1>6. ASSUME NEW v \in DepVersion, depLog' = Append(depLog, v)
        PROVE  Dep' = v
    BY <1>1, <1>6, AppendedIsNewest
  <1>7. CASE OtherWrote
    <2>1. Cr' = Cr /\ Requests' = Requests
      BY <1>5, <1>7 DEF OtherWrote
    <2>2. Shown(Dep).present = Exists(Dep) /\ Shown(Dep).owner = Dep.owner
      BY DEF Shown
    <2>3. ASSUME NEW v \in DepVersion, depLog' = Append(depLog, v), v.by = Other, Exists(Dep),
                 Shown(v) = Desired!NoDep
                   \/ Shown(v) = Desired!Deployment(Shown(Dep).owner, Shown(v).replicas)
          PROVE  Desired!Interfere
      BY <1>2, <1>6, <2>1, <2>2, <2>3, RequestsAreAsked DEF Desired!Interfere, Shown
    <2>4. ASSUME depLog' = Append(depLog, NoDep), NoDep \in DepVersion, Exists(Dep)
          PROVE  Desired!Interfere
      BY <2>3, <2>4 DEF Desired!NoDep, NoDep, Exists, Shown
    <2>5. ASSUME NEW v \in DepVersion, depLog' = Append(depLog, v), v.by = Other,
                 Exists(Dep), v.uid = Dep.uid, v.owner = Dep.owner
          PROVE  Desired!Interfere
      <3>1. Exists(v)
        BY <2>5 DEF Exists
      <3>2. Shown(v).replicas = v.replicas
        BY DEF Shown
      <3>3. Shown(v) = Desired!Deployment(Shown(Dep).owner, Shown(v).replicas)
        BY <2>2, <2>5, <3>1, <3>2, ShownDeployment
      <3> QED BY <2>3, <2>5, <3>3
    <2>6. ASSUME NEW v \in DepVersion, depLog' = Append(depLog, v), v.by = Other,
                 ~Exists(Dep), v.uid = Len(depLog) + 1, v.owner = 0
          PROVE  Desired!Intrude
      <3>1. Exists(v)
        BY <1>1, <2>6, ObjectsTyped DEF Exists
      <3>2. Shown(v).replicas = v.replicas
        BY DEF Shown
      <3>3. Shown(v) = Desired!Deployment(0, Shown(v).replicas)
        BY <2>6, <3>1, <3>2, ShownDeployment
      <3> QED BY <1>2, <1>6, <2>1, <2>2, <2>6, <3>3, RequestsAreAsked DEF Desired!Intrude, Shown
    <2>7. Desired!Interfere \/ Desired!Intrude
      BY <1>7, <2>4, <2>5, <2>6 DEF OtherWrote
    <2> QED BY <2>7 DEF Desired!Next
  <1>8. ASSUME NEW m \in Procs, NEW v \in DepVersion, OperatorWrote(m, v)
        PROVE  Desired!Next
    <2>1. /\ depLog' = Append(depLog, v) /\ v.by = m
          /\ v.replicas = MyCr(m).size
          /\ Cr' = Cr /\ Requests' = Requests
      BY <1>5, <1>8 DEF OperatorWrote
    <2>2. Dep' = v
      BY <1>6, <2>1
    <2>3. Request(MyCr(m)) \in Requests
      BY <1>1, <1>8 DEF OperatorWrote, HandsOK, HoldsCr, Calls, TypeOK, IndexesOK, MyCr, Requests
    <2>4. m # Other
      BY OtherAssumption
    <2>5. CASE v.base = 0
      <3>1. ~Exists(Dep) /\ Exists(v) /\ v.owner = MyCr(m).uid
        BY <1>8, <2>5 DEF OperatorWrote
      <3>2. Shown(v) = Desired!Deployment(Request(MyCr(m)).uid, Request(MyCr(m)).size)
        BY <2>1, <3>1, ShownDeployment DEF Request
      <3>3. \E request \in Requests : Shown(v) = Desired!Deployment(request.uid, request.size)
        BY <2>3, <3>2
      <3>4. Desired!Provide
        BY <1>2, <2>1, <2>2, <2>4, <3>1, <3>3, RequestsAreAsked DEF Desired!Provide, Shown
      <3> QED BY <3>4 DEF Desired!Next
    <2>6. CASE v.base # 0
      <3>1. Exists(Dep) /\ v.uid = Dep.uid /\ v.owner = Dep.owner
        BY <1>8, <2>6 DEF OperatorWrote
      <3>2. Exists(v)
        BY <3>1 DEF Exists
      <3>3. Shown(Dep).owner = Dep.owner
        BY DEF Shown
      <3>4. Shown(v) = Desired!Deployment(Shown(Dep).owner, Request(MyCr(m)).size)
        BY <2>1, <3>1, <3>2, <3>3, ShownDeployment DEF Request
      <3>5. \E request \in Requests :
              Shown(v) = Desired!Deployment(Shown(Dep).owner, request.size)
        BY <2>3, <3>4
      <3>6. Desired!Resize
        BY <1>2, <2>1, <2>2, <2>4, <3>1, <3>5, RequestsAreAsked DEF Desired!Resize, Shown
      <3> QED BY <3>6 DEF Desired!Next
    <2> QED BY <2>5, <2>6
  <1>9. depLog' = depLog \/ OtherWrote \/ \E m \in Procs, v \in DepVersion : OperatorWrote(m, v)
    BY <1>1, DepStep
  <1>10. crLog' = crLog \/ (CrWrote /\ depLog' = depLog)
    BY CrStep
  <1> QED BY <1>3, <1>4, <1>7, <1>8, <1>9, <1>10

(* For any number of processes, pods, changes and faults, the operator     *)
(* with its caches, queues and retries keeps the promise of DesiredState.  *)
THEOREM OperatorKeepsPromise == Spec => KeepsPromise
  <1>1. Spec => Desired!Init /\ [][Desired!Next]_(Desired!desiredVars)
    BY RefineInit, RefineStep, SafetyHolds, PTL DEF Spec
  <1> QED BY <1>1 DEF KeepsPromise, Desired!Spec
============================================================================
