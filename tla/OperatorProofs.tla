--------------------------- MODULE OperatorProofs --------------------------
(***************************************************************************)
(* Proofs about module Operator for any number of processes, pods, sizes,  *)
(* changes and faults.                                                     *)
(***************************************************************************)
EXTENDS Operator, SequenceTheorems, FiniteSetTheorems, TLAPS

(* What appending to a log does to its versions. *)
LEMMA AppendToLog ==
    ASSUME NEW S, NEW log \in Seq(S), NEW e \in S
    PROVE  /\ Append(log, e) \in Seq(S)
           /\ Append(log, e) # <<>>
           /\ Len(Append(log, e)) = Len(log) + 1
           /\ \A i \in 1..Len(log) : Append(log, e)[i] = log[i]
           /\ Append(log, e)[Len(log) + 1] = e
           /\ Last(Append(log, e)) = e
  BY AppendProperties DEF Last

(* The newest version of a log that is not empty is one of its versions. *)
LEMMA LastOfLog ==
    ASSUME NEW S, NEW log \in Seq(S), log # <<>>
    PROVE  /\ Len(log) \in Nat /\ Len(log) >= 1
           /\ Last(log) = log[Len(log)]
           /\ Last(log) \in S
  <1>1. Len(log) \in Nat /\ Len(log) >= 1
    BY EmptySeq, LenProperties
  <1>2. log[Len(log)] \in S
    BY <1>1, ElementOfSeq
  <1> QED BY <1>1, <1>2 DEF Last

(* An enumeration of a set of pods is a sequence of pods. *)
LEMMA ListingIsSeq ==
    ASSUME NEW S \in SUBSET Pods, NEW s \in SetToSeqs(S)
    PROVE  s \in Seq(Pods)
  <1>1. IsFiniteSet(S)
    BY PodsAssumption, FS_Subset
  <1>2. Cardinality(S) \in Nat
    BY <1>1, FS_CardinalityType
  <1>3. s \in [1..Cardinality(S) -> Pods]
    BY DEF SetToSeqs
  <1> QED BY <1>2, <1>3, SeqDef
----------------------------------------------------------------------------
(* Type correctness.                                                       *)

(* The objects that are stored, and those in Reconcile's hands.            *)
LEMMA ObjectsTyped ==
    ASSUME TypeOK
    PROVE  /\ Cr \in CrVersion /\ Dep \in DepVersion /\ Pod \in [Pods -> Nat]
           /\ Len(crLog) \in Nat \ {0} /\ Len(depLog) \in Nat \ {0} /\ Len(podLog) \in Nat \ {0}
           /\ Cr = crLog[Len(crLog)] /\ Dep = depLog[Len(depLog)]
           /\ \A m \in Procs : MyCr(m) \in CrVersion /\ MyDep(m) \in DepVersion
  <1>1. /\ crLog \in Seq(CrVersion) /\ crLog # <<>>
        /\ depLog \in Seq(DepVersion) /\ depLog # <<>>
        /\ podLog \in Seq([Pods -> Nat]) /\ podLog # <<>>
    BY DEF TypeOK, LogsOK
  <1>2. /\ Cr \in CrVersion /\ Cr = crLog[Len(crLog)] /\ Len(crLog) \in Nat \ {0}
    BY <1>1, LastOfLog DEF Cr
  <1>3. /\ Dep \in DepVersion /\ Dep = depLog[Len(depLog)] /\ Len(depLog) \in Nat \ {0}
    BY <1>1, LastOfLog DEF Dep
  <1>4. /\ Pod \in [Pods -> Nat] /\ Len(podLog) \in Nat \ {0}
    BY <1>1, LastOfLog DEF Pod
  <1>5. \A m \in Procs : MyCr(m) \in CrVersion
    BY <1>1, ElementOfSeq DEF MyCr, TypeOK, IndexesOK
  <1>6. \A m \in Procs : MyDep(m) \in DepVersion
    BY <1>1, ElementOfSeq DEF MyDep, TypeOK, IndexesOK
  <1> QED BY <1>2, <1>3, <1>4, <1>5, <1>6

(* The logs are append-only. *)
CrGrows  == crLog' = crLog \/ \E v \in CrVersion : crLog' = Append(crLog, v)
DepGrows == depLog' = depLog \/ \E v \in DepVersion : depLog' = Append(depLog, v)
PodGrows == podLog' = podLog \/ \E v \in [Pods -> Nat] : podLog' = Append(podLog, v)
LogsGrow == CrGrows /\ DepGrows /\ PodGrows

LEMMA ClusterGrowsLogs ==
    ASSUME TypeOK, ClusterNext
    PROVE  LogsGrow
  <1> USE ObjectsTyped, SizesAssumption DEF LogsGrow, CrGrows, DepGrows, PodGrows
  <1>1. ASSUME NEW n \in Sizes, NEW image \in Images, UserCreate(n, image)
        PROVE  LogsGrow
    <2> DEFINE new == [uid |-> Len(crLog) + 1, size |-> n, image |-> image, nodes |-> <<>>]
    <2>1. <<>> \in Seq(Pods)
      BY EmptySeq
    <2>2. Len(crLog) + 1 \in Nat /\ n \in Int
      OBVIOUS
    <2>3. new \in CrVersion
      BY <2>1, <2>2 DEF CrVersion
    <2> QED BY <1>1, <2>3 DEF UserCreate
  <1>2. ASSUME NEW n \in Sizes, UserResize(n)
        PROVE  LogsGrow
    BY <1>2 DEF UserResize, CrVersion
  <1>3. ASSUME NEW n \in Sizes, Scale(n)
        PROVE  LogsGrow
    BY <1>3 DEF Scale, DepVersion
  <1>8. ASSUME NEW n \in Sizes, Restore(n)
        PROVE  LogsGrow
    <2>1. [NoDep EXCEPT !.uid = Len(depLog) + 1, !.replicas = n] \in DepVersion
      <3>1. NoDep \in DepVersion
        BY DEF NoDep, DepVersion
      <3>2. Len(depLog) + 1 \in Nat /\ n \in Int
        OBVIOUS
      <3> QED BY <3>1, <3>2 DEF DepVersion
    <2> QED BY <1>8, <2>1 DEF Restore
  <1>4. CASE UserDelete
    <2>1. <<>> \in Seq(Pods)
      BY EmptySeq
    <2>2. NoCr \in CrVersion
      BY <2>1 DEF CrVersion, NoCr
    <2> QED BY <1>4, <2>2 DEF UserDelete
  <1>5. CASE DropDeployment \/ CollectGarbage
    <2>1. NoDep \in DepVersion
      BY DEF NoDep, DepVersion
    <2>2. depLog' = Append(depLog, NoDep) /\ UNCHANGED <<crLog, podLog>>
      BY <1>5 DEF DropDeployment, CollectGarbage
    <2> QED BY <2>1, <2>2
  <1>6. ASSUME NEW p \in Pods, StartPod(p)
        PROVE  LogsGrow
    <2>1. Dep.uid \in Nat
      BY DEF DepVersion
    <2> QED BY <1>6, <2>1 DEF StartPod
  <1>7. ASSUME NEW p \in Pods, StopPod(p) \/ LosePod(p)
        PROVE  LogsGrow
    BY <1>7 DEF StopPod, LosePod
  <1> QED BY <1>1, <1>2, <1>3, <1>4, <1>5, <1>6, <1>7, <1>8 DEF ClusterNext

LEMMA ManagerGrowsLogs ==
    ASSUME TypeOK, NEW m \in Procs, Manager(m)
    PROVE  LogsGrow
  <1> USE DEF LogsGrow, CrGrows, DepGrows, PodGrows
  <1>1. CASE \/ Boot(m) \/ Lead(m) \/ StepDown(m) \/ Crash(m)
             \/ SyncCr(m) \/ SyncDep(m) \/ SyncPods(m)
             \/ Timer(m) \/ Resync(m) \/ Dequeue(m) \/ CallFails(m)
             \/ GetCr(m) \/ GetDeployment(m) \/ ListPods(m)
    BY <1>1 DEF Boot, Lead, StepDown, Crash, Exit, SyncCr, SyncDep, SyncPods, Timer, Resync,
                Dequeue, CallFails, GetCr, GetDeployment, ListPods, clusterVars
  <1>2. CASE CreateDeployment(m)
    <2>1. Len(depLog) + 1 \in Nat /\ crRead[m] \in Nat /\ MyCr(m) \in CrVersion
      BY ObjectsTyped DEF TypeOK, IndexesOK
    <2>2. NewDeployment(m) \in DepVersion
      BY <2>1 DEF NewDeployment, DepVersion, CrVersion
    <2> QED BY <1>2, <2>2 DEF CreateDeployment
  <1>3. CASE UpdateDeployment(m)
    <2>1. /\ Len(crLog) \in Nat /\ Len(depLog) \in Nat
          /\ MyCr(m) \in CrVersion /\ MyDep(m) \in DepVersion
      BY ObjectsTyped
    <2>2. crRead[m] \in Nat /\ depRead[m] \in Nat /\ MyCr(m).size \in Int
      BY <2>1 DEF TypeOK, IndexesOK, CrVersion
    <2>3. ResizedDeployment(m) \in DepVersion
      BY <2>1, <2>2 DEF ResizedDeployment, DepVersion
    <2> QED BY <1>3, <2>3 DEF UpdateDeployment
  <1>4. CASE UpdateStatus(m)
    <2>1. NewStatus(m) \in CrVersion
      BY ObjectsTyped DEF NewStatus, CrVersion, TypeOK, ProcsOK
    <2> QED BY <1>4, <2>1 DEF UpdateStatus
  <1> QED BY <1>1, <1>2, <1>3, <1>4 DEF Manager, Reconcile

LEMMA StepGrowsLogs ==
    ASSUME TypeOK, [Next]_vars
    PROVE  LogsGrow
  <1>1. CASE LeaseRunsOut \/ LoseLease \/ UNCHANGED vars
    BY <1>1 DEF LeaseRunsOut, LoseLease, vars, clusterVars, LogsGrow, CrGrows, DepGrows, PodGrows
  <1> QED BY <1>1, ClusterGrowsLogs, ManagerGrowsLogs DEF Next

LEMMA GrownLog ==
    ASSUME NEW S, NEW log \in Seq(S), log # <<>>,
           NEW new, new = log \/ \E v \in S : new = Append(log, v)
    PROVE  /\ new \in Seq(S) /\ new # <<>>
           /\ Len(new) \in Nat /\ Len(log) \in Nat /\ Len(log) <= Len(new)
           /\ \A i \in 1..Len(log) : new[i] = log[i]
  <1>1. Len(log) \in Nat
    BY LastOfLog
  <1>2. CASE new = log
    BY <1>1, <1>2
  <1>3. ASSUME NEW v \in S, new = Append(log, v)
        PROVE  /\ new \in Seq(S) /\ new # <<>>
               /\ Len(new) \in Nat /\ Len(log) \in Nat /\ Len(log) <= Len(new)
               /\ \A i \in 1..Len(log) : new[i] = log[i]
    BY <1>1, <1>3, AppendToLog
  <1> QED BY <1>2, <1>3

(* What append-only logs preserve. *)
LEMMA GrownLogs ==
    ASSUME TypeOK, LogsGrow
    PROVE  /\ LogsOK'
           /\ Len(crLog') \in Nat /\ Len(depLog') \in Nat /\ Len(podLog') \in Nat
           /\ Len(crLog) <= Len(crLog') /\ Len(depLog) <= Len(depLog')
           /\ Len(podLog) <= Len(podLog')
           /\ \A i \in 1..Len(crLog) : crLog'[i] = crLog[i]
           /\ \A i \in 1..Len(depLog) : depLog'[i] = depLog[i]
           /\ \A i \in 1..Len(podLog) : podLog'[i] = podLog[i]
  <1>1. /\ crLog' \in Seq(CrVersion) /\ crLog' # <<>> /\ Len(crLog) <= Len(crLog')
        /\ Len(crLog') \in Nat
        /\ \A i \in 1..Len(crLog) : crLog'[i] = crLog[i]
    BY GrownLog DEF LogsGrow, CrGrows, TypeOK, LogsOK
  <1>2. /\ depLog' \in Seq(DepVersion) /\ depLog' # <<>> /\ Len(depLog) <= Len(depLog')
        /\ Len(depLog') \in Nat
        /\ \A i \in 1..Len(depLog) : depLog'[i] = depLog[i]
    BY GrownLog DEF LogsGrow, DepGrows, TypeOK, LogsOK
  <1>3. /\ podLog' \in Seq([Pods -> Nat]) /\ podLog' # <<>> /\ Len(podLog) <= Len(podLog')
        /\ Len(podLog') \in Nat
        /\ \A i \in 1..Len(podLog) : podLog'[i] = podLog[i]
    <2> DEFINE S == [Pods -> Nat]
    <2>1. podLog \in Seq(S) /\ podLog # <<>>
      BY DEF TypeOK, LogsOK
    <2>2. podLog' = podLog \/ \E v \in S : podLog' = Append(podLog, v)
      BY DEF LogsGrow, PodGrows
    <2> HIDE DEF S
    <2>3. /\ podLog' \in Seq(S) /\ podLog' # <<>> /\ Len(podLog) <= Len(podLog')
          /\ Len(podLog') \in Nat
          /\ \A i \in 1..Len(podLog) : podLog'[i] = podLog[i]
      BY <2>1, <2>2, GrownLog
    <2> QED BY <2>3 DEF S
  <1> QED BY <1>1, <1>2, <1>3 DEF LogsOK

(* Indexes into a log are indexes into the log it grows to. *)
LEMMA IndexesIntoGrown ==
    ASSUME NEW k \in Nat, NEW l \in Nat, k <= l, NEW f \in [Procs -> 1..k]
    PROVE  /\ f \in [Procs -> 1..l]
           /\ \A m \in Procs, i \in 1..l : [f EXCEPT ![m] = i] \in [Procs -> 1..l]
  OBVIOUS

(* Only the end of a process sets where its next life begins. *)
LEMMA SinceStep ==
    ASSUME [Next]_vars
    PROVE  since' = since \/ \E m \in Procs : Exit(m)
  <1>1. CASE (ClusterNext /\ UNCHANGED procVars) \/ LeaseRunsOut \/ LoseLease \/ UNCHANGED vars
    BY <1>1 DEF LeaseRunsOut, LoseLease, vars, procVars
  <1>2. ASSUME NEW m \in Procs, Manager(m)
        PROVE  since' = since \/ Exit(m)
    BY <1>2 DEF Manager, Reconcile, Boot, Lead, StepDown, Crash, SyncCr, SyncDep, SyncPods,
                Timer, Resync, Dequeue, CallFails, GetCr, GetDeployment, CreateDeployment,
                UpdateDeployment, ListPods, UpdateStatus
  <1> QED BY <1>1, <1>2 DEF Next

LEMMA IndexesPreserved ==
    ASSUME TypeOK, [Next]_vars
    PROVE  IndexesOK'
  <1>1. /\ Len(crLog) \in Nat \ {0} /\ Len(depLog) \in Nat \ {0} /\ Len(podLog) \in Nat \ {0}
        /\ Len(crLog') \in Nat /\ Len(depLog') \in Nat /\ Len(podLog') \in Nat
        /\ Len(crLog) <= Len(crLog') /\ Len(depLog) <= Len(depLog')
        /\ Len(podLog) <= Len(podLog')
    BY ObjectsTyped, StepGrowsLogs, GrownLogs
  <1>2. /\ crSeen \in [Procs -> 1..Len(crLog)] /\ crRead \in [Procs -> 1..Len(crLog)]
        /\ depSeen \in [Procs -> 1..Len(depLog)] /\ depRead \in [Procs -> 1..Len(depLog)]
        /\ podSeen \in [Procs -> 1..Len(podLog)] /\ since \in [Procs -> 1..Len(depLog)]
    BY DEF TypeOK, IndexesOK
  <1> DEFINE CrIndex(f)  == f \in [Procs -> 1..Len(crLog')]
             DepIndex(f) == f \in [Procs -> 1..Len(depLog')]
             PodIndex(f) == f \in [Procs -> 1..Len(podLog')]
  <1>3. /\ CrIndex(crSeen) /\ CrIndex(crRead) /\ DepIndex(depSeen) /\ DepIndex(depRead)
        /\ PodIndex(podSeen) /\ DepIndex(since)
        /\ \A m \in Procs, i \in 1..Len(crLog') :
              CrIndex([crSeen EXCEPT ![m] = i]) /\ CrIndex([crRead EXCEPT ![m] = i])
        /\ \A m \in Procs, i \in 1..Len(depLog') :
              /\ DepIndex([depSeen EXCEPT ![m] = i]) /\ DepIndex([depRead EXCEPT ![m] = i])
              /\ DepIndex([since EXCEPT ![m] = i])
        /\ \A m \in Procs, i \in 1..Len(podLog') : PodIndex([podSeen EXCEPT ![m] = i])
    BY <1>1, <1>2, IndexesIntoGrown
  <1>4. SUFFICES /\ CrIndex(crSeen') /\ CrIndex(crRead')
                 /\ DepIndex(depSeen') /\ DepIndex(depRead')
                 /\ PodIndex(podSeen') /\ DepIndex(since')
    BY DEF IndexesOK
  <1>5. 1 \in 1..Len(crLog') /\ 1 \in 1..Len(depLog') /\ 1 \in 1..Len(podLog')
    BY <1>1
  <1> HIDE DEF CrIndex, DepIndex, PodIndex
  <1>6. DepIndex(since')
    <2>1. Len(depLog) \in 1..Len(depLog')
      BY <1>1
    <2>2. ASSUME NEW m \in Procs, since' = [since EXCEPT ![m] = Len(depLog)]
          PROVE  DepIndex(since')
      BY <1>3, <2>1, <2>2
    <2> QED BY <1>3, <2>2, SinceStep DEF Exit
  <1>7. CASE UNCHANGED <<cacheVars, crRead, depRead>>
    BY <1>3, <1>6, <1>7 DEF cacheVars
  <1>8. CASE (ClusterNext /\ UNCHANGED procVars) \/ LeaseRunsOut \/ LoseLease \/ UNCHANGED vars
    BY <1>7, <1>8 DEF LeaseRunsOut, LoseLease, vars, procVars, readVars, cacheVars
  <1>9. ASSUME NEW m \in Procs, Manager(m)
        PROVE  /\ CrIndex(crSeen') /\ CrIndex(crRead')
               /\ DepIndex(depSeen') /\ DepIndex(depRead')
               /\ PodIndex(podSeen')
    <2>1. CASE Lead(m) \/ Timer(m) \/ Resync(m) \/ Dequeue(m)
      BY <1>7, <2>1 DEF Lead, Timer, Resync, Dequeue, readVars
    <2>2. CASE Boot(m)
      <3>1. PICK cr \in 1..Len(crLog'), dep \in 1..Len(depLog'), pods \in 1..Len(podLog') :
              /\ crSeen' = [crSeen EXCEPT ![m] = cr]
              /\ depSeen' = [depSeen EXCEPT ![m] = dep]
              /\ podSeen' = [podSeen EXCEPT ![m] = pods]
        <4>1. /\ DOMAIN crLog \subseteq 1..Len(crLog')
              /\ DOMAIN depLog \subseteq 1..Len(depLog')
              /\ DOMAIN podLog \subseteq 1..Len(podLog')
          BY <1>1 DEF TypeOK, LogsOK
        <4> QED BY <2>2, <4>1 DEF Boot
      <3> QED BY <1>3, <2>2, <3>1 DEF Boot, readVars
    <2>3. CASE UNCHANGED cacheVars /\ Forget(m)
      BY <1>3, <1>5, <2>3 DEF Forget, cacheVars
    <2>4. CASE StepDown(m) \/ Crash(m)
      BY <1>3, <1>5, <2>4 DEF StepDown, Crash, Exit, Forget
    <2>5. CASE SyncCr(m)
      <3>1. crSeen[m] + 1 \in 1..Len(crLog')
        BY <1>1, <1>2, <2>5 DEF SyncCr, Advance
      <3> QED BY <1>3, <2>5, <3>1 DEF SyncCr, Advance, readVars
    <2>6. CASE SyncDep(m)
      <3>1. depSeen[m] + 1 \in 1..Len(depLog')
        BY <1>1, <1>2, <2>6 DEF SyncDep, Advance
      <3> QED BY <1>3, <2>6, <3>1 DEF SyncDep, Advance, readVars
    <2>7. CASE SyncPods(m)
      <3>1. podSeen[m] + 1 \in 1..Len(podLog')
        BY <1>1, <1>2, <2>7 DEF SyncPods, Advance
      <3> QED BY <1>3, <2>7, <3>1 DEF SyncPods, Advance, readVars
    <2>8. CASE CallFails(m) \/ CreateDeployment(m) \/ UpdateDeployment(m) \/ UpdateStatus(m)
      BY <2>3, <2>8 DEF CallFails, CreateDeployment, UpdateDeployment, UpdateStatus,
                        Return, Requeue
    <2>9. CASE GetCr(m)
      <3>1. crSeen[m] \in 1..Len(crLog')
        BY <1>1, <1>2
      <3>2. CASE Exists(crLog[crSeen[m]])
        BY <1>3, <2>9, <3>1, <3>2 DEF GetCr, cacheVars
      <3>3. CASE ~Exists(crLog[crSeen[m]])
        BY <2>3, <2>9, <3>3 DEF GetCr, Return
      <3> QED BY <3>2, <3>3
    <2>10. CASE GetDeployment(m)
      <3>1. depRead' = [depRead EXCEPT ![m] = depSeen[m]] /\ UNCHANGED <<cacheVars, crRead>>
        BY <2>10 DEF GetDeployment
      <3>2. depSeen[m] \in 1..Len(depLog')
        BY <1>1, <1>2
      <3> QED BY <1>3, <3>1, <3>2 DEF cacheVars
    <2>11. CASE ListPods(m)
      BY <1>7, <2>3, <2>11 DEF ListPods, Return
    <2> QED BY <1>9, <2>1, <2>2, <2>4, <2>5, <2>6, <2>7, <2>8, <2>9, <2>10, <2>11
            DEF Manager, Reconcile
  <1> QED BY <1>6, <1>8, <1>9 DEF Next

LEMMA ProcsPreserved ==
    ASSUME TypeOK, [Next]_vars
    PROVE  ProcsOK'
  <1>1. ProcsOK /\ IndexesOK
    BY DEF TypeOK
  <1>2. <<>> \in Seq(Pods)
    BY EmptySeq
  <1>3. CASE LeaseRunsOut \/ LoseLease \/ UNCHANGED vars
    BY <1>1, <1>3, FaultsAssumption
       DEF LeaseRunsOut, LoseLease, Fault, ProcsOK, vars, procVars, clusterVars, readVars, queueVars
  <1>4. CASE ClusterNext /\ UNCHANGED procVars
    <2>1. Spend \/ UNCHANGED ops
      BY <1>4 DEF ClusterNext, UserCreate, UserResize, Scale, Restore, UserDelete,
            DropDeployment, CollectGarbage, StartPod, StopPod, LosePod
    <2>2. ops' \in Nat
      BY <1>1, <2>1 DEF ProcsOK, Spend
    <2> QED BY <1>1, <1>4, <2>2 DEF ProcsOK, procVars, readVars, queueVars
  <1>5. ASSUME NEW m \in Procs, Manager(m)
        PROVE  ProcsOK'
    <2> USE <1>1, <1>2 DEF ProcsOK
    <2>1. CASE Lead(m) \/ Timer(m) \/ Resync(m) \/ Dequeue(m) \/ Boot(m)
      BY <2>1 DEF Lead, Timer, Resync, Dequeue, Boot, Goto, States, Calls, Exists, clusterVars,
                  readVars, queueVars
    <2>2. CASE StepDown(m) \/ Crash(m)
      <3>1. "down" \in States /\ faults' \in Nat
        BY <2>2 DEF StepDown, Crash, Fault, States
      <3>2. Exit(m)
        BY <2>2 DEF StepDown, Crash
      <3> QED BY <3>1, <3>2 DEF Exit, Goto, Forget, clusterVars
    <2>3. CASE SyncCr(m) \/ SyncDep(m) \/ SyncPods(m)
      BY <2>3 DEF SyncCr, SyncDep, SyncPods, Active, clusterVars, readVars, queueVars
    <2>4. CASE /\ Requeue(m) \/ Return(m)
               /\ Fault \/ UNCHANGED faults
               /\ UNCHANGED <<ops, lease, queued>>
      <3>1. "idle" \in States /\ faults' \in Nat
        BY <2>4 DEF Fault, States
      <3>2. later' \in [Procs -> BOOLEAN] /\ Goto(m, "idle") /\ Forget(m)
        BY <2>4 DEF Requeue, Return
      <3> QED BY <2>4, <3>1, <3>2 DEF Goto, Forget
    <2>5. CASE CallFails(m) \/ CreateDeployment(m) \/ UpdateDeployment(m) \/ UpdateStatus(m)
      BY <2>4, <2>5 DEF CallFails, CreateDeployment, UpdateDeployment, UpdateStatus, clusterVars
    <2>6. CASE GetCr(m)
      BY <2>4, <2>6 DEF GetCr, Goto, States, Calls, clusterVars
    <2>7. CASE GetDeployment(m)
      <3>1. pc' \in [Procs -> States]
        BY <2>7 DEF GetDeployment, Goto, States, Calls
      <3> QED BY <2>7, <3>1 DEF GetDeployment, clusterVars, queueVars
    <2>8. CASE ListPods(m)
      <3>1. PICK listing \in Listings(m) :
               IF StatusCurrent(m, listing)
               THEN Return(m)
               ELSE /\ podNames' = [podNames EXCEPT ![m] = listing]
                    /\ Goto(m, "updateStatus")
                    /\ UNCHANGED <<later, crRead, depRead>>
        BY <2>8 DEF ListPods
      <3>2. listing \in Seq(Pods)
        BY ListingIsSeq DEF Listings, Listed
      <3>3. UNCHANGED <<ops, lease, queued, faults>>
        BY <2>8 DEF ListPods, clusterVars
      <3> QED BY <2>4, <3>1, <3>2, <3>3 DEF Goto, States, Calls
    <2> QED BY <1>5, <2>1, <2>2, <2>3, <2>5, <2>6, <2>7, <2>8 DEF Manager, Reconcile
  <1> QED BY <1>3, <1>4, <1>5 DEF Next

LEMMA InitTyped ==
    ASSUME Init
    PROVE  TypeOK
  <1>1. <<>> \in Seq(Pods)
    BY EmptySeq
  <1>2. NoCr \in CrVersion /\ NoDep \in DepVersion
    BY <1>1 DEF NoCr, CrVersion, NoDep, DepVersion
  <1>3. /\ \A S : \A e \in S : <<e>> \in Seq(S) /\ <<e>> # <<>> /\ Len(<<e>>) = 1
    OBVIOUS
  <1>4. LogsOK
    BY <1>2, <1>3 DEF Init, ClusterInit, LogsOK
  <1>5. IndexesOK
    <2>1. Len(crLog) = 1 /\ Len(depLog) = 1 /\ Len(podLog) = 1
      BY <1>3 DEF Init, ClusterInit
    <2> QED BY <2>1 DEF Init, OperatorInit, IndexesOK
  <1>6. ProcsOK
    BY <1>1 DEF Init, ClusterInit, OperatorInit, ProcsOK, States
  <1> QED BY <1>4, <1>5, <1>6 DEF TypeOK

(* The logs of versions are well formed and no cache or local variable     *)
(* points past their ends, whatever the processes and the cluster do.      *)
THEOREM TypeCorrect == Spec => []TypeOK
  <1>1. TypeOK /\ [Next]_vars => TypeOK'
    BY StepGrowsLogs, GrownLogs, IndexesPreserved, ProcsPreserved DEF TypeOK
  <1> QED BY InitTyped, <1>1, PTL DEF Spec
----------------------------------------------------------------------------
(* The status the operator reports: it is what one listing returned, and   *)
(* writing it never undoes an edit of the user.                            *)

(* Where a new version of the CR comes from. *)
UserWrote == ~UNCHANGED ops

CrWriteBy(m) ==
    /\ pc[m] = "updateStatus"
    /\ crRead[m] = Len(crLog)
    /\ crLog' = Append(crLog, [Cr EXCEPT !.nodes = podNames[m]])

LEMMA StatusWrite ==
    ASSUME TypeOK, NEW m \in Procs, Manager(m)
    PROVE  crLog' = crLog \/ CrWriteBy(m)
  <1>1. CASE UpdateStatus(m)
    <2>1. CASE StatusAllowed(m)
      <3>1. crLog' = Append(crLog, NewStatus(m)) /\ crRead[m] = Len(crLog) /\ pc[m] = "updateStatus"
        BY <1>1, <2>1 DEF UpdateStatus, StatusAllowed, CrUnchanged
      <3>2. MyCr(m) = Cr
        BY <3>1, ObjectsTyped DEF MyCr
      <3> QED BY <3>1, <3>2 DEF NewStatus, CrWriteBy
    <2>2. CASE ~StatusAllowed(m)
      BY <1>1, <2>2 DEF UpdateStatus
    <2> QED BY <2>1, <2>2
  <1>2. CASE \/ Boot(m) \/ Lead(m) \/ StepDown(m) \/ Crash(m)
             \/ SyncCr(m) \/ SyncDep(m) \/ SyncPods(m)
             \/ Timer(m) \/ Resync(m) \/ Dequeue(m) \/ CallFails(m)
             \/ GetCr(m) \/ GetDeployment(m) \/ ListPods(m)
             \/ CreateDeployment(m) \/ UpdateDeployment(m)
    BY <1>2 DEF Boot, Lead, StepDown, Crash, Exit, SyncCr, SyncDep, SyncPods, Timer, Resync,
                Dequeue, CallFails, GetCr, GetDeployment, ListPods, CreateDeployment,
                UpdateDeployment, clusterVars
  <1> QED BY <1>1, <1>2 DEF Manager, Reconcile

(* Where the user and the cluster take the nodes of a new version from.    *)
LEMMA ClusterCrStep ==
    ASSUME TypeOK, ClusterNext
    PROVE  \/ crLog' = crLog
           \/ /\ UserWrote
              /\ \E v \in CrVersion :
                   crLog' = Append(crLog, v) /\ (v.nodes = <<>> \/ v.nodes = Cr.nodes)
  <1>1. Cr \in CrVersion /\ Len(crLog) \in Nat /\ <<>> \in Seq(Pods)
    BY ObjectsTyped, EmptySeq
  <1>2. ASSUME Spend
        PROVE  UserWrote
    BY <1>2 DEF Spend, UserWrote, TypeOK, ProcsOK
  <1>3. ASSUME NEW n \in Sizes, NEW image \in Images, UserCreate(n, image)
        PROVE  \E v \in CrVersion : crLog' = Append(crLog, v) /\ v.nodes = <<>>
    <2> DEFINE v == [uid |-> Len(crLog) + 1, size |-> n, image |-> image, nodes |-> <<>>]
    <2>1. v \in CrVersion
      BY <1>1, SizesAssumption DEF CrVersion
    <2> QED BY <1>3, <2>1 DEF UserCreate
  <1>4. ASSUME NEW n \in Sizes, UserResize(n)
        PROVE  \E v \in CrVersion : crLog' = Append(crLog, v) /\ v.nodes = Cr.nodes
    <2>1. [Cr EXCEPT !.size = n] \in CrVersion /\ [Cr EXCEPT !.size = n].nodes = Cr.nodes
      BY <1>1, SizesAssumption DEF CrVersion
    <2> QED BY <1>4, <2>1 DEF UserResize
  <1>5. ASSUME UserDelete
        PROVE  \E v \in CrVersion : crLog' = Append(crLog, v) /\ v.nodes = <<>>
    <2>1. NoCr \in CrVersion /\ NoCr.nodes = <<>>
      BY <1>1 DEF CrVersion, NoCr
    <2> QED BY <1>5, <2>1 DEF UserDelete
  <1>6. CASE \/ \E n \in Sizes : Scale(n) \/ Restore(n)
             \/ DropDeployment \/ CollectGarbage
             \/ \E p \in Pods : StartPod(p) \/ StopPod(p) \/ LosePod(p)
    BY <1>6 DEF Scale, Restore, DropDeployment, CollectGarbage, StartPod, StopPod, LosePod
  <1>7. CASE \/ \E n \in Sizes, image \in Images : UserCreate(n, image)
             \/ \E n \in Sizes : UserResize(n)
             \/ UserDelete
    <2>1. UserWrote
      BY <1>2, <1>7 DEF UserCreate, UserResize, UserDelete
    <2> QED BY <1>3, <1>4, <1>5, <1>7, <2>1
  <1> QED BY <1>6, <1>7 DEF ClusterNext

LEMMA CrStepOfStatus ==
    ASSUME TypeOK, [Next]_vars
    PROVE  \/ crLog' = crLog
           \/ /\ UserWrote
              /\ \E v \in CrVersion :
                   crLog' = Append(crLog, v) /\ (v.nodes = <<>> \/ v.nodes = Cr.nodes)
           \/ \E m \in Procs : CrWriteBy(m)
  <1>1. CASE LeaseRunsOut \/ LoseLease \/ UNCHANGED vars
    BY <1>1 DEF LeaseRunsOut, LoseLease, vars, clusterVars
  <1> QED BY <1>1, ClusterCrStep, StatusWrite DEF Next

LEMMA AppendedIsCr ==
    ASSUME TypeOK, NEW v \in CrVersion, crLog' = Append(crLog, v)
    PROVE  Cr' = v
  <1>1. Cr' = Last(crLog')
    BY DEF Cr
  <1>2. Last(Append(crLog, v)) = v
    BY AppendToLog DEF TypeOK, LogsOK
  <1> QED BY <1>1, <1>2

(* Only the user changes the user's half of the CR: an edit made while     *)
(* Reconcile works on its copy is never overwritten by the status.         *)
THEOREM StatusLeavesSpecAlone == Spec => UserOwnsSpec
  <1> DEFINE SameSpec == Cr'.uid = Cr.uid /\ Cr'.size = Cr.size /\ Cr'.image = Cr.image
  <1>1. ASSUME TypeOK, [Next]_vars, ops' = ops
        PROVE  SameSpec
    <2>1. CASE crLog' = crLog
      BY <2>1 DEF Cr
    <2>2. ASSUME NEW m \in Procs, CrWriteBy(m)
          PROVE  SameSpec
      <3> DEFINE v == [Cr EXCEPT !.nodes = podNames[m]]
      <3>1. Cr \in CrVersion /\ podNames[m] \in Seq(Pods)
        BY <1>1, ObjectsTyped DEF TypeOK, ProcsOK
      <3>2. v \in CrVersion /\ v.uid = Cr.uid /\ v.size = Cr.size /\ v.image = Cr.image
        BY <3>1 DEF CrVersion
      <3>3. Cr' = v
        BY <1>1, <2>2, <3>2, AppendedIsCr DEF CrWriteBy
      <3> QED BY <3>2, <3>3
    <2> QED BY <1>1, <2>1, <2>2, CrStepOfStatus DEF UserWrote
  <1>2. TypeOK /\ [Next]_vars => [ops' = ops => SameSpec]_vars
    BY <1>1
  <1> QED BY <1>2, TypeCorrect, PTL DEF Spec, UserOwnsSpec
----------------------------------------------------------------------------
(* What a status names, and what Reconcile is about to write, was listed   *)
(* from one version of the pod list.                                       *)

Snapshot(nodes, log) == \E k \in 1..Len(log) : nodes \in SetToSeqs(Listed(log[k]))

NamesOK == \A m \in Procs : pc[m] = "updateStatus" => Snapshot(podNames[m], podLog)

StatusInv == TypeOK /\ NamesOK /\ StatusIsASnapshot

LEMMA SnapshotStays ==
    ASSUME TypeOK, [Next]_vars, NEW nodes, Snapshot(nodes, podLog)
    PROVE  Snapshot(nodes, podLog')
  <1>1. /\ Len(podLog) \in Nat /\ Len(podLog') \in Nat /\ Len(podLog) <= Len(podLog')
        /\ \A k \in 1..Len(podLog) : podLog'[k] = podLog[k]
    BY ObjectsTyped, StepGrowsLogs, GrownLogs
  <1>2. PICK k \in 1..Len(podLog) : nodes \in SetToSeqs(Listed(podLog[k]))
    BY DEF Snapshot
  <1>3. k \in 1..Len(podLog') /\ podLog'[k] = podLog[k]
    BY <1>1, <1>2
  <1> QED BY <1>2, <1>3 DEF Snapshot

(* A process about to write the status either was so before the step, or   *)
(* has just listed the pods its cache shows.                               *)
LEMMA NamesStep ==
    ASSUME TypeOK, [Next]_vars, NEW q \in Procs, pc'[q] = "updateStatus"
    PROVE  \/ pc[q] = "updateStatus" /\ podNames'[q] = podNames[q]
           \/ Snapshot(podNames'[q], podLog)
  <1>1. pc \in [Procs -> States] /\ podNames \in [Procs -> Seq(Pods)]
    BY DEF TypeOK, ProcsOK
  <1>2. CASE UNCHANGED <<pc, podNames>>
    BY <1>2
  <1>3. CASE (ClusterNext /\ UNCHANGED procVars) \/ LeaseRunsOut \/ LoseLease \/ UNCHANGED vars
    BY <1>2, <1>3 DEF LeaseRunsOut, LoseLease, vars, procVars, readVars
  <1>4. ASSUME NEW m \in Procs, Manager(m)
        PROVE  \/ pc[q] = "updateStatus" /\ podNames'[q] = podNames[q]
               \/ Snapshot(podNames'[q], podLog)
    <2> USE DEF Goto
    <2>1. CASE Boot(m) \/ Lead(m) \/ Dequeue(m) \/ SyncCr(m) \/ SyncDep(m) \/ SyncPods(m)
               \/ Timer(m) \/ Resync(m)
      BY <1>1, <2>1 DEF Boot, Lead, Dequeue, SyncCr, SyncDep, SyncPods, Timer, Resync, readVars
    <2>2. CASE StepDown(m) \/ Crash(m)
      BY <1>1, <2>2 DEF StepDown, Crash, Exit, Forget
    <2>3. CASE CallFails(m) \/ CreateDeployment(m) \/ UpdateDeployment(m) \/ UpdateStatus(m)
      <3>1. Goto(m, "idle") /\ Forget(m)
        BY <2>3 DEF CallFails, CreateDeployment, UpdateDeployment, UpdateStatus, Return, Requeue
      <3> QED BY <1>1, <3>1 DEF Forget
    <2>4. CASE GetCr(m)
      BY <1>1, <2>4 DEF GetCr, Return, Forget
    <2>5. CASE GetDeployment(m)
      <3>1. PICK place \in {"create", "update", "listPods"} : pc' = [pc EXCEPT ![m] = place]
        BY <2>5 DEF GetDeployment
      <3>2. podNames' = podNames
        BY <2>5 DEF GetDeployment
      <3> QED BY <1>1, <3>1, <3>2
    <2>6. CASE ListPods(m)
      <3>1. PICK listing \in Listings(m) :
              \/ Goto(m, "idle") /\ Forget(m)
              \/ podNames' = [podNames EXCEPT ![m] = listing] /\ Goto(m, "updateStatus")
        BY <2>6 DEF ListPods, Return
      <3>2. listing \in SetToSeqs(Listed(podLog[podSeen[m]])) /\ podSeen[m] \in 1..Len(podLog)
        BY <3>1 DEF Listings, TypeOK, IndexesOK
      <3>3. Snapshot(listing, podLog)
        BY <3>2 DEF Snapshot
      <3>4. CASE q = m
        BY <1>1, <3>1, <3>3, <3>4 DEF Forget
      <3>5. CASE q # m
        BY <1>1, <3>1, <3>5 DEF Forget
      <3> QED BY <3>4, <3>5
    <2> QED BY <1>4, <2>1, <2>2, <2>3, <2>4, <2>5, <2>6 DEF Manager, Reconcile
  <1> QED BY <1>3, <1>4 DEF Next

LEMMA StatusInductive == StatusInv /\ [Next]_vars => StatusInv'
  <1> SUFFICES ASSUME StatusInv, [Next]_vars
               PROVE  StatusInv'
    OBVIOUS
  <1>1. TypeOK /\ NamesOK /\ StatusIsASnapshot
    BY DEF StatusInv
  <1>2. TypeOK'
    BY <1>1, StepGrowsLogs, GrownLogs, IndexesPreserved, ProcsPreserved DEF TypeOK
  <1>3. NamesOK'
    <2> SUFFICES ASSUME NEW q \in Procs, pc'[q] = "updateStatus"
                 PROVE  Snapshot(podNames'[q], podLog')
      BY DEF NamesOK
    <2>1. Snapshot(podNames'[q], podLog)
      BY <1>1, NamesStep DEF NamesOK
    <2> HIDE DEF Snapshot
    <2> QED BY <1>1, <2>1, SnapshotStays
  <1>4. StatusIsASnapshot'
    <2> DEFINE Reported(v, log) == v.nodes # <<>> => Snapshot(v.nodes, log)
    <2>1. SUFFICES \A i \in 1..Len(crLog') : Reported(crLog'[i], podLog')
      BY DEF StatusIsASnapshot, Snapshot
    <2>2. \A i \in 1..Len(crLog) : Reported(crLog[i], podLog)
      BY <1>1 DEF StatusIsASnapshot, Snapshot
    <2>3. \A i \in 1..Len(crLog) : Reported(crLog[i], podLog')
      BY <1>1, <2>2, SnapshotStays
    <2>4. CASE crLog' = crLog
      BY <2>3, <2>4
    <2>5. ASSUME NEW v \in CrVersion, crLog' = Append(crLog, v), Reported(v, podLog')
          PROVE  \A i \in 1..Len(crLog') : Reported(crLog'[i], podLog')
      <3>1. /\ Len(crLog) \in Nat /\ Len(crLog') = Len(crLog) + 1
            /\ \A i \in 1..Len(crLog) : crLog'[i] = crLog[i]
            /\ crLog'[Len(crLog) + 1] = v
        BY <1>1, <2>5, AppendToLog, ObjectsTyped DEF TypeOK, LogsOK
      <3>2. \A i \in 1..Len(crLog') : i \in 1..Len(crLog) \/ i = Len(crLog) + 1
        BY <3>1
      <3> HIDE DEF Reported
      <3> QED BY <2>3, <2>5, <3>1, <3>2
    <2>6. ASSUME NEW v \in CrVersion, crLog' = Append(crLog, v),
                 v.nodes = <<>> \/ v.nodes = Cr.nodes
          PROVE  Reported(v, podLog')
      <3>1. Reported(Cr, podLog')
        BY <1>1, <2>3, ObjectsTyped
      <3> QED BY <2>6, <3>1
    <2>7. ASSUME NEW m \in Procs, CrWriteBy(m)
          PROVE  \E v \in CrVersion : crLog' = Append(crLog, v) /\ Reported(v, podLog')
      <3> DEFINE v == [Cr EXCEPT !.nodes = podNames[m]]
      <3>1. Cr \in CrVersion /\ podNames[m] \in Seq(Pods)
        BY <1>1, ObjectsTyped DEF TypeOK, ProcsOK
      <3>2. v \in CrVersion /\ v.nodes = podNames[m]
        BY <3>1 DEF CrVersion
      <3>3. Snapshot(podNames[m], podLog)
        BY <1>1, <2>7 DEF CrWriteBy, NamesOK
      <3>4. Reported(v, podLog')
        BY <1>1, <3>2, <3>3, SnapshotStays
      <3> HIDE DEF Reported
      <3> QED BY <2>7, <3>2, <3>4 DEF CrWriteBy
    <2> HIDE DEF Reported
    <2> QED BY <1>1, <2>4, <2>5, <2>6, <2>7, CrStepOfStatus
  <1> QED BY <1>2, <1>3, <1>4 DEF StatusInv

(* Every status that was ever reported names, once each, the pods of one   *)
(* moment.                                                                 *)
THEOREM StatusesAreSnapshots == Spec => []StatusIsASnapshot
  <1>1. Init => StatusInv
    <2> SUFFICES ASSUME Init
                 PROVE  StatusInv
      OBVIOUS
    <2>1. crLog = <<NoCr>> /\ NoCr.nodes = <<>>
      BY DEF Init, ClusterInit, NoCr
    <2>2. StatusIsASnapshot
      BY <2>1 DEF StatusIsASnapshot
    <2>3. NamesOK
      BY DEF Init, OperatorInit, NamesOK
    <2> QED BY <2>2, <2>3, InitTyped DEF StatusInv
  <1>2. StatusInv => StatusIsASnapshot
    BY DEF StatusInv
  <1> QED BY <1>1, <1>2, StatusInductive, PTL DEF Spec
============================================================================
