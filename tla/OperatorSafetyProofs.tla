------------------------ MODULE OperatorSafetyProofs -----------------------
(***************************************************************************)
(* Proofs of the safety invariants of module Operator, from an inductive   *)
(* invariant that says what a running Reconcile holds in its hands and     *)
(* that no process has written, since it was started, for a version of the *)
(* CR it has not seen.                                                     *)
(***************************************************************************)
EXTENDS OperatorProofs

(* Reconcile holds a CR that existed when it was read from the cache, and  *)
(* when it is about to update a Deployment, one that existed as well.      *)
HoldsCr(m) == pc[m] \in Calls \ {"getCr"}

HandsOK ==
    \A m \in Procs : HoldsCr(m) =>
        /\ crRead[m] <= crSeen[m]
        /\ Exists(MyCr(m))
        /\ pc[m] = "update" => Exists(MyDep(m))

(* In its present life, a process is never behind the CR versions it has   *)
(* written for; one that is down has not begun to write.                   *)
NotBehind ==
    \A i \in 1..Len(depLog) :
        LET m == depLog[i].by
        IN  WrittenByOperator(depLog[i]) /\ since[m] < i =>
                /\ pc[m] # "down"
                /\ depLog[i].from <= crSeen[m]
                /\ HoldsCr(m) => depLog[i].from <= crRead[m]

SafetyInv ==
    /\ TypeOK
    /\ HandsOK
    /\ NotBehind
    /\ NoLostUpdate
    /\ NeverBackwards
    /\ WritesWhatWasAsked
----------------------------------------------------------------------------
(* Every step leaves the Deployment's log alone, appends a version that is *)
(* not an operator's, or is the write of one process.                      *)

OtherWrote ==
    /\ \E v \in DepVersion :
         /\ depLog' = Append(depLog, v)
         /\ v.by = Other
         /\ \/ Exists(Dep) /\ (v = NoDep \/ (v.uid = Dep.uid /\ v.owner = Dep.owner))
            \/ ~Exists(Dep) /\ v.uid = Len(depLog) + 1 /\ v.owner = 0
    /\ UNCHANGED crLog

OperatorWrote(m, v) ==
    /\ depLog' = Append(depLog, v)
    /\ pc[m] \in {"create", "update"}
    /\ pc' = [pc EXCEPT ![m] = "idle"]
    /\ crRead' = [crRead EXCEPT ![m] = 1]
    /\ UNCHANGED <<crLog, crSeen>>
    /\ v.by = m /\ v.from = crRead[m] /\ v.replicas = MyCr(m).size
    /\ IF v.base = 0
       THEN ~Exists(Dep) /\ Exists(v) /\ v.uid = Len(depLog) + 1 /\ v.owner = MyCr(m).uid
       ELSE /\ v.base = Len(depLog)
            /\ Exists(Dep) /\ v.uid = Dep.uid /\ v.owner = Dep.owner

LEMMA ClusterDepStep ==
    ASSUME TypeOK, ClusterNext
    PROVE  depLog' = depLog \/ OtherWrote
  <1>1. Dep \in DepVersion
    BY ObjectsTyped
  <1>2. ASSUME NEW n \in Sizes, Scale(n)
        PROVE  OtherWrote
    <2> DEFINE v == [Dep EXCEPT !.replicas = n, !.by = Other, !.from = 0, !.base = 0]
    <2>1. v \in DepVersion /\ v.by = Other /\ v.uid = Dep.uid /\ v.owner = Dep.owner
      BY <1>1, SizesAssumption DEF DepVersion
    <2> QED BY <1>2, <2>1 DEF Scale, OtherWrote
  <1>5. ASSUME NEW n \in Sizes, Restore(n)
        PROVE  OtherWrote
    <2> DEFINE v == [NoDep EXCEPT !.uid = Len(depLog) + 1, !.replicas = n]
    <2>1. v \in DepVersion /\ v.by = Other /\ v.uid = Len(depLog) + 1 /\ v.owner = 0
      <3>1. NoDep \in DepVersion /\ NoDep.by = Other /\ NoDep.owner = 0
        BY DEF NoDep, DepVersion
      <3>2. Len(depLog) + 1 \in Nat /\ n \in Int
        BY ObjectsTyped, SizesAssumption
      <3> QED BY <3>1, <3>2 DEF DepVersion
    <2> QED BY <1>5, <2>1 DEF Restore, OtherWrote
  <1>3. CASE DropDeployment \/ CollectGarbage
    <2>1. NoDep \in DepVersion /\ NoDep.by = Other
      BY DEF NoDep, DepVersion
    <2> QED BY <1>3, <2>1 DEF DropDeployment, CollectGarbage, OtherWrote
  <1>4. CASE \/ \E n \in Sizes, image \in Images : UserCreate(n, image)
             \/ \E n \in Sizes : UserResize(n)
             \/ UserDelete
             \/ \E p \in Pods : StartPod(p) \/ StopPod(p) \/ LosePod(p)
    BY <1>4 DEF UserCreate, UserResize, UserDelete, StartPod, StopPod, LosePod
  <1> QED BY <1>2, <1>3, <1>4, <1>5 DEF ClusterNext

LEMMA ManagerDepStep ==
    ASSUME TypeOK, HandsOK, NEW m \in Procs, Manager(m)
    PROVE  depLog' = depLog \/ \E v \in DepVersion : OperatorWrote(m, v)
  <1>1. /\ Len(crLog) \in Nat \ {0} /\ Len(depLog) \in Nat \ {0}
        /\ MyCr(m) \in CrVersion /\ MyDep(m) \in DepVersion
        /\ Dep = depLog[Len(depLog)]
    BY ObjectsTyped
  <1>2. crRead[m] \in Nat /\ depRead[m] \in Nat \ {0}
    BY <1>1 DEF TypeOK, IndexesOK
  <1>3. CASE \/ Boot(m) \/ Lead(m) \/ StepDown(m) \/ Crash(m)
             \/ SyncCr(m) \/ SyncDep(m) \/ SyncPods(m)
             \/ Timer(m) \/ Resync(m) \/ Dequeue(m) \/ CallFails(m)
             \/ GetCr(m) \/ GetDeployment(m) \/ ListPods(m)
    BY <1>3 DEF Boot, Lead, StepDown, Crash, Exit, SyncCr, SyncDep, SyncPods, Timer, Resync,
                Dequeue, CallFails, GetCr, GetDeployment, ListPods, clusterVars
  <1>4. CASE CreateDeployment(m)
    <2>1. CASE CreateAllowed(m)
      <3> DEFINE v == NewDeployment(m)
      <3>1. v \in DepVersion
        BY <1>1, <1>2 DEF NewDeployment, DepVersion, CrVersion
      <3>2. /\ v.by = m /\ v.from = crRead[m] /\ v.replicas = MyCr(m).size
            /\ v.base = 0 /\ v.uid = Len(depLog) + 1 /\ v.owner = MyCr(m).uid /\ Exists(v)
        BY <1>1 DEF NewDeployment, Exists
      <3>3. OperatorWrote(m, v)
        BY <1>4, <2>1, <3>2 DEF CreateDeployment, CreateAllowed, OperatorWrote, Requeue, Goto,
                                Forget, cacheVars
      <3> QED BY <3>1, <3>3
    <2>2. CASE ~CreateAllowed(m)
      BY <1>4, <2>2 DEF CreateDeployment
    <2> QED BY <2>1, <2>2
  <1>5. CASE UpdateDeployment(m)
    <2>1. CASE UpdateAllowed(m)
      <3> DEFINE v == ResizedDeployment(m)
      <3>1. v \in DepVersion
        BY <1>1, <1>2 DEF ResizedDeployment, DepVersion, CrVersion
      <3>2. /\ v.by = m /\ v.from = crRead[m] /\ v.replicas = MyCr(m).size
            /\ v.base = depRead[m] /\ v.uid = MyDep(m).uid /\ v.owner = MyDep(m).owner
        BY <1>1 DEF ResizedDeployment, DepVersion
      <3>3. depRead[m] = Len(depLog) /\ MyDep(m) = Dep /\ Exists(Dep)
        BY <1>1, <1>5, <2>1 DEF UpdateAllowed, DepUnchanged, MyDep, UpdateDeployment, HandsOK,
                                HoldsCr, Calls
      <3>4. OperatorWrote(m, v)
        BY <1>2, <1>5, <2>1, <3>2, <3>3 DEF UpdateDeployment, OperatorWrote, Requeue, Goto,
                                Forget, cacheVars
      <3> QED BY <3>1, <3>4
    <2>2. CASE ~UpdateAllowed(m)
      BY <1>5, <2>2 DEF UpdateDeployment
    <2> QED BY <2>1, <2>2
  <1>6. CASE UpdateStatus(m)
    BY <1>6 DEF UpdateStatus
  <1> QED BY <1>3, <1>4, <1>5, <1>6 DEF Manager, Reconcile

LEMMA DepStep ==
    ASSUME TypeOK, HandsOK, [Next]_vars
    PROVE  \/ depLog' = depLog
           \/ OtherWrote
           \/ \E m \in Procs, v \in DepVersion : OperatorWrote(m, v)
  <1>1. CASE LeaseRunsOut \/ LoseLease \/ UNCHANGED vars
    BY <1>1 DEF LeaseRunsOut, LoseLease, vars, clusterVars
  <1> QED BY <1>1, ClusterDepStep, ManagerDepStep DEF Next
----------------------------------------------------------------------------
(* The properties that only speak of the logs.                             *)

(* The log after a step: old versions stay and the new one is the last.    *)
LEMMA AppendedDep ==
    ASSUME TypeOK, NEW v \in DepVersion, depLog' = Append(depLog, v)
    PROVE  /\ Len(depLog) \in Nat \ {0}
           /\ Len(depLog') = Len(depLog) + 1
           /\ \A i \in 1..Len(depLog) : depLog'[i] = depLog[i]
           /\ depLog'[Len(depLog) + 1] = v
           /\ \A i \in 1..Len(depLog') : i \in 1..Len(depLog) \/ i = Len(depLog) + 1
  BY AppendToLog, ObjectsTyped DEF TypeOK, LogsOK

LEMMA NoLostUpdatePreserved ==
    ASSUME TypeOK, HandsOK, NoLostUpdate, [Next]_vars
    PROVE  NoLostUpdate'
  <1>1. CASE depLog' = depLog
    BY <1>1 DEF NoLostUpdate, WrittenByOperator
  <1>2. ASSUME NEW v \in DepVersion, depLog' = Append(depLog, v),
               \/ v.by = Other
               \/ v.base = 0 /\ ~Exists(Dep)
               \/ v.base = Len(depLog) /\ v.uid = Dep.uid
        PROVE  NoLostUpdate'
    <2>1. Dep = depLog[Len(depLog)]
      BY ObjectsTyped
    <2>2. SUFFICES ASSUME NEW i \in 2..Len(depLog'), WrittenByOperator(depLog'[i])
                   PROVE  IF depLog'[i].base = 0
                          THEN ~Exists(depLog'[i-1])
                          ELSE depLog'[i].base = i - 1 /\ depLog'[i].uid = depLog'[i-1].uid
      BY DEF NoLostUpdate, WrittenByOperator
    <2>3. i - 1 \in 1..Len(depLog) /\ depLog'[i-1] = depLog[i-1]
      BY <1>2, AppendedDep
    <2>4. CASE i \in 1..Len(depLog)
      <3>1. depLog'[i] = depLog[i]
        BY <1>2, <2>4, AppendedDep
      <3> QED BY <2>2, <2>3, <2>4, <3>1 DEF NoLostUpdate
    <2>5. CASE i = Len(depLog) + 1
      <3>1. depLog'[i] = v /\ i - 1 = Len(depLog) /\ Len(depLog) # 0
        BY <1>2, <2>5, AppendedDep
      <3> QED BY <1>2, <2>1, <2>2, <2>3, <3>1 DEF WrittenByOperator
    <2> QED BY <1>2, <2>4, <2>5, AppendedDep
  <1> QED BY <1>1, <1>2, DepStep DEF OtherWrote, OperatorWrote

LEMMA WritesWhatWasAskedPreserved ==
    ASSUME TypeOK, HandsOK, WritesWhatWasAsked, [Next]_vars
    PROVE  WritesWhatWasAsked'
  <1>1. /\ Len(crLog) \in Nat /\ Len(crLog') \in Nat /\ Len(crLog) <= Len(crLog')
        /\ \A i \in 1..Len(crLog) : crLog'[i] = crLog[i]
    BY ObjectsTyped, StepGrowsLogs, GrownLogs
  <1> DEFINE Asked(w, log) ==
        WrittenByOperator(w) => /\ w.from \in 1..Len(log)
                                /\ Exists(log[w.from])
                                /\ w.replicas = log[w.from].size
                                /\ w.base = 0 => w.owner = log[w.from].uid
  <1>2. \A i \in 1..Len(depLog) : Asked(depLog[i], crLog)
    BY DEF WritesWhatWasAsked
  <1>3. \A i \in 1..Len(depLog) : Asked(depLog[i], crLog')
    BY <1>1, <1>2
  <1>4. SUFFICES \A i \in 1..Len(depLog') : Asked(depLog'[i], crLog')
    BY DEF WritesWhatWasAsked, WrittenByOperator, Exists
  <1>5. CASE depLog' = depLog
    BY <1>3, <1>5
  <1>6. CASE OtherWrote
    BY <1>3, <1>6, AppendedDep DEF OtherWrote, WrittenByOperator
  <1>7. ASSUME NEW m \in Procs, NEW v \in DepVersion, OperatorWrote(m, v)
        PROVE  \A i \in 1..Len(depLog') : Asked(depLog'[i], crLog')
    <2>1. crRead[m] \in 1..Len(crLog) /\ Exists(MyCr(m))
      BY <1>7 DEF TypeOK, IndexesOK, HandsOK, HoldsCr, OperatorWrote, Calls
    <2>2. Asked(v, crLog')
      <3>1. /\ crLog' = crLog /\ v.from = crRead[m] /\ v.replicas = MyCr(m).size
            /\ v.base = 0 => v.owner = MyCr(m).uid
        BY <1>7 DEF OperatorWrote
      <3> QED BY <2>1, <3>1 DEF MyCr
    <2>3. depLog' = Append(depLog, v)
      BY <1>7 DEF OperatorWrote
    <2> HIDE DEF Asked
    <2> QED BY <1>3, <2>2, <2>3, AppendedDep
  <1> QED BY <1>5, <1>6, <1>7, DepStep
----------------------------------------------------------------------------
(* What a step does to one process: it ends, it starts with any caches, or *)
(* it runs on with caches that are no older and, if it holds a CR       *)
(* afterwards, the CR it held or the one its cache shows.                  *)

Ends(q)   == pc'[q] = "down"
Starts(q) == pc[q] = "down" /\ pc'[q] = "standby"
RunsOn(q) == pc[q] # "down" /\ crSeen[q] <= crSeen'[q]

Drops(q) == pc'[q] \notin Calls \ {"getCr"}
Keeps(q) == /\ HoldsCr(q)
            /\ crRead'[q] = crRead[q]
            /\ pc'[q] = "update" =>
                 \/ pc[q] = "update" /\ depRead'[q] = depRead[q]
                 \/ depRead'[q] \in 1..Len(depLog) /\ Exists(depLog[depRead'[q]])
Takes(q) == /\ crRead'[q] = crSeen[q]
            /\ Exists(crLog[crSeen[q]])
            /\ pc'[q] # "update"

ProcStep(q) == Ends(q) \/ Starts(q) \/ (RunsOn(q) /\ (Drops(q) \/ Keeps(q) \/ Takes(q)))

LEMMA Untouched ==
    ASSUME TypeOK, NEW q \in Procs,
           pc'[q] = pc[q], crSeen'[q] = crSeen[q], crRead'[q] = crRead[q],
           depRead'[q] = depRead[q]
    PROVE  ProcStep(q)
  <1>1. crSeen[q] \in Nat
    BY ObjectsTyped DEF TypeOK, IndexesOK
  <1> QED BY <1>1 DEF ProcStep, Ends, RunsOn, Drops, Keeps, HoldsCr

LEMMA ProcSteps ==
    ASSUME TypeOK, [Next]_vars, NEW q \in Procs
    PROVE  ProcStep(q)
  <1>1. /\ pc \in [Procs -> States]
        /\ crSeen \in [Procs -> Nat] /\ crRead \in [Procs -> Nat] /\ depRead \in [Procs -> Nat]
        /\ depSeen \in [Procs -> 1..Len(depLog)]
    <2>1. Len(crLog) \in Nat /\ Len(depLog) \in Nat
      BY ObjectsTyped
    <2>2. pc \in [Procs -> States]
      BY DEF TypeOK, ProcsOK
    <2>3. /\ crSeen \in [Procs -> 1..Len(crLog)] /\ crRead \in [Procs -> 1..Len(crLog)]
          /\ depSeen \in [Procs -> 1..Len(depLog)] /\ depRead \in [Procs -> 1..Len(depLog)]
      BY DEF TypeOK, IndexesOK
    <2> QED BY <2>1, <2>2, <2>3
  <1>2. CASE UNCHANGED <<pc, crSeen, crRead, depRead>>
    BY <1>2, Untouched
  <1>3. CASE (ClusterNext /\ UNCHANGED procVars) \/ LeaseRunsOut \/ LoseLease \/ UNCHANGED vars
    BY <1>2, <1>3 DEF LeaseRunsOut, LoseLease, vars, procVars, cacheVars, readVars
  <1>4. ASSUME NEW m \in Procs, Manager(m)
        PROVE  ProcStep(q)
    <2> USE DEF Goto
    <2>1. CASE Boot(m)
      <3>1. CASE q = m
        BY <1>1, <2>1, <3>1 DEF Boot, ProcStep, Starts
      <3>2. CASE q # m
        BY <1>1, <2>1, <3>2, Untouched DEF Boot, readVars
      <3> QED BY <3>1, <3>2
    <2>2. CASE Lead(m) \/ Dequeue(m)
      <3>1. CASE q = m
        BY <1>1, <2>2, <3>1 DEF Lead, Dequeue, cacheVars, Calls, ProcStep, RunsOn, Drops
      <3>2. CASE q # m
        BY <1>1, <2>2, <3>2, Untouched DEF Lead, Dequeue, cacheVars, readVars
      <3> QED BY <3>1, <3>2
    <2>3. CASE StepDown(m) \/ Crash(m)
      <3>1. Exit(m)
        BY <2>3 DEF StepDown, Crash
      <3>2. CASE q = m
        BY <1>1, <3>1, <3>2 DEF Exit, ProcStep, Ends
      <3>3. CASE q # m
        BY <1>1, <3>1, <3>3, Untouched DEF Exit, Forget
      <3> QED BY <3>2, <3>3
    <2>4. CASE SyncCr(m)
      <3>1. /\ crSeen' = [crSeen EXCEPT ![m] = @ + 1] /\ pc[m] # "down"
            /\ UNCHANGED <<pc, crRead, depRead>>
        BY <2>4 DEF SyncCr, Advance, readVars
      <3>2. CASE q = m
        BY <1>1, <3>1, <3>2 DEF ProcStep, RunsOn, Drops, Keeps, HoldsCr
      <3>3. CASE q # m
        BY <1>1, <3>1, <3>3, Untouched
      <3> QED BY <3>2, <3>3
    <2>5. CASE SyncDep(m) \/ SyncPods(m) \/ Timer(m) \/ Resync(m)
      BY <1>2, <2>5 DEF SyncDep, SyncPods, Timer, Resync, cacheVars, readVars
    <2>6. ASSUME pc[m] # "down", UNCHANGED cacheVars, Forget(m), Goto(m, "idle")
          PROVE  ProcStep(q)
      <3>1. CASE q = m
        BY <1>1, <2>6, <3>1 DEF cacheVars, Calls, ProcStep, RunsOn, Drops
      <3>2. CASE q # m
        BY <1>1, <2>6, <3>2, Untouched DEF cacheVars, Forget
      <3> QED BY <3>1, <3>2
    <2>7. CASE CallFails(m) \/ CreateDeployment(m) \/ UpdateDeployment(m) \/ UpdateStatus(m)
      <3>1. pc[m] # "down"
        BY <2>7 DEF CallFails, CreateDeployment, UpdateDeployment, UpdateStatus, Calls
      <3> QED BY <2>6, <2>7, <3>1
              DEF CallFails, CreateDeployment, UpdateDeployment, UpdateStatus, Return, Requeue
    <2>8. CASE GetCr(m)
      <3>1. CASE ~Exists(crLog[crSeen[m]])
        BY <2>6, <2>8, <3>1 DEF GetCr, Return
      <3>2. CASE Exists(crLog[crSeen[m]])
        <4>1. /\ pc[m] # "down" /\ pc' = [pc EXCEPT ![m] = "getDeployment"]
              /\ crRead' = [crRead EXCEPT ![m] = crSeen[m]]
              /\ UNCHANGED <<crSeen, depRead>>
          BY <2>8, <3>2 DEF GetCr, cacheVars
        <4>2. CASE q = m
          BY <1>1, <3>2, <4>1, <4>2 DEF ProcStep, RunsOn, Takes
        <4>3. CASE q # m
          BY <1>1, <4>1, <4>3, Untouched
        <4> QED BY <4>2, <4>3
      <3> QED BY <3>1, <3>2
    <2>9. CASE GetDeployment(m)
      <3>1. /\ pc[m] = "getDeployment" /\ depRead' = [depRead EXCEPT ![m] = depSeen[m]]
            /\ UNCHANGED <<crSeen, crRead>>
        BY <2>9 DEF GetDeployment, cacheVars
      <3>2. PICK place : /\ pc' = [pc EXCEPT ![m] = place]
                         /\ place = "update" => Exists(depLog[depSeen[m]])
        BY <2>9 DEF GetDeployment
      <3>3. CASE q = m
        <4>1. HoldsCr(q) /\ depRead'[q] = depSeen[m] /\ pc'[q] = place
          BY <1>1, <3>1, <3>2, <3>3 DEF HoldsCr, Calls
        <4> QED BY <1>1, <3>1, <3>2, <3>3, <4>1 DEF ProcStep, RunsOn, Keeps
      <3>4. CASE q # m
        BY <1>1, <3>1, <3>2, <3>4, Untouched
      <3> QED BY <3>3, <3>4
    <2>10. CASE ListPods(m)
      <3>1. /\ pc[m] = "listPods" /\ UNCHANGED cacheVars
            /\ \/ Return(m)
               \/ Goto(m, "updateStatus") /\ UNCHANGED <<crRead, depRead>>
        BY <2>10 DEF ListPods
      <3>2. CASE Return(m)
        BY <2>6, <3>1, <3>2 DEF Return
      <3>3. CASE Goto(m, "updateStatus") /\ UNCHANGED <<crRead, depRead>>
        <4>1. CASE q = m
          BY <1>1, <3>1, <3>3, <4>1 DEF cacheVars, ProcStep, RunsOn, Keeps, HoldsCr, Calls
        <4>2. CASE q # m
          BY <1>1, <3>1, <3>3, <4>2, Untouched DEF cacheVars
        <4> QED BY <4>1, <4>2
      <3> QED BY <3>1, <3>2, <3>3
    <2> QED BY <1>4, <2>1, <2>2, <2>3, <2>4, <2>5, <2>7, <2>8, <2>9, <2>10 DEF Manager, Reconcile
  <1> QED BY <1>3, <1>4 DEF Next
----------------------------------------------------------------------------
(* The inductive invariant.                                                *)

(* A life begins where the one before it ended; nothing else moves it.     *)
LEMMA LifeStep ==
    ASSUME TypeOK, [Next]_vars, NEW q \in Procs
    PROVE  \/ since'[q] = since[q] /\ (pc'[q] = "down" => pc[q] = "down")
           \/ since'[q] = Len(depLog) /\ depLog' = depLog
  <1>1. pc \in [Procs -> States] /\ since \in [Procs -> 1..Len(depLog)]
    BY DEF TypeOK, ProcsOK, IndexesOK
  <1>2. CASE \E m \in Procs : Exit(m)
    BY <1>1, <1>2 DEF Exit, Goto, clusterVars
  <1>3. CASE ~\E m \in Procs : Exit(m)
    <2>1. since' = since
      BY <1>3, SinceStep
    <2>2. CASE (ClusterNext /\ UNCHANGED procVars) \/ LeaseRunsOut \/ LoseLease \/ UNCHANGED vars
      BY <2>1, <2>2 DEF LeaseRunsOut, LoseLease, vars, procVars
    <2>3. ASSUME NEW m \in Procs, Manager(m)
          PROVE  UNCHANGED pc \/ \E place : place # "down" /\ pc' = [pc EXCEPT ![m] = place]
      BY <1>3, <2>3 DEF Manager, Reconcile, Boot, Lead, StepDown, Crash, SyncCr, SyncDep,
             SyncPods, Timer, Resync, Dequeue, CallFails, GetCr, GetDeployment, CreateDeployment,
             UpdateDeployment, ListPods, UpdateStatus, Return, Requeue, Goto
    <2> QED BY <1>1, <2>1, <2>2, <2>3 DEF Next
  <1> QED BY <1>2, <1>3

LEMMA HandsOKPreserved ==
    ASSUME TypeOK, HandsOK, [Next]_vars
    PROVE  HandsOK'
  <1>1. /\ Len(crLog) \in Nat /\ Len(depLog) \in Nat
        /\ \A i \in 1..Len(crLog) : crLog'[i] = crLog[i]
        /\ \A i \in 1..Len(depLog) : depLog'[i] = depLog[i]
    BY ObjectsTyped, StepGrowsLogs, GrownLogs
  <1>2. SUFFICES ASSUME NEW q \in Procs, pc'[q] \in Calls \ {"getCr"}
                 PROVE  /\ crRead'[q] <= crSeen'[q]
                        /\ Exists(crLog'[crRead'[q]])
                        /\ pc'[q] = "update" => Exists(depLog'[depRead'[q]])
    BY DEF HandsOK, HoldsCr, MyCr, MyDep, Exists
  <1>3. /\ crSeen[q] \in 1..Len(crLog) /\ crRead[q] \in 1..Len(crLog)
        /\ depRead[q] \in 1..Len(depLog)
        /\ crSeen'[q] \in Int
    <2>1. crSeen' \in [Procs -> 1..Len(crLog')] /\ Len(crLog') \in Nat
      BY IndexesPreserved, StepGrowsLogs, GrownLogs DEF IndexesOK
    <2> QED BY <2>1 DEF TypeOK, IndexesOK
  <1>4. RunsOn(q) /\ (Keeps(q) \/ Takes(q))
    BY <1>2, ProcSteps DEF ProcStep, Ends, Starts, Drops, Calls
  <1>5. CASE Keeps(q)
    <2>1. crRead[q] <= crSeen[q] /\ Exists(crLog[crRead[q]])
      BY <1>5 DEF Keeps, HandsOK, MyCr
    <2>2. pc'[q] = "update" => depRead'[q] \in 1..Len(depLog) /\ Exists(depLog[depRead'[q]])
      BY <1>3, <1>5 DEF Keeps, HandsOK, MyDep
    <2>3. crRead'[q] = crRead[q] /\ crSeen[q] <= crSeen'[q]
      BY <1>4, <1>5 DEF Keeps, RunsOn
    <2>4. crRead'[q] <= crSeen'[q]
      BY <1>1, <1>3, <2>1, <2>3
    <2> QED BY <1>1, <1>3, <2>1, <2>2, <2>3, <2>4
  <1>6. CASE Takes(q)
    BY <1>1, <1>3, <1>4, <1>6 DEF Takes, RunsOn
  <1> QED BY <1>4, <1>5, <1>6

LEMMA NotBehindPreserved ==
    ASSUME SafetyInv, [Next]_vars
    PROVE  NotBehind'
  <1>1. TypeOK /\ HandsOK /\ NotBehind /\ WritesWhatWasAsked
    BY DEF SafetyInv
  <1> DEFINE Behind(w, i, start, down, seen, holds, read) ==
        WrittenByOperator(w) /\ start < i =>
            /\ ~down
            /\ w.from <= seen
            /\ holds => w.from <= read
             Covered(w, i) == Behind(w, i, since'[w.by], pc'[w.by] = "down", crSeen'[w.by],
                                     pc'[w.by] \in Calls \ {"getCr"}, crRead'[w.by])
  <1>2. SUFFICES \A i \in 1..Len(depLog') : Covered(depLog'[i], i)
    BY DEF NotBehind, WrittenByOperator, HoldsCr, Exists
  <1>3. \A i \in 1..Len(depLog) : Covered(depLog[i], i)
    <2> SUFFICES ASSUME NEW i \in 1..Len(depLog), WrittenByOperator(depLog[i]),
                        since'[depLog[i].by] < i
                 PROVE  Covered(depLog[i], i)
      OBVIOUS
    <2> DEFINE w == depLog[i]  q == depLog[i].by
    <2>1. w \in DepVersion
      BY <1>1, ElementOfSeq DEF TypeOK, LogsOK
    <2>2. q \in Procs /\ w.from \in Nat
      BY <2>1 DEF DepVersion, WrittenByOperator
    <2>3. since'[q] = since[q] /\ (pc'[q] = "down" => pc[q] = "down")
      <3>1. Len(depLog) \in Nat
        BY <1>1, ObjectsTyped
      <3>2. since'[q] # Len(depLog)
        BY <3>1
      <3> QED BY <1>1, <2>2, <3>2, LifeStep
    <2>4. /\ pc[q] # "down"
          /\ w.from <= crSeen[q]
          /\ HoldsCr(q) => w.from <= crRead[q]
      BY <1>1, <2>3 DEF NotBehind
    <2>5. /\ crSeen[q] \in Int /\ crRead[q] \in Int /\ crSeen'[q] \in Int
      <3>1. Len(crLog) \in Nat /\ Len(crLog') \in Nat
        BY <1>1, ObjectsTyped, StepGrowsLogs, GrownLogs
      <3>2. crSeen' \in [Procs -> 1..Len(crLog')]
        BY <1>1, IndexesPreserved DEF IndexesOK
      <3> QED BY <1>1, <2>2, <3>1, <3>2 DEF TypeOK, IndexesOK
    <2>6. RunsOn(q) /\ (Drops(q) \/ Keeps(q) \/ Takes(q))
      BY <1>1, <2>2, <2>3, <2>4, ProcSteps DEF ProcStep, Ends, Starts
    <2>7. pc'[q] # "down" /\ w.from <= crSeen'[q]
      BY <2>2, <2>3, <2>4, <2>5, <2>6 DEF RunsOn
    <2>8. CASE Drops(q)
      BY <2>7, <2>8 DEF Drops
    <2>9. CASE Keeps(q)
      BY <2>4, <2>7, <2>9 DEF Keeps
    <2>10. CASE Takes(q)
      BY <2>4, <2>7, <2>10 DEF Takes
    <2> QED BY <2>6, <2>8, <2>9, <2>10
  <1>4. CASE depLog' = depLog
    BY <1>3, <1>4
  <1>5. CASE OtherWrote
    <2>1. PICK v \in DepVersion : depLog' = Append(depLog, v) /\ v.by = Other
      BY <1>5 DEF OtherWrote
    <2>2. \A i : Covered(v, i)
      BY <2>1 DEF WrittenByOperator
    <2> HIDE DEF Covered
    <2> QED BY <1>1, <1>3, <2>1, <2>2, AppendedDep
  <1>6. ASSUME NEW m \in Procs, NEW v \in DepVersion, OperatorWrote(m, v)
        PROVE  \A i \in 1..Len(depLog') : Covered(depLog'[i], i)
    <2>1. depLog' = Append(depLog, v) /\ v.by = m /\ v.from = crRead[m] /\ crSeen' = crSeen
      BY <1>6 DEF OperatorWrote
    <2>2. crRead[m] <= crSeen[m]
      BY <1>1, <1>6 DEF OperatorWrote, HandsOK, HoldsCr, Calls
    <2>3. pc'[m] = "idle"
      BY <1>1, <1>6 DEF OperatorWrote, TypeOK, ProcsOK
    <2>4. \A i : Covered(v, i)
      BY <2>1, <2>2, <2>3 DEF Calls
    <2> HIDE DEF Covered
    <2> QED BY <1>1, <1>3, <2>1, <2>4, AppendedDep
  <1> QED BY <1>1, <1>4, <1>5, <1>6, DepStep

LEMMA NeverBackwardsPreserved ==
    ASSUME SafetyInv, [Next]_vars
    PROVE  NeverBackwards'
  <1>1. TypeOK /\ HandsOK /\ NotBehind /\ NeverBackwards
    BY DEF SafetyInv
  <1> DEFINE By(m, v) == WrittenByOperator(v) /\ v.by = m
             InOrder(m, v, w) == By(m, v) /\ By(m, w) => v.from <= w.from
  <1>2. SUFFICES ASSUME NEW m \in Procs,
                        NEW j \in (since'[m] + 1)..Len(depLog'), NEW i \in (since'[m] + 1)..j
                 PROVE  InOrder(m, depLog'[i], depLog'[j])
    BY DEF NeverBackwards, WrittenByOperator, Exists
  <1>3. Len(depLog) \in Nat /\ Len(depLog') \in Nat /\ since[m] \in 1..Len(depLog)
    BY <1>1, ObjectsTyped, StepGrowsLogs, GrownLogs DEF TypeOK, IndexesOK
  <1>4. since'[m] = since[m]
    <2>1. since'[m] \in Nat
      BY <1>1, <1>3, IndexesPreserved DEF IndexesOK
    <2>2. ~(since'[m] = Len(depLog) /\ depLog' = depLog)
      BY <1>3, <2>1
    <2> QED BY <1>1, <2>2, LifeStep
  <1>5. j \in 1..Len(depLog') /\ i \in 1..Len(depLog') /\ since[m] < i /\ i <= j
    BY <1>3, <1>4
  <1>6. ASSUME j \in 1..Len(depLog)
        PROVE  InOrder(m, depLog[i], depLog[j])
    BY <1>1, <1>3, <1>5, <1>6 DEF NeverBackwards
  <1>7. CASE depLog' = depLog
    BY <1>5, <1>6, <1>7
  <1>8. ASSUME NEW v \in DepVersion, depLog' = Append(depLog, v),
               i \in 1..Len(depLog) => InOrder(m, depLog[i], v)
        PROVE  InOrder(m, depLog'[i], depLog'[j])
    <2>1. /\ Len(depLog') = Len(depLog) + 1
          /\ \A k \in 1..Len(depLog) : depLog'[k] = depLog[k]
          /\ depLog'[Len(depLog) + 1] = v
      BY <1>1, <1>8, AppendedDep
    <2>2. InOrder(m, v, v)
      BY DEF DepVersion
    <2> HIDE DEF InOrder
    <2>3. CASE j \in 1..Len(depLog)
      <3>1. i \in 1..Len(depLog)
        BY <1>3, <1>5, <2>3
      <3> QED BY <1>6, <2>1, <2>3, <3>1
    <2>4. CASE j = Len(depLog) + 1
      <3>1. i \in 1..Len(depLog) \/ i = Len(depLog) + 1
        BY <1>3, <1>5, <2>1
      <3> QED BY <1>8, <2>1, <2>2, <2>4, <3>1
    <2> QED BY <1>3, <1>5, <2>1, <2>3, <2>4
  <1>9. CASE OtherWrote
    <2>1. PICK v \in DepVersion : depLog' = Append(depLog, v) /\ v.by = Other
      BY <1>9 DEF OtherWrote
    <2>2. InOrder(m, depLog[i], v)
      BY <2>1 DEF WrittenByOperator
    <2> HIDE DEF InOrder
    <2> QED BY <1>8, <2>1, <2>2
  <1>10. ASSUME NEW q \in Procs, NEW v \in DepVersion, OperatorWrote(q, v)
         PROVE  InOrder(m, depLog'[i], depLog'[j])
    <2>1. depLog' = Append(depLog, v) /\ v.by = q /\ v.from = crRead[q] /\ HoldsCr(q)
      BY <1>10 DEF OperatorWrote, HoldsCr, Calls
    <2>2. i \in 1..Len(depLog) => InOrder(m, depLog[i], v)
      BY <1>1, <1>5, <2>1 DEF NotBehind
    <2> HIDE DEF InOrder
    <2> QED BY <1>8, <2>1, <2>2
  <1> HIDE DEF InOrder
  <1> QED BY <1>1, <1>7, <1>9, <1>10, DepStep

LEMMA InitSafe ==
    ASSUME Init
    PROVE  SafetyInv
  <1>1. TypeOK
    BY InitTyped
  <1>2. depLog = <<NoDep>> /\ Len(depLog) = 1 /\ depLog[1] = NoDep
    BY DEF Init, ClusterInit
  <1>3. \A i \in 1..Len(depLog) : ~WrittenByOperator(depLog[i])
    BY <1>2 DEF WrittenByOperator, NoDep, Exists
  <1>4. HandsOK
    BY DEF Init, OperatorInit, HandsOK, HoldsCr, Calls
  <1>5. NoLostUpdate
    BY <1>2 DEF NoLostUpdate
  <1>6. NotBehind /\ WritesWhatWasAsked
    BY <1>2, <1>3 DEF NotBehind, WritesWhatWasAsked
  <1>7. NeverBackwards
    BY <1>2 DEF Init, OperatorInit, NeverBackwards
  <1> QED BY <1>1, <1>4, <1>5, <1>6, <1>7 DEF SafetyInv

LEMMA SafetyInductive == SafetyInv /\ [Next]_vars => SafetyInv'
  <1> SUFFICES ASSUME SafetyInv, [Next]_vars
               PROVE  SafetyInv'
    OBVIOUS
  <1>1. TypeOK'
    BY StepGrowsLogs, GrownLogs, IndexesPreserved, ProcsPreserved DEF SafetyInv, TypeOK
  <1>2. HandsOK'
    BY HandsOKPreserved DEF SafetyInv
  <1>3. NoLostUpdate' /\ WritesWhatWasAsked'
    BY NoLostUpdatePreserved, WritesWhatWasAskedPreserved DEF SafetyInv
  <1> QED BY <1>1, <1>2, <1>3, NotBehindPreserved, NeverBackwardsPreserved DEF SafetyInv

LEMMA SafetyHolds == Spec => []SafetyInv
  BY InitSafe, SafetyInductive, PTL DEF Spec

(* For any number of operator processes, also several at a time: a write   *)
(* to the Deployment replaces exactly the version that was read.           *)
THEOREM NoUpdateIsLost == Spec => []NoLostUpdate
  <1>1. SafetyInv => NoLostUpdate
    BY DEF SafetyInv
  <1> QED BY SafetyHolds, <1>1, PTL

(* As long as it lives, a process never writes the Deployment for an older *)
(* version of the CR than it did before, over any retries, lost leases and *)
(* delays of its caches.  (One that is started again may.)                 *)
THEOREM NeverGoesBackwards == Spec => []NeverBackwards
  <1>1. SafetyInv => NeverBackwards
    BY DEF SafetyInv
  <1> QED BY SafetyHolds, <1>1, PTL

(* The Deployment was created in its log, and if nobody's operator created *)
(* it, it has no owner.                                                    *)
ForeignInv ==
    Exists(Dep) => /\ Dep.uid \in 1..Len(depLog)
                   /\ Foreign(Dep) => Dep.owner = 0

LEMMA ForeignInvPreserved ==
    ASSUME SafetyInv, ForeignInv, [Next]_vars
    PROVE  ForeignInv'
  <1>1. TypeOK /\ HandsOK
    BY DEF SafetyInv
  <1>2. CASE depLog' = depLog
    BY <1>2 DEF ForeignInv, Foreign, Dep, Exists
  <1>3. ASSUME NEW v \in DepVersion, depLog' = Append(depLog, v),
               \/ ~Exists(v)
               \/ Exists(Dep) /\ v.uid = Dep.uid /\ v.owner = Dep.owner
               \/ v.uid = Len(depLog) + 1 /\ (v.by = Other => v.owner = 0)
        PROVE  ForeignInv'
    <2>1. /\ Len(depLog) \in Nat /\ Len(depLog') = Len(depLog) + 1
          /\ \A i \in 1..Len(depLog) : depLog'[i] = depLog[i]
          /\ depLog'[Len(depLog) + 1] = v
      BY <1>1, <1>3, AppendedDep
    <2>2. Dep' = v
      <3>1. Dep' = Last(depLog')
        BY DEF Dep
      <3>2. Last(Append(depLog, v)) = v
        BY <1>1, AppendToLog DEF TypeOK, LogsOK
      <3> QED BY <1>3, <3>1, <3>2
    <2>3. CASE ~Exists(v)
      BY <2>2, <2>3 DEF ForeignInv, Exists
    <2>4. CASE Exists(Dep) /\ v.uid = Dep.uid /\ v.owner = Dep.owner
      BY <2>1, <2>2, <2>4 DEF ForeignInv, Foreign, Exists
    <2>5. CASE v.uid = Len(depLog) + 1 /\ (v.by = Other => v.owner = 0)
      BY <2>1, <2>2, <2>5 DEF ForeignInv, Foreign, Exists
    <2> QED BY <1>3, <2>3, <2>4, <2>5
  <1>4. CASE OtherWrote
    BY <1>3, <1>4 DEF OtherWrote, NoDep, Exists
  <1>5. ASSUME NEW m \in Procs, NEW v \in DepVersion, OperatorWrote(m, v)
        PROVE  ForeignInv'
    <2>1. m # Other
      BY OtherAssumption
    <2> QED BY <1>3, <1>5, <2>1 DEF OperatorWrote
  <1> QED BY <1>1, <1>2, <1>4, <1>5, DepStep

LEMMA ForeignStaysOneStep ==
    ASSUME SafetyInv, ForeignInv, [Next]_vars, Foreign(Dep), ops' = ops
    PROVE  Exists(Dep')
  <1>1. /\ TypeOK /\ HandsOK /\ ops \in Nat
        /\ Exists(Dep) /\ Dep.owner = 0
    BY DEF SafetyInv, TypeOK, ProcsOK, Foreign, ForeignInv
  <1>2. CASE depLog' = depLog
    BY <1>1, <1>2 DEF Dep
  <1>3. CASE ClusterNext
    <2>1. ~Spend
      BY <1>1 DEF Spend
    <2> QED BY <1>1, <1>2, <1>3, <2>1 DEF ClusterNext, UserCreate, UserResize, Scale, Restore,
            UserDelete, DropDeployment, CollectGarbage, StartPod, StopPod, LosePod
  <1>4. ASSUME NEW m \in Procs, NEW v \in DepVersion, OperatorWrote(m, v)
        PROVE  Exists(Dep')
    <2>1. Exists(v) /\ depLog' = Append(depLog, v)
      BY <1>1, <1>4 DEF OperatorWrote, Exists
    <2>2. Dep' = Last(depLog')
      BY DEF Dep
    <2>3. Last(Append(depLog, v)) = v
      BY <1>1, AppendToLog DEF TypeOK, LogsOK
    <2> QED BY <2>1, <2>2, <2>3 DEF Exists
  <1>5. CASE LeaseRunsOut \/ LoseLease \/ UNCHANGED vars
    BY <1>2, <1>5 DEF LeaseRunsOut, LoseLease, vars, clusterVars
  <1> QED BY <1>1, <1>2, <1>3, <1>4, <1>5, ManagerDepStep DEF Next

(* However often the CR comes and goes, a Deployment the operator only     *)
(* found and resized is taken away by nobody but a user: not by the        *)
(* operator, and not by the garbage collector.                             *)
THEOREM ForeignDeploymentsSurvive == Spec => ForeignSurvives
  <1>1. Init => ForeignInv
    BY DEF Init, ClusterInit, ForeignInv, Dep, Last, NoDep, Exists
  <1>2. SafetyInv /\ ForeignInv /\ [Next]_vars => ForeignInv'
    BY ForeignInvPreserved
  <1>3. SafetyInv /\ ForeignInv /\ [Next]_vars
          => [Foreign(Dep) /\ ops' = ops => Exists(Dep')]_vars
    BY ForeignStaysOneStep
  <1> QED BY <1>1, <1>2, <1>3, SafetyHolds, PTL DEF Spec, ForeignSurvives

(* Size and owner an operator writes are those of one version of a CR that *)
(* existed.                                                                *)
THEOREM WritesOnlyWhatWasAsked == Spec => []WritesWhatWasAsked
  <1>1. SafetyInv => WritesWhatWasAsked
    BY DEF SafetyInv
  <1> QED BY SafetyHolds, <1>1, PTL
============================================================================
