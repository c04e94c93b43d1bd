------------------------ MODULE DeliverySafetyProofs -----------------------
(***************************************************************************)
(* Proofs of what module Delivery promises about terraform's state and the *)
(* published versions, for any number of pushes, faults and jobs that are  *)
(* run again.                                                              *)
(***************************************************************************)
EXTENDS DeliveryProofs

(* Terraform's state.  A plan that can still be applied asks for the       *)
(* cluster exactly when the state has none; what a holder of the lock has  *)
(* done beyond the state follows from the step it is at.  That holds while *)
(* the state is not doubtful.  What a job is about to write is true at any *)
(* time (WorkInv), and so a write ends the doubt.                          *)

PlanFits(n) == planned[n].serial = state.serial /\ (planned[n].create <=> ~state.cluster)

AtApply(n)  == planned[n].serial = state.serial => PlanFits(n)
AtCreate(n) == PlanFits(n) /\ state.cluster = cluster
AtSave(n)   == PlanFits(n) /\ (IF planned[n].create THEN cluster ELSE state.cluster = cluster)
AtRemove(n) == state.cluster = cluster
AtForget(n) == ~cluster

Progress(n) ==
    /\ At(n, "apply")  => AtApply(n)
    /\ At(n, "create") => AtCreate(n)
    /\ At(n, "save")   => AtSave(n)
    /\ At(n, "remove") => AtRemove(n)
    /\ At(n, "forget") => AtForget(n)

LockInv  == \A n \in Pushes : Holding(n) => lock = n
PlanInv  == \A n \in Pushes : planned[n].serial <= state.serial
SeenInv  == \A n \in Pushes : At(n, "create") \/ At(n, "save") => planned[n].serial = state.serial
WorkInv  == \A n \in Pushes : /\ At(n, "save") /\ planned[n].create => cluster
                              /\ At(n, "forget") /\ state.cluster => ~cluster
TruthInv == ~doubtful => (Unlocked => state.cluster = cluster) /\ \A n \in Pushes : Progress(n)

IInv == LockInv /\ PlanInv /\ SeenInv /\ WorkInv /\ TruthInv

(* Versions.  A job that ended well and published nothing found a hash     *)
(* that some job of the run had pushed, and a job that has pushed a hash   *)
(* publishes its version or does not end well.                             *)
PushedHash(n, v) ==
    \/ place[n][v] \in {"pushVersion", "failed", "cancelled"}
    \/ <<n, v>> \in again
    \/ v \in published[n]

HashInv == \A n \in Pushes : \E v \in Versions :
              registry.hash[n] # NoImage => PushedHash(n, v)
DoneInv == \A n \in Pushes, v \in Versions : place[n][v] = "done" =>
              <<n, v>> \in again \/ \E u \in Versions : PushedHash(n, u)

(* Cancelled runs.                                                         *)
CancelInv ==
    \A n \in DOMAIN messages, k \in Pushes, w \in Workflows : \A job \in JobsOf(w) :
       k < n /\ <<n, w>> \notin cancelling /\ Running(k, job) => <<k, job>> \in again
CommitInv == \A v \in Versions : registry.version[v].commit \in 0..Len(messages)
----------------------------------------------------------------------------
(* Where a step leaves the jobs of aws.yml.                                *)

Critical == {"apply", "create", "save", "configure", "remove", "forget"}

LEMMA OneStep ==
    ASSUME WorkflowOK, NEW n \in Pushes, NEW step, n \in DOMAIN messages,
           Step(n, step), UNCHANGED messages
    PROVE  /\ \A s : At(n, s)' <=> s = step
           /\ \A k \in Pushes \ {n} : \A s : At(k, s)' <=> At(k, s)
  <1>1. \A k : Job(k)' = Job(k) /\ Job(k) \in Jobs
    BY JobOfPush DEF Job
  <1>2. /\ place'[n][Job(n)] = step
        /\ \A k \in Pushes, j \in Jobs : <<k, j>> # <<n, Job(n)>> => place'[k][j] = place[k][j]
    BY <1>1, OneJobMoves DEF Step
  <1> QED BY <1>1, <1>2 DEF At

LEMMA BuildsStayAway ==
    ASSUME WorkflowOK, NEW n \in Pushes, NEW v \in Versions, Build(n, v),
           NEW k \in Pushes, NEW s
    PROVE  At(k, s)' <=> At(k, s)
  <1>1. Job(k) \in Jobs /\ Job(k) # v
    BY JobOfPush
  <1>2. UNCHANGED messages
    BY DEF Build, DescribeRepository, CreateRepository, LookUpUri, DescribeImages,
           PushHash, PushVersion
  <1>3. Job(k)' = Job(k)
    BY <1>2 DEF Job
  <1>4. \E step : Goto(n, v, step)
    BY DEF Build, DescribeRepository, CreateRepository, LookUpUri, DescribeImages,
           PushHash, PushVersion
  <1>5. PICK step : Goto(n, v, step)
    BY <1>4
  <1>6. v \in Jobs
    BY StepSets
  <1>7. place'[k][Job(k)] = place[k][Job(k)]
    BY <1>1, <1>5, <1>6, OneJobMoves
  <1> QED BY <1>2, <1>3, <1>7 DEF At

LEMMA WorkflowStaysAway ==
    ASSUME WorkflowOK, WorkflowNext, NEW k \in Pushes, NEW s \in Critical, At(k, s)'
    PROVE  At(k, s)
  <1>1. FirstStep(Job(k)') = "plan" /\ Job(k)' \in Jobs
    BY DEF FirstStep, Job, JobsOf, Jobs
  <1>2. s \notin Ended \cup {"plan"}
    BY DEF Critical, Ended
  <1>3. ASSUME NEW message \in Messages, Push(message) PROVE At(k, s)
    <2> DEFINE n == Len(messages) + 1
    <2>1. messages \in Seq(Messages) /\ place \in [Pushes -> [Jobs -> Places]]
      BY DEF WorkflowOK, Places
    <2>2. /\ n \in Pushes
          /\ messages' = Append(messages, message)
          /\ place' = [place EXCEPT ![n] =
               [job \in Jobs |-> IF job \in Selected(message) THEN FirstStep(job) ELSE "none"]]
      BY <1>3, <2>1, PushesAssumption DEF Push, Pushes
    <2>3. CASE k = n
      BY <1>1, <1>2, <2>1, <2>2, <2>3 DEF At, Ended
    <2>4. CASE k # n
      <3>1. k \in DOMAIN messages' => k \in DOMAIN messages /\ messages'[k] = messages[k]
        BY <2>1, <2>2, <2>4, AppendProperties
      <3>2. place'[k] = place[k]
        BY <2>1, <2>2, <2>4
      <3> QED BY <3>1, <3>2 DEF At, Job
    <2> QED BY <2>3, <2>4
  <1>4. ASSUME NEW m \in Pushes, NEW workflow \in Workflows, CancelPrevious(m, workflow)
        PROVE At(k, s)
    BY <1>1, <1>2, <1>4 DEF CancelPrevious, At, Job, Ended
  <1>5. ASSUME NEW m \in Pushes, NEW job \in Jobs, Die(m, job) \/ Rerun(m, job)
        PROVE At(k, s)
    <2>1. PICK step \in {"failed", FirstStep(job)} : Goto(m, job, step)
      BY <1>5 DEF Die, Rerun
    <2>2. UNCHANGED messages /\ Job(k)' = Job(k)
      BY <1>5 DEF Die, Rerun, Job
    <2>3. CASE k = m /\ Job(k) = job
      BY <1>1, <1>2, <2>1, <2>2, <2>3, OneJobMoves DEF At, Ended
    <2>4. CASE ~(k = m /\ Job(k) = job)
      BY <1>1, <2>1, <2>2, <2>4, OneJobMoves DEF At
    <2> QED BY <2>3, <2>4
  <1> QED BY <1>3, <1>4, <1>5 DEF WorkflowNext
----------------------------------------------------------------------------
LEMMA QuietStep ==
    ASSUME IInv, UNCHANGED <<cluster, state, lock, planned, doubtful>>,
           \A k \in Pushes, s \in Critical : At(k, s)' => At(k, s)
    PROVE  IInv'
  <1>1. LockInv'
    BY DEF IInv, LockInv, Holding, Critical
  <1>2. PlanInv'
    BY DEF IInv, PlanInv
  <1>3. TruthInv'
    <2>1. ASSUME NEW n \in Pushes, Progress(n) PROVE Progress(n)'
      BY <2>1 DEF Progress, Critical, AtApply, AtCreate, AtSave, AtRemove, AtForget, PlanFits
    <2> QED BY <2>1 DEF IInv, TruthInv, Unlocked
  <1>4. SeenInv' /\ WorkInv'
    BY DEF IInv, SeenInv, WorkInv, Critical
  <1> QED BY <1>1, <1>2, <1>3, <1>4 DEF IInv

HolderSteps == {"create", "save", "remove", "forget"}

(* A job that does not hold the lock moves, and takes it perhaps.          *)
LEMMA FreeStep ==
    ASSUME TypeOK, IInv, NEW n \in Pushes, NEW to, n \in DOMAIN messages, Step(n, to),
           UNCHANGED <<messages, cluster, state, doubtful>>,
           planned' \in [Pushes -> [create : BOOLEAN, serial : Nat]],
           \A k \in Pushes \ {n} : planned'[k] = planned[k],
           planned'[n].serial <= state.serial,
           lock' = lock \/ (Unlocked /\ lock' = n),
           to \notin {"save", "forget"},
           to \in HolderSteps => lock' = n,
           to = "create" => planned'[n].serial = state.serial,
           ~doubtful => Progress(n)'
    PROVE  IInv'
  <1>1. /\ \A s : At(n, s)' <=> s = to
        /\ \A k \in Pushes \ {n} : \A s : At(k, s)' <=> At(k, s)
    BY OneStep DEF TypeOK
  <1>2. LockInv'
    <2>1. \A k \in Pushes : k # 0
      BY PushesAssumption DEF Pushes
    <2> QED BY <1>1, <2>1 DEF IInv, LockInv, Holding, HolderSteps, Unlocked
  <1>3. PlanInv'
    BY DEF IInv, PlanInv
  <1>4. ASSUME NEW k \in Pushes \ {n}, Progress(k) PROVE Progress(k)'
    BY <1>1, <1>4 DEF Progress, AtApply, AtCreate, AtSave, AtRemove, AtForget, PlanFits
  <1>5. ~doubtful => (Unlocked' => state'.cluster = cluster')
    <2>1. n # 0
      BY PushesAssumption DEF Pushes
    <2> QED BY <2>1 DEF IInv, TruthInv, Unlocked
  <1>6. TruthInv'
    BY <1>4, <1>5 DEF IInv, TruthInv
  <1>7. SeenInv' /\ WorkInv'
    BY <1>1 DEF IInv, SeenInv, WorkInv
  <1> QED BY <1>2, <1>3, <1>6, <1>7 DEF IInv

(* A job that holds the lock moves; nobody else can be within it.          *)
LEMMA HolderStep ==
    ASSUME TypeOK, IInv, NEW n \in Pushes, NEW to, Holding(n), Step(n, to),
           UNCHANGED <<messages, planned>>,
           (state' = state /\ (doubtful => doubtful')) \/ state'.serial = state.serial + 1,
           to \in {"create", "save"} => planned[n].serial = state'.serial,
           to = "save" /\ planned[n].create => cluster',
           to = "forget" /\ state'.cluster => ~cluster',
           lock' = lock \/ (lock' = 0 /\ to \notin HolderSteps),
           ~doubtful' => (Unlocked' => state'.cluster = cluster') /\ Progress(n)'
    PROVE  IInv'
  <1>1. /\ \A s : At(n, s)' <=> s = to
        /\ \A k \in Pushes \ {n} : \A s : At(k, s)' <=> At(k, s)
    BY OneStep DEF TypeOK, Holding, At
  <1>2. lock = n /\ \A k \in Pushes \ {n}, s \in HolderSteps : ~At(k, s)
    BY DEF IInv, LockInv, Holding, HolderSteps
  <1>3. LockInv'
    BY <1>1, <1>2 DEF LockInv, Holding, HolderSteps
  <1>4. /\ state.serial \in Nat
        /\ \A k \in Pushes : planned[k].serial \in Nat /\ planned[k].serial <= state.serial
    BY DEF TypeOK, InfraOK, IInv, PlanInv
  <1>5. PlanInv'
    BY <1>4 DEF PlanInv
  <1>6. ASSUME NEW k \in Pushes \ {n}, ~doubtful' PROVE Progress(k)'
    <2>1. \A s \in HolderSteps : ~At(k, s)'
      BY <1>1, <1>2
    <2>2. CASE state' = state /\ ~doubtful
      <3>1. At(k, "apply") => AtApply(k)
        BY <2>2 DEF IInv, TruthInv, Progress
      <3>2. At(k, "apply")' => AtApply(k)'
        BY <1>1, <2>2, <3>1 DEF AtApply, PlanFits
      <3> QED BY <2>1, <3>2 DEF Progress, HolderSteps
    <2>3. CASE state'.serial = state.serial + 1
      <3>1. AtApply(k)'
        BY <1>4, <2>3 DEF AtApply
      <3> QED BY <2>1, <3>1 DEF Progress, HolderSteps
    <2> QED BY <1>6, <2>2, <2>3
  <1>7. TruthInv'
    BY <1>6 DEF TruthInv
  <1>8. SeenInv' /\ WorkInv'
    BY <1>1, <1>2 DEF SeenInv, WorkInv, HolderSteps
  <1> QED BY <1>3, <1>5, <1>7, <1>8 DEF IInv

(* What Progress says of a job after it moved.                             *)
LEMMA ProgressAfter ==
    ASSUME WorkflowOK, NEW n \in Pushes, NEW to, n \in DOMAIN messages,
           Step(n, to), UNCHANGED messages,
           /\ to = "apply"  => AtApply(n)'
           /\ to = "create" => AtCreate(n)'
           /\ to = "save"   => AtSave(n)'
           /\ to = "remove" => AtRemove(n)'
           /\ to = "forget" => AtForget(n)'
    PROVE  Progress(n)'
  BY OneStep DEF Progress
----------------------------------------------------------------------------
LEMMA DeployKeepsTruth ==
    ASSUME TypeOK, IInv, NEW n \in Pushes, DeployTerraform(n)
    PROVE  IInv'
  <1>1. /\ WorkflowOK
        /\ state \in [cluster : BOOLEAN, serial : Nat] /\ cluster \in BOOLEAN
        /\ planned \in [Pushes -> [create : BOOLEAN, serial : Nat]]
        /\ planned[n].serial <= state.serial
    BY DEF TypeOK, InfraOK, IInv, PlanInv
  <1>2. n # 0
    BY PushesAssumption DEF Pushes
  <1>3. CASE Plan(n)
    <2>1. n \in DOMAIN messages /\ UNCHANGED <<messages, cluster, state, doubtful, lock>>
      BY <1>3 DEF Plan, At
    <2>2. CASE Step(n, "failed") /\ UNCHANGED planned
      <3>1. Progress(n)'
        BY <1>1, <2>1, <2>2, ProgressAfter
      <3> QED BY <1>1, <2>1, <2>2, <3>1, FreeStep DEF HolderSteps
    <2>3. CASE Unlocked /\ Step(n, "apply") /\ planned' = [planned EXCEPT ![n] =
                 [create |-> ~(state.cluster /\ cluster), serial |-> state.serial]]
      <3> DEFINE plan == [create |-> ~(state.cluster /\ cluster), serial |-> state.serial]
      <3>1. plan \in [create : BOOLEAN, serial : Nat]
        BY <1>1
      <3>2. /\ planned'[n] = plan /\ plan.serial = state.serial
            /\ plan.create = ~(state.cluster /\ cluster)
            /\ \A k \in Pushes \ {n} : planned'[k] = planned[k]
            /\ planned' \in [Pushes -> [create : BOOLEAN, serial : Nat]]
        BY <1>1, <2>3, <3>1
      <3> HIDE DEF plan
      <3>3. ~doubtful => AtApply(n)'
        BY <2>1, <2>3, <3>2 DEF AtApply, PlanFits, IInv, TruthInv
      <3>4. ~doubtful => Progress(n)'
        BY <1>1, <2>1, <2>3, <3>3, ProgressAfter
      <3>5. planned'[n].serial <= state.serial
        BY <1>1, <3>2
      <3>6. "apply" \notin HolderSteps /\ Step(n, "apply") /\ lock' = lock
        BY <2>1, <2>3 DEF HolderSteps
      <3> QED BY <2>1, <3>2, <3>4, <3>5, <3>6, FreeStep
    <2> QED BY <1>3, <2>2, <2>3 DEF Plan, Fails
  <1>4. CASE Apply(n)
    <2>1. /\ n \in DOMAIN messages /\ UNCHANGED <<messages, cluster, state, doubtful, planned>>
      BY <1>4 DEF Apply, At
    <2>2. CASE Step(n, "failed") /\ UNCHANGED lock
      <3>1. Progress(n)'
        BY <1>1, <2>1, <2>2, ProgressAfter
      <3> QED BY <1>1, <2>1, <2>2, <3>1, FreeStep DEF HolderSteps
    <2>3. CASE Unlocked /\ PlanIsCurrent(n) /\ Lock(n) /\ Step(n, "create")
      <3>1. ~doubtful => AtCreate(n)'
        BY <1>4, <2>1, <2>3 DEF Apply, AtApply, AtCreate, PlanFits, PlanIsCurrent, IInv,
           TruthInv, Progress
      <3>2. ~doubtful => Progress(n)'
        BY <1>1, <2>1, <2>3, <3>1, ProgressAfter
      <3> QED BY <1>1, <2>1, <2>3, <3>2, FreeStep DEF HolderSteps, Lock, PlanIsCurrent
    <2> QED BY <1>4, <2>2, <2>3 DEF Apply, Fails
  <1>5. CASE Create(n)
    <2>1. /\ n \in DOMAIN messages /\ UNCHANGED <<messages, state, doubtful, planned>>
          /\ Holding(n) /\ (~doubtful => AtCreate(n))
      BY <1>5 DEF Create, At, Holding, IInv, TruthInv, Progress
    <2>2. CASE Step(n, "failed") /\ Unlock(n) /\ UNCHANGED cluster
      <3>1. Progress(n)'
        BY <1>1, <2>1, <2>2, ProgressAfter
      <3> QED BY <1>1, <2>1, <2>2, <3>1, HolderStep DEF HolderSteps, Unlock, AtCreate
    <2>3. CASE /\ cluster' = (cluster \/ planned[n].create)
               /\ Step(n, "save") /\ UNCHANGED lock
      <3>1. ~doubtful => AtSave(n)'
        BY <1>1, <2>1, <2>3 DEF AtCreate, AtSave, PlanFits
      <3>2. ~doubtful => Progress(n)'
        BY <1>1, <2>1, <2>3, <3>1, ProgressAfter
      <3>3. lock = n /\ planned[n].serial = state.serial
        BY <1>5, <2>1 DEF IInv, LockInv, SeenInv, Create
      <3> QED BY <1>1, <1>2, <2>1, <2>3, <3>2, <3>3, HolderStep DEF Unlocked
    <2> QED BY <1>5, <2>2, <2>3 DEF Create, Fails
  <1>6. CASE Save(n)
    <2>1. /\ n \in DOMAIN messages /\ UNCHANGED <<messages, cluster, planned>>
          /\ Holding(n) /\ (~doubtful => AtSave(n)) /\ (planned[n].create => cluster)
          /\ lock' = 0
      BY <1>6 DEF Save, Unlock, At, Holding, IInv, TruthInv, WorkInv, Progress
    <2>2. PICK to \in {"configure", "failed"} : Step(n, to)
      BY <1>6 DEF Save
    <2>3. Progress(n)' /\ to \notin HolderSteps
      BY <1>1, <2>1, <2>2, ProgressAfter DEF HolderSteps
    <2>4. CASE ~planned[n].create /\ UNCHANGED <<state, doubtful>>
      BY <2>1, <2>2, <2>3, <2>4, HolderStep DEF AtSave, HolderSteps
    <2>5. CASE planned[n].create /\ Written(TRUE)
      BY <2>1, <2>2, <2>3, <2>5, HolderStep DEF Written, HolderSteps
    <2>6. CASE NotWritten
      BY <2>1, <2>2, <2>3, <2>6, HolderStep DEF NotWritten, HolderSteps
    <2> QED BY <1>6, <2>4, <2>5, <2>6 DEF Save
  <1>7. CASE Configure(n)
    <2>1. /\ n \in DOMAIN messages
          /\ UNCHANGED <<messages, cluster, state, lock, planned, doubtful>>
      BY <1>7 DEF Configure, At, infraVars
    <2>2. PICK to \in {"done", "destroyCharts", "failed"} : Step(n, to)
      BY <1>7 DEF Configure, Fails
    <2> QED BY <1>1, <2>1, <2>2, OneStep, QuietStep DEF Critical
  <1> QED BY <1>3, <1>4, <1>5, <1>6, <1>7 DEF DeployTerraform

LEMMA DestroyKeepsTruth ==
    ASSUME TypeOK, IInv, NEW n \in Pushes, AwsDestroy(n)
    PROVE  IInv'
  <1>1. /\ WorkflowOK
        /\ state \in [cluster : BOOLEAN, serial : Nat] /\ cluster \in BOOLEAN
        /\ planned \in [Pushes -> [create : BOOLEAN, serial : Nat]]
        /\ planned[n].serial <= state.serial
    BY DEF TypeOK, InfraOK, IInv, PlanInv
  <1>2. n # 0
    BY PushesAssumption DEF Pushes
  <1>3. CASE DestroyCharts(n) \/ DeleteImages(n) \/ DeleteOthers(n)
    <2>1. /\ n \in DOMAIN messages
          /\ UNCHANGED <<messages, cluster, state, lock, planned, doubtful>>
      BY <1>3 DEF DestroyCharts, DeleteImages, DeleteOthers, At, infraVars
    <2>2. PICK to \in {"done", "destroy", "deleteOthers", "failed"} : Step(n, to)
      BY <1>3 DEF DestroyCharts, DeleteImages, DeleteOthers, Fails
    <2> QED BY <1>1, <2>1, <2>2, OneStep, QuietStep DEF Critical
  <1>4. CASE Destroy(n)
    <2>1. /\ n \in DOMAIN messages /\ UNCHANGED <<messages, cluster, state, doubtful, planned>>
      BY <1>4 DEF Destroy, At
    <2>2. CASE Step(n, "deleteImages") /\ UNCHANGED lock
      <3>1. Progress(n)'
        BY <1>1, <2>1, <2>2, ProgressAfter
      <3> QED BY <1>1, <2>1, <2>2, <3>1, FreeStep DEF HolderSteps
    <2>3. CASE Unlocked /\ Lock(n) /\ Step(n, "remove")
      <3>1. ~doubtful => AtRemove(n)'
        BY <2>1, <2>3 DEF AtRemove, IInv, TruthInv
      <3>2. ~doubtful => Progress(n)'
        BY <1>1, <2>1, <2>3, <3>1, ProgressAfter
      <3> QED BY <1>1, <2>1, <2>3, <3>2, FreeStep DEF HolderSteps, Lock
    <2> QED BY <1>4, <2>2, <2>3 DEF Destroy
  <1>5. CASE Remove(n)
    <2>1. /\ n \in DOMAIN messages /\ UNCHANGED <<messages, state, doubtful, planned>>
          /\ Holding(n) /\ (~doubtful => AtRemove(n))
      BY <1>5 DEF Remove, At, Holding, IInv, TruthInv, Progress
    <2>2. CASE Step(n, "deleteImages") /\ Unlock(n) /\ UNCHANGED cluster
      <3>1. Progress(n)'
        BY <1>1, <2>1, <2>2, ProgressAfter
      <3> QED BY <1>1, <2>1, <2>2, <3>1, HolderStep DEF HolderSteps, Unlock, AtRemove
    <2>3. CASE /\ cluster' = (cluster /\ ~state.cluster)
               /\ Step(n, "forget") /\ UNCHANGED lock
      <3>1. ~doubtful => AtForget(n)'
        BY <1>1, <2>1, <2>3 DEF AtRemove, AtForget
      <3>2. ~doubtful => Progress(n)'
        BY <1>1, <2>1, <2>3, <3>1, ProgressAfter
      <3>3. lock = n
        BY <2>1 DEF IInv, LockInv
      <3> QED BY <1>1, <1>2, <2>1, <2>3, <3>2, <3>3, HolderStep DEF Unlocked
    <2> QED BY <1>5, <2>2, <2>3 DEF Remove
  <1>6. CASE Forget(n)
    <2>1. /\ n \in DOMAIN messages /\ UNCHANGED <<messages, cluster, planned>>
          /\ Holding(n) /\ (~doubtful => ~cluster) /\ (state.cluster => ~cluster)
          /\ Step(n, "deleteImages") /\ lock' = 0
      BY <1>6 DEF Forget, Unlock, At, Holding, IInv, TruthInv, WorkInv, Progress, AtForget
    <2>2. Progress(n)' /\ "deleteImages" \notin HolderSteps
      BY <1>1, <2>1, ProgressAfter DEF HolderSteps
    <2>3. CASE ~state.cluster /\ UNCHANGED <<state, doubtful>>
      BY <1>1, <2>1, <2>2, <2>3, HolderStep DEF HolderSteps
    <2>4. CASE state.cluster /\ Written(FALSE)
      BY <1>1, <2>1, <2>2, <2>4, HolderStep DEF Written, HolderSteps
    <2>5. CASE NotWritten
      BY <2>1, <2>2, <2>5, HolderStep DEF NotWritten, HolderSteps
    <2> QED BY <1>6, <2>3, <2>4, <2>5 DEF Forget
  <1> QED BY <1>3, <1>4, <1>5, <1>6 DEF AwsDestroy

LEMMA TruthPreserved ==
    ASSUME TypeOK, IInv, [Next]_vars
    PROVE  IInv'
  <1>1. WorkflowOK
    BY DEF TypeOK
  <1>2. CASE WorkflowNext /\ UNCHANGED <<imageVars, infraVars>>
    BY <1>1, <1>2, WorkflowStaysAway, QuietStep DEF infraVars
  <1>3. ASSUME NEW n \in Pushes, NEW v \in Versions, Build(n, v), UNCHANGED infraVars
        PROVE  IInv'
    BY <1>1, <1>3, BuildsStayAway, QuietStep DEF infraVars
  <1>4. CASE (Expire /\ UNCHANGED infraVars) \/ BuildOthers \/ UNCHANGED vars
    <2>1. UNCHANGED <<messages, place, cluster, state, lock, planned, doubtful>>
      BY <1>4 DEF Expire, BuildOthers, vars, infraVars, workflowVars
    <2>2. \A k \in Pushes, s \in Critical : At(k, s)' => At(k, s)
      BY <2>1 DEF At, Job
    <2> QED BY <2>1, <2>2, QuietStep
  <1>5. CASE ForceUnlock
    <2>1. /\ UNCHANGED <<messages, place, planned, state>> /\ doubtful'
          /\ ~Holding(lock)
      BY <1>5 DEF ForceUnlock, workflowVars
    <2>2. \A k \in Pushes : Holding(k)' => Holding(k)
      BY <2>1 DEF Holding, At, Job
    <2>3. SeenInv' /\ WorkInv'
      BY <1>5, <2>1 DEF ForceUnlock, IInv, SeenInv, WorkInv, At, Job
    <2> QED BY <2>1, <2>2, <2>3 DEF IInv, LockInv, PlanInv, TruthInv
  <1> QED BY <1>2, <1>3, <1>4, <1>5, DeployKeepsTruth, DestroyKeepsTruth DEF Next

LEMMA TruthInitially == Init => IInv
  <1> SUFFICES ASSUME Init PROVE IInv
    OBVIOUS
  <1>1. \A n \in Pushes : \A s : ~At(n, s)
    BY DEF Init, WorkflowInit, At
  <1>2. LockInv
    BY <1>1 DEF LockInv, Holding
  <1>3. PlanInv
    BY DEF Init, PlanInv
  <1>4. TruthInv
    BY <1>1 DEF Init, TruthInv, Progress
  <1>5. SeenInv /\ WorkInv
    BY <1>1 DEF SeenInv, WorkInv
  <1> QED BY <1>2, <1>3, <1>4, <1>5 DEF IInv

LEMMA Invariance == Spec => [](TypeOK /\ IInv)
  <1>1. TypeOK /\ IInv /\ [Next]_vars => (TypeOK /\ IInv)'
    BY WorkflowPreserved, ImagePreserved, InfraPreserved, TruthPreserved DEF TypeOK
  <1> QED BY InitTyped, TruthInitially, <1>1, PTL DEF Spec

(* Whatever else fails or runs at the same time, terraform's state knows   *)
(* the cluster that there is and no other whenever its lock is free, once  *)
(* a state was written after the last one that could not be, and after the *)
(* last lock that was broken.                                              *)
THEOREM StateStaysTrue == Spec => []StateIsTrue
  <1>1. IInv => StateIsTrue
    BY DEF IInv, TruthInv, StateIsTrue
  <1> QED BY Invariance, <1>1, PTL

(* A deploy that created the cluster has it, and its state says so.  One   *)
(* that took it for granted finds it, although another job may have        *)
(* destroyed it after the plan was made, unless the state is doubtful.     *)
THEOREM AppliedClusterIsThere == Spec => AppliedIsThere
  <1>1. ASSUME TypeOK, IInv, [Next]_vars, NEW n \in Pushes,
               At(n, "save"), At(n, "configure")', planned[n].create \/ ~doubtful
        PROVE  cluster' /\ state'.cluster
    <2>1. /\ planned[n].create => cluster
          /\ ~planned[n].create => AtSave(n)
      BY <1>1 DEF IInv, WorkInv, TruthInv, Progress
    <2>2. CASE Save(n)
      <3>1. n \in DOMAIN messages /\ UNCHANGED messages /\ WorkflowOK
        BY <1>1, <2>2 DEF Save, At, TypeOK
      <3>2. ~Step(n, "failed")
        BY <1>1, <3>1, OneStep
      <3>3. CASE ~planned[n].create /\ UNCHANGED <<state, cluster>>
        BY <2>1, <3>3 DEF AtSave, PlanFits, TypeOK, InfraOK
      <3>4. CASE planned[n].create /\ Written(TRUE) /\ UNCHANGED cluster
        BY <2>1, <3>4 DEF Written
      <3> QED BY <2>2, <3>2, <3>3, <3>4 DEF Save
    <2>3. ~At(n, "configure") /\ WorkflowOK /\ n \in DOMAIN messages
      BY <1>1 DEF At, TypeOK
    <2>4. CASE WorkflowNext
      BY <1>1, <2>3, <2>4, WorkflowStaysAway DEF Critical
    <2>5. ASSUME NEW m \in Pushes, NEW v \in Versions, Build(m, v)
          PROVE  FALSE
      BY <1>1, <2>3, <2>5, BuildsStayAway
    <2>6. CASE UNCHANGED <<messages, place>>
      BY <1>1, <2>3, <2>6 DEF At, Job
    <2>7. ASSUME NEW m \in Pushes \ {n}, DeployTerraform(m) \/ AwsDestroy(m)
          PROVE  FALSE
      <3>1. m \in DOMAIN messages /\ UNCHANGED messages
        BY <2>7 DEF DeployTerraform, AwsDestroy, Plan, Apply, Create, Save, Configure,
           DestroyCharts, Destroy, Remove, Forget, DeleteImages, DeleteOthers, At
      <3>2. \E to : Step(m, to)
        BY <2>7 DEF DeployTerraform, AwsDestroy, Plan, Apply, Create, Save, Configure,
           DestroyCharts, Destroy, Remove, Forget, DeleteImages, DeleteOthers, Fails
      <3> QED BY <1>1, <2>3, <3>1, <3>2, OneStep
    <2>8. ASSUME DeployTerraform(n) \/ AwsDestroy(n)
          PROVE  Save(n)
      BY <1>1, <2>8 DEF DeployTerraform, AwsDestroy, Plan, Apply, Create, Configure,
         DestroyCharts, Destroy, Remove, Forget, DeleteImages, DeleteOthers, At
    <2>9. CASE Expire \/ BuildOthers \/ ForceUnlock \/ UNCHANGED vars
      BY <2>6, <2>9 DEF Expire, BuildOthers, ForceUnlock, vars, workflowVars
    <2> QED BY <1>1, <2>2, <2>4, <2>5, <2>7, <2>8, <2>9 DEF Next
  <1>2. TypeOK /\ IInv /\ [Next]_vars =>
          \A n \in Pushes :
             At(n, "save") /\ At(n, "configure")' /\ (planned[n].create \/ ~doubtful) =>
                 cluster' /\ state'.cluster
    BY <1>1
  <1> QED BY Invariance, <1>2, PTL DEF Spec, AppliedIsThere
----------------------------------------------------------------------------
(* The promise of module RemoteState.                                      *)

Seen == [n \in Pushes |-> planned[n].serial]

LEMMA RemoteInit == Init => Remote!Init
  BY DEF Init, Remote!Init

LEMMA RemoteStutters ==
    ASSUME UNCHANGED <<cluster, state, lock, planned, doubtful>>
    PROVE  UNCHANGED Remote!remoteVars
  BY DEF Remote!remoteVars

(* What a job holds and knows at the steps that act on the state.          *)
LEMMA AtItsStep ==
    ASSUME TypeOK, IInv, NEW n \in Pushes
    PROVE  /\ Holding(n) => lock = n /\ n # 0
           /\ At(n, "create") \/ At(n, "save") => Remote!SawTheState(n)
           /\ ~doubtful => Progress(n)
           /\ cluster \in BOOLEAN /\ state.cluster \in BOOLEAN
           /\ planned[n].create \in BOOLEAN
  <1>1. n # 0
    BY PushesAssumption DEF Pushes
  <1> QED BY <1>1 DEF IInv, LockInv, SeenInv, TruthInv, TypeOK, InfraOK, Remote!SawTheState

LEMMA RemoteReleases ==
    ASSUME TypeOK, IInv, NEW n \in Pushes, Holding(n), Unlock(n),
           UNCHANGED <<cluster, state, planned, doubtful>>, ~doubtful => state.cluster = cluster
    PROVE  Remote!Next
  <1>1. Remote!Release(n)
    BY AtItsStep DEF Unlock, Remote!Release
  <1> QED BY <1>1 DEF Remote!Next

LEMMA RemoteRecords ==
    ASSUME TypeOK, IInv, NEW n \in Pushes, Holding(n), Unlock(n), Written(cluster),
           UNCHANGED <<cluster, planned>>, cluster => Remote!SawTheState(n),
           ~doubtful => cluster # state.cluster
    PROVE  Remote!Next
  <1>1. Remote!Record(n)
    BY AtItsStep DEF Unlock, Written, Remote!Record, Remote!SawTheState
  <1> QED BY <1>1 DEF Remote!Next

LEMMA RemoteGivesUp ==
    ASSUME TypeOK, IInv, NEW n \in Pushes, Holding(n), Unlock(n), NotWritten,
           UNCHANGED <<cluster, planned>>
    PROVE  Remote!Next
  <1>1. Remote!GiveUp
    BY AtItsStep DEF Unlock, NotWritten, Remote!GiveUp
  <1> QED BY <1>1 DEF Remote!Next

LEMMA RemoteTakes ==
    ASSUME NEW n \in Pushes, Unlocked, Lock(n), UNCHANGED <<cluster, state, planned, doubtful>>
    PROVE  Remote!Next
  <1>1. Remote!Take(n)
    BY DEF Unlocked, Lock, Remote!Take
  <1> QED BY <1>1 DEF Remote!Next

LEMMA RemoteDeploy ==
    ASSUME TypeOK, IInv, NEW n \in Pushes, DeployTerraform(n)
    PROVE  Remote!Next \/ UNCHANGED Remote!remoteVars
  <1>1. CASE Plan(n)
    <2>1. UNCHANGED <<cluster, state, lock, doubtful>>
      BY <1>1 DEF Plan
    <2>2. CASE UNCHANGED planned
      BY <2>1, <2>2, RemoteStutters
    <2>3. CASE Unlocked /\ planned' = [planned EXCEPT ![n] =
                 [create |-> ~(state.cluster /\ cluster), serial |-> state.serial]]
      <3>1. Seen' = [Seen EXCEPT ![n] = state.serial]
        BY <2>3 DEF Seen, TypeOK, InfraOK
      <3>2. Remote!Look(n)
        BY <2>1, <2>3, <3>1 DEF Remote!Look, Unlocked, Seen
      <3> QED BY <3>2 DEF Remote!Next
    <2> QED BY <1>1, <2>2, <2>3 DEF Plan
  <1>2. CASE Apply(n)
    <2>1. UNCHANGED <<cluster, state, planned, doubtful>>
      BY <1>2 DEF Apply
    <2>2. CASE UNCHANGED lock
      BY <2>1, <2>2, RemoteStutters
    <2> QED BY <1>2, <2>1, <2>2, RemoteTakes DEF Apply
  <1>3. CASE Create(n)
    <2>1. At(n, "create") /\ Holding(n) /\ UNCHANGED <<state, planned, doubtful>>
      BY <1>3 DEF Create, Holding
    <2>2. CASE Unlock(n) /\ UNCHANGED cluster
      <3>1. ~doubtful => state.cluster = cluster
        BY <2>1, AtItsStep DEF Progress, AtCreate
      <3> QED BY <2>1, <2>2, <3>1, RemoteReleases
    <2>3. CASE /\ ~(planned[n].create /\ cluster) /\ cluster' = (cluster \/ planned[n].create)
               /\ UNCHANGED lock
      <3>1. CASE planned[n].create
        <4>1. Remote!Create(n)
          BY <2>1, <2>3, <3>1, AtItsStep DEF Remote!Create, Remote!SawTheState
        <4> QED BY <4>1 DEF Remote!Next
      <3>2. CASE ~planned[n].create
        BY <2>1, <2>3, <3>2, AtItsStep, RemoteStutters
      <3> QED BY <3>1, <3>2
    <2> QED BY <1>3, <2>2, <2>3 DEF Create
  <1>4. CASE Save(n)
    <2>1. At(n, "save") /\ Holding(n) /\ Unlock(n) /\ UNCHANGED <<cluster, planned>>
      BY <1>4 DEF Save, Holding
    <2>2. /\ planned[n].create => cluster
          /\ ~doubtful => AtSave(n)
      BY <2>1, AtItsStep DEF Progress, IInv, WorkInv
    <2>3. CASE ~planned[n].create /\ UNCHANGED <<state, doubtful>>
      BY <2>1, <2>2, <2>3, RemoteReleases DEF AtSave
    <2>4. CASE planned[n].create /\ Written(TRUE)
      <3>1. cluster = TRUE
        BY <2>2, <2>4, AtItsStep
      <3>2. ~doubtful => cluster # state.cluster
        BY <2>2, <2>4, <3>1, AtItsStep DEF AtSave, PlanFits
      <3> QED BY <2>1, <2>4, <3>1, <3>2, AtItsStep, RemoteRecords
    <2>5. CASE NotWritten
      BY <2>1, <2>5, RemoteGivesUp
    <2> QED BY <1>4, <2>3, <2>4, <2>5 DEF Save
  <1>5. CASE Configure(n)
    BY <1>5, RemoteStutters DEF Configure, infraVars
  <1> QED BY <1>1, <1>2, <1>3, <1>4, <1>5 DEF DeployTerraform

LEMMA RemoteDestroy ==
    ASSUME TypeOK, IInv, NEW n \in Pushes, AwsDestroy(n)
    PROVE  Remote!Next \/ UNCHANGED Remote!remoteVars
  <1>1. CASE DestroyCharts(n) \/ DeleteImages(n) \/ DeleteOthers(n)
    BY <1>1, RemoteStutters DEF DestroyCharts, DeleteImages, DeleteOthers, infraVars
  <1>2. CASE Destroy(n)
    <2>1. UNCHANGED <<cluster, state, planned, doubtful>>
      BY <1>2 DEF Destroy
    <2>2. CASE UNCHANGED lock
      BY <2>1, <2>2, RemoteStutters
    <2> QED BY <1>2, <2>1, <2>2, RemoteTakes DEF Destroy
  <1>3. CASE Remove(n)
    <2>1. /\ Holding(n) /\ UNCHANGED <<state, planned, doubtful>>
          /\ ~doubtful => state.cluster = cluster
      BY <1>3, AtItsStep DEF Remove, Holding, Progress, AtRemove
    <2>2. CASE Unlock(n) /\ UNCHANGED cluster
      BY <2>1, <2>2, RemoteReleases
    <2>3. CASE cluster' = (cluster /\ ~state.cluster) /\ UNCHANGED lock
      <3>1. CASE cluster' = cluster
        BY <2>1, <2>3, <3>1, RemoteStutters
      <3>2. CASE cluster' # cluster
        <4>1. Remote!Remove(n)
          BY <2>1, <2>3, <3>2, AtItsStep DEF Remote!Remove
        <4> QED BY <4>1 DEF Remote!Next
      <3> QED BY <3>1, <3>2
    <2> QED BY <1>3, <2>2, <2>3 DEF Remove
  <1>4. CASE Forget(n)
    <2>1. At(n, "forget") /\ Holding(n) /\ Unlock(n) /\ UNCHANGED <<cluster, planned>>
      BY <1>4 DEF Forget, Holding
    <2>2. /\ state.cluster => ~cluster
          /\ ~doubtful => ~cluster
      BY <2>1, AtItsStep DEF Progress, AtForget, IInv, WorkInv
    <2>3. CASE ~state.cluster /\ UNCHANGED <<state, doubtful>>
      BY <2>1, <2>2, <2>3, AtItsStep, RemoteReleases
    <2>4. CASE state.cluster /\ Written(FALSE)
      <3>1. cluster = FALSE /\ cluster # state.cluster
        BY <2>2, <2>4, AtItsStep
      <3> QED BY <2>1, <2>4, <3>1, RemoteRecords
    <2>5. CASE NotWritten
      BY <2>1, <2>5, RemoteGivesUp
    <2> QED BY <1>4, <2>3, <2>4, <2>5 DEF Forget
  <1> QED BY <1>1, <1>2, <1>3, <1>4 DEF AwsDestroy

LEMMA RemoteStep == TypeOK /\ IInv /\ [Next]_vars => [Remote!Next]_(Remote!remoteVars)
  <1> SUFFICES ASSUME TypeOK, IInv, [Next]_vars
               PROVE  Remote!Next \/ UNCHANGED Remote!remoteVars
    OBVIOUS
  <1>1. UNCHANGED infraVars => UNCHANGED Remote!remoteVars
    BY RemoteStutters DEF infraVars
  <1>2. BuildOthers \/ UNCHANGED vars => UNCHANGED Remote!remoteVars
    BY RemoteStutters DEF BuildOthers, vars, infraVars
  <1>3. CASE ForceUnlock
    <2>1. Remote!GiveUp
      BY <1>3 DEF ForceUnlock, Unlocked, Remote!GiveUp
    <2> QED BY <2>1 DEF Remote!Next
  <1> QED BY <1>1, <1>2, <1>3, RemoteDeploy, RemoteDestroy DEF Next

(* For any number of pushes, faults and re-runs, the jobs that plan, apply *)
(* and destroy treat terraform's state as module RemoteState promises.     *)
THEOREM DeliveryKeepsPromise == Spec => KeepsRemoteState
  <1>1. Spec => Remote!Init /\ [][Remote!Next]_(Remote!remoteVars)
    BY RemoteInit, RemoteStep, Invariance, PTL DEF Spec
  <1> QED BY <1>1 DEF KeepsRemoteState, Remote!Spec
----------------------------------------------------------------------------
(* How a job that builds a version moves.                                  *)

LEMMA VersionMoves ==
    ASSUME TypeOK, [Next]_vars, NEW n \in Pushes, NEW v \in Versions
    PROVE  \/ place'[n][v] = place[n][v]
           \/ place'[n][v] \in {"failed", "cancelled"}
           \/ <<n, v>> \in again'
           \/ place[n][v] = "none" /\ place'[n][v] = "describeRepository"
           \/ Build(n, v)
  <1>1. WorkflowOK /\ v \in Jobs
    BY StepSets DEF TypeOK
  <1>2. CASE Expire \/ BuildOthers \/ ForceUnlock \/ UNCHANGED vars
    BY <1>2 DEF Expire, BuildOthers, ForceUnlock, vars, workflowVars
  <1>3. ASSUME NEW m \in Pushes, DeployTerraform(m) \/ AwsDestroy(m)
        PROVE  place'[n][v] = place[n][v]
    <2>1. \E to : Goto(m, Job(m), to)
      BY <1>3 DEF DeployTerraform, AwsDestroy, Plan, Apply, Create, Save, Configure,
         DestroyCharts, Destroy, Remove, Forget, DeleteImages, DeleteOthers, Fails, Step
    <2>2. Job(m) \in Jobs /\ Job(m) # v
      BY JobOfPush
    <2> QED BY <1>1, <2>1, <2>2, OneJobMoves
  <1>4. ASSUME NEW m \in Pushes, NEW u \in Versions, Build(m, u), <<m, u>> # <<n, v>>
        PROVE  place'[n][v] = place[n][v]
    <2>1. \E to : Goto(m, u, to)
      BY <1>4 DEF Build, DescribeRepository, CreateRepository, LookUpUri, DescribeImages,
         PushHash, PushVersion
    <2> QED BY <1>1, <1>4, <2>1, StepSets, OneJobMoves
  <1>5. ASSUME NEW message \in Messages, Push(message)
        PROVE  \/ place'[n][v] = place[n][v]
               \/ place[n][v] = "none" /\ place'[n][v] = "describeRepository"
    <2> DEFINE m == Len(messages) + 1
    <2>1. messages \in Seq(Messages) /\ place \in [Pushes -> [Jobs -> Places]]
      BY <1>1 DEF WorkflowOK, Places
    <2>2. m \notin DOMAIN messages
      BY <2>1
    <2>3. n = m => place[n][v] = "none"
      BY <1>1, <2>2 DEF WorkflowOK
    <2>4. FirstStep(v) = "describeRepository"
      BY DEF FirstStep, Versions
    <2>5. place' = [place EXCEPT ![m] =
             [job \in Jobs |-> IF job \in Selected(message) THEN FirstStep(job) ELSE "none"]]
      BY <1>5 DEF Push
    <2> HIDE DEF m
    <2> QED BY <1>1, <2>1, <2>3, <2>4, <2>5
  <1>6. ASSUME NEW m \in Pushes, NEW w \in Workflows, CancelPrevious(m, w)
        PROVE  place'[n][v] \in {place[n][v], "cancelled"}
    BY <1>1, <1>6 DEF CancelPrevious
  <1>7. ASSUME NEW m \in Pushes, NEW job \in Jobs, Die(m, job)
        PROVE  place'[n][v] \in {place[n][v], "failed"}
    BY <1>1, <1>7, OneJobMoves DEF Die
  <1>8. ASSUME NEW m \in Pushes, NEW job \in Jobs, Rerun(m, job)
        PROVE  place'[n][v] = place[n][v] \/ <<n, v>> \in again'
    BY <1>1, <1>8, OneJobMoves DEF Rerun
  <1> QED BY <1>2, <1>3, <1>4, <1>5, <1>6, <1>7, <1>8 DEF Next, WorkflowNext

LEMMA HistoryGrows ==
    ASSUME TypeOK, [Next]_vars, NEW n \in Pushes
    PROVE  again \subseteq again' /\ published[n] \subseteq published'[n]
  <1>1. again \subseteq again'
    BY WorkflowStep DEF JobsStay, JobMoves, WorkflowNext, Push, CancelPrevious, Die, Rerun
  <1>2. published \in [Pushes -> SUBSET Versions]
    BY DEF TypeOK, ImageOK
  <1>3. published[n] \subseteq published'[n]
    BY <1>2, RegistryStep DEF TypeOK, SomeGo, HashPushed, VersionPushed
  <1> QED BY <1>1, <1>3

(* A job that has pushed a hash publishes its version or does not end well.*)
LEMMA PushedHashStays ==
    ASSUME TypeOK, [Next]_vars, NEW n \in Pushes, NEW v \in Versions, PushedHash(n, v)
    PROVE  PushedHash(n, v)'
  <1>1. CASE <<n, v>> \in again \/ v \in published[n]
    BY <1>1, HistoryGrows DEF PushedHash
  <1>2. CASE place[n][v] \in {"pushVersion", "failed", "cancelled"}
    <2>1. CASE Build(n, v)
      <3>1. PushVersion(n, v)
        BY <1>2, <2>1 DEF Build, DescribeRepository, CreateRepository, LookUpUri,
           DescribeImages, PushHash
      <3>2. CASE Goto(n, v, "failed")
        BY <3>2, StepSets, OneJobMoves DEF TypeOK, PushedHash
      <3>3. CASE published' = [published EXCEPT ![n] = @ \cup {v}]
        BY <3>3 DEF TypeOK, ImageOK, PushedHash
      <3> QED BY <3>1, <3>2, <3>3 DEF PushVersion
    <2> QED BY <1>2, <2>1, VersionMoves DEF PushedHash
  <1> QED BY <1>1, <1>2 DEF PushedHash

LEMMA HashPreserved ==
    ASSUME TypeOK, HashInv, [Next]_vars
    PROVE  HashInv'
  <1>1. /\ registry.hash \in [Pushes -> Images] /\ ImageOK /\ WorkflowOK
    BY DEF TypeOK, ImageOK
  <1>2. SUFFICES ASSUME NEW n \in Pushes, registry'.hash[n] # NoImage
                 PROVE  \E v \in Versions : PushedHash(n, v)'
    BY StepSets DEF HashInv
  <1>3. CASE registry.hash[n] # NoImage
    BY <1>3, PushedHashStays DEF HashInv
  <1>4. ASSUME registry.hash[n] = NoImage, NEW m \in Pushes, NEW v \in Versions, HashPushed(m, v)
        PROVE  PushedHash(n, v)'
    <2>1. n = m
      BY <1>1, <1>2, <1>4 DEF HashPushed
    <2>2. place'[n][v] = "pushVersion"
      BY <1>1, <1>4, <2>1, StepSets, OneJobMoves DEF HashPushed
    <2> QED BY <2>2 DEF PushedHash
  <1> QED BY <1>1, <1>2, <1>3, <1>4, RegistryStep DEF SomeGo, VersionPushed

LEMMA DonePreserved ==
    ASSUME TypeOK, HashInv, DoneInv, [Next]_vars
    PROVE  DoneInv'
  <1> SUFFICES ASSUME NEW n \in Pushes, NEW v \in Versions, place'[n][v] = "done"
               PROVE  <<n, v>> \in again' \/ \E u \in Versions : PushedHash(n, u)'
    BY DEF DoneInv
  <1>1. CASE place[n][v] = "done"
    BY <1>1, PushedHashStays, HistoryGrows DEF DoneInv
  <1>2. ASSUME Build(n, v)
        PROVE  \E u \in Versions : PushedHash(n, u)'
    <2>1. \A to : Goto(n, v, to) => to = "done"
      BY StepSets, OneJobMoves DEF TypeOK
    <2>2. CASE DescribeImages(n, v)
      <3>1. FoundImage(n)
        BY <2>1, <2>2 DEF DescribeImages
      <3> QED BY <3>1, PushedHashStays DEF FoundImage, HashInv
    <2>3. CASE PushVersion(n, v)
      <3>1. published' = [published EXCEPT ![n] = @ \cup {v}]
        BY <2>1, <2>3 DEF PushVersion
      <3> QED BY <3>1 DEF TypeOK, ImageOK, PushedHash
    <2>4. ~(DescribeRepository(n, v) \/ CreateRepository(n, v) \/ LookUpUri(n, v) \/ PushHash(n, v))
      BY <2>1 DEF DescribeRepository, CreateRepository, LookUpUri, PushHash
    <2> QED BY <1>2, <2>2, <2>3, <2>4 DEF Build
  <1> QED BY <1>1, <1>2, VersionMoves

(* When both jobs of a run ended well and none was run again, the run has  *)
(* published one version at least: the two can skip each other over the    *)
(* hash they share, but not both of them.                                  *)
THEOREM OneVersionIsPublished == Spec => []OneIsPublished
  <1>1. Init => HashInv /\ DoneInv
    BY EmptyTyped, StepSets DEF Init, WorkflowInit, ImageInit, HashInv, DoneInv
  <1>2. TypeOK /\ HashInv /\ DoneInv => OneIsPublished
    BY StepSets DEF HashInv, DoneInv, PushedHash, OneIsPublished
  <1>3. TypeOK /\ HashInv /\ DoneInv /\ [Next]_vars => (HashInv /\ DoneInv)'
    BY HashPreserved, DonePreserved
  <1> QED BY <1>1, <1>2, <1>3, TypeCorrect, PTL DEF Spec
----------------------------------------------------------------------------
LEMMA CancelPreserved ==
    ASSUME TypeOK, CancelInv, [Next]_vars
    PROVE  CancelInv'
  <1>1. /\ WorkflowOK /\ messages \in Seq(Messages)
        /\ place \in [Pushes -> [Jobs -> Places]] /\ Len(messages) <= MaxPushes
    BY DEF TypeOK, WorkflowOK, Places
  <1>2. \A w \in Workflows : JobsOf(w) \subseteq Jobs
    BY DEF Workflows, JobsOf, Jobs
  <1>3. SUFFICES ASSUME NEW n \in DOMAIN messages', NEW k \in Pushes, NEW w \in Workflows,
                        NEW job \in JobsOf(w), k < n, <<n, w>> \notin cancelling', Running(k, job)'
                 PROVE  <<k, job>> \in again'
    BY DEF CancelInv
  <1>4. ASSUME n \in DOMAIN messages, <<n, w>> \notin cancelling, Running(k, job), again \subseteq again'
        PROVE  <<k, job>> \in again'
    BY <1>3, <1>4 DEF CancelInv
  <1>5. CASE JobsStay
    BY <1>3, <1>4, <1>5 DEF JobsStay, Running
  <1>6. CASE JobMoves
    <2>1. PICK m \in Pushes, moved \in Jobs : Running(m, moved) /\ \E to : Goto(m, moved, to)
      BY <1>6 DEF JobMoves
    <2>2. \A l \in Pushes, j \in Jobs : <<l, j>> # <<m, moved>> => place'[l][j] = place[l][j]
      BY <1>1, <2>1, OneJobMoves
    <2>3. job \in Jobs
      BY <1>2, <1>3
    <2>4. Running(k, job)
      BY <1>3, <2>1, <2>2, <2>3 DEF Running
    <2> QED BY <1>3, <1>4, <1>6, <2>4 DEF JobMoves
  <1>7. ASSUME NEW message \in Messages, Push(message)
        PROVE  <<k, job>> \in again'
    <2> DEFINE m == Len(messages) + 1
    <2>1. /\ m \in Nat /\ DOMAIN messages' = 1..m /\ DOMAIN messages = 1..(m - 1)
      BY <1>1, <1>7, AppendProperties DEF Push
    <2>2. /\ cancelling' = cancelling \cup {<<m, u>> : u \in {x \in Workflows : m > 1}}
          /\ again' = again
          /\ place' = [place EXCEPT ![m] =
               [j \in Jobs |-> IF j \in Selected(message) THEN FirstStep(j) ELSE "none"]]
      BY <1>7 DEF Push
    <2> HIDE DEF m
    <2>3. n # m
      BY <1>3, <2>1, <2>2 DEF Pushes
    <2>4. n \in DOMAIN messages /\ k # m
      BY <1>3, <2>1, <2>3, PushesAssumption DEF Pushes
    <2>5. Running(k, job)
      BY <1>1, <1>3, <2>2, <2>4 DEF Running
    <2> QED BY <1>3, <1>4, <2>2, <2>4, <2>5
  <1>8. ASSUME NEW m \in Pushes, NEW u \in Workflows, CancelPrevious(m, u)
        PROVE  <<k, job>> \in again'
    <2>1. /\ UNCHANGED <<messages, again>> /\ cancelling' = cancelling \ {<<m, u>>}
          /\ place'[k][job] = IF k \in Earlier(m) /\ job \in JobsOf(u) /\ Running(k, job)
                              THEN "cancelled" ELSE place[k][job]
      BY <1>2, <1>8 DEF CancelPrevious
    <2>2. Running(k, job)
      BY <1>3, <2>1 DEF Running, Ended
    <2>3. CASE n = m /\ w = u
      <3>1. k \in Earlier(n)
        BY <1>3, <2>1, <1>1, PushesAssumption DEF Earlier, Pushes
      <3> QED BY <1>3, <2>1, <2>2, <2>3, <3>1 DEF Running, Ended
    <2> QED BY <1>3, <1>4, <2>1, <2>2, <2>3
  <1>9. ASSUME NEW m \in Pushes, NEW moved \in Jobs, Die(m, moved) \/ Rerun(m, moved)
        PROVE  <<k, job>> \in again'
    <2>1. /\ UNCHANGED <<messages, cancelling>> /\ again \subseteq again'
      BY <1>9 DEF Die, Rerun
    <2>2. PICK to : Goto(m, moved, to) /\ (to = "failed" \/ <<m, moved>> \in again')
      BY <1>9 DEF Die, Rerun
    <2>3. /\ place'[m][moved] = to
          /\ \A l \in Pushes, j \in Jobs : <<l, j>> # <<m, moved>> => place'[l][j] = place[l][j]
      BY <1>1, <2>2, OneJobMoves
    <2>4. job \in Jobs
      BY <1>2, <1>3
    <2>5. CASE k = m /\ job = moved
      BY <1>3, <2>2, <2>3, <2>5 DEF Running, Ended
    <2>6. CASE ~(k = m /\ job = moved)
      BY <1>3, <1>4, <2>1, <2>3, <2>4, <2>6 DEF Running
    <2> QED BY <2>5, <2>6
  <1> QED BY <1>5, <1>6, <1>7, <1>8, <1>9, WorkflowStep DEF WorkflowNext

LEMMA CommitPreserved ==
    ASSUME TypeOK, CommitInv, [Next]_vars
    PROVE  CommitInv'
  <1>1. messages \in Seq(Messages) /\ Len(messages) \in Nat
        /\ registry.version \in [Versions -> Images]
    BY DEF TypeOK, WorkflowOK, ImageOK
  <1>2. Len(messages') \in Nat /\ Len(messages) <= Len(messages')
    <2>1. UNCHANGED messages \/ \E message \in Messages : messages' = Append(messages, message)
      BY WorkflowStep DEF JobsStay, JobMoves, WorkflowNext, Push, CancelPrevious, Die, Rerun
    <2> QED BY <1>1, <2>1, AppendProperties
  <1>3. ASSUME NEW v \in Versions PROVE registry'.version[v].commit \in 0..Len(messages')
    <2>1. CASE registry'.version[v] \in {registry.version[v], NoImage}
      BY <1>1, <1>2, <2>1, ImagesTyped DEF CommitInv
    <2>2. ASSUME NEW n \in Pushes, NEW u \in Versions, VersionPushed(n, u)
          PROVE  registry'.version[v].commit \in 0..Len(messages')
      <3>1. n \in DOMAIN messages
        BY <2>2, StepSets DEF VersionPushed, TypeOK, WorkflowOK
      <3>2. registry'.version[v] \in {registry.version[v], Image(n, v)}
        BY <1>1, <2>2 DEF VersionPushed
      <3> QED BY <1>1, <1>2, <2>1, <3>1, <3>2, ImagesTyped
    <2> QED BY <2>1, <2>2, RegistryStep DEF TypeOK, SomeGo, HashPushed
  <1> QED BY <1>3 DEF CommitInv

(* The tags v1 and v2 go back to an older commit only while the cancel job *)
(* of the newer run has still to act, or by a job that was run again.      *)
THEOREM TagsOnlyMoveForward == Spec => TagsMoveForward
  <1>1. Init => CancelInv /\ CommitInv
    BY EmptyTyped, ImagesTyped, StepSets DEF Init, WorkflowInit, ImageInit, CancelInv, CommitInv
  <1>2. TypeOK /\ CancelInv /\ CommitInv /\ [Next]_vars => (CancelInv /\ CommitInv)'
    BY CancelPreserved, CommitPreserved
  <1>3. ASSUME TypeOK, CancelInv, CommitInv, [Next]_vars, NEW v \in Versions,
               registry'.version[v].commit \in 1..(registry.version[v].commit - 1)
        PROVE  \/ <<registry.version[v].commit, "build">> \in cancelling
               \/ <<registry'.version[v].commit, v>> \in again
    <2> DEFINE old == registry.version[v].commit
               new == registry'.version[v].commit
    <2>1. messages \in Seq(Messages) /\ registry.version \in [Versions -> Images]
      BY <1>3 DEF TypeOK, WorkflowOK, ImageOK
    <2>2. old \in DOMAIN messages /\ new < old
      BY <1>3, <2>1 DEF CommitInv
    <2>3. registry'.version[v] \notin {registry.version[v], NoImage}
      BY <1>3, <2>2, ImagesTyped
    <2>4. PICK n \in Pushes : VersionPushed(n, v)
      BY <1>3, <2>1, <2>3, RegistryStep DEF TypeOK, SomeGo, HashPushed, VersionPushed
    <2>5. new = n
      BY <2>1, <2>4, ImagesTyped DEF VersionPushed
    <2>6. Running(n, v) /\ v \in JobsOf("build") /\ "build" \in Workflows
      BY <2>4 DEF VersionPushed, Running, Ended, Versions, Workflows
    <2> HIDE DEF old, new
    <2>7. <<old, "build">> \in cancelling \/ <<new, v>> \in again
      BY <1>3, <2>2, <2>5, <2>6 DEF CancelInv
    <2> QED BY <2>7 DEF old, new
  <1>4. TypeOK /\ CancelInv /\ CommitInv /\ [Next]_vars =>
          \A v \in Versions :
             LET old == registry.version[v].commit
                 new == registry'.version[v].commit
             IN  new \in 1..(old - 1) => <<old, "build">> \in cancelling \/ <<new, v>> \in again
    BY <1>3
  <1> QED BY <1>1, <1>2, <1>4, TypeCorrect, PTL DEF Spec, TagsMoveForward
============================================================================
