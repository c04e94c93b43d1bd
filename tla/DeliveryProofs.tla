--------------------------- MODULE DeliveryProofs --------------------------
(***************************************************************************)
(* Proofs about module Delivery for any number of pushes, faults and jobs  *)
(* that are run again.                                                     *)
(***************************************************************************)
EXTENDS Delivery, SequenceTheorems, TLAPS

Places == Ended \cup BuildSteps \cup AwsSteps

LEMMA StepSets ==
    /\ Versions = {"v1", "v2"} /\ Versions \subseteq Jobs
    /\ \A job \in Jobs : StepsOf(job) \subseteq Places /\ StepsOf(job) \cap Ended = {}
    /\ \A job \in Jobs : FirstStep(job) \in StepsOf(job)
  BY DEF Versions, JobsOf, Jobs, StepsOf, BuildSteps, AwsSteps, Places, Ended, FirstStep

LEMMA JobOfPush ==
    ASSUME NEW n
    PROVE  Job(n) \in Jobs \ Versions /\ StepsOf(Job(n)) = AwsSteps
  BY DEF Job, Jobs, Versions, JobsOf, StepsOf

(* What Goto does to the other jobs: nothing.                              *)
LEMMA OneJobMoves ==
    ASSUME WorkflowOK, NEW n \in Pushes, NEW job \in Jobs, NEW step, Goto(n, job, step)
    PROVE  /\ place'[n][job] = step
           /\ \A k \in Pushes, j \in Jobs : <<k, j>> # <<n, job>> => place'[k][j] = place[k][j]
           /\ step \in Places => place' \in [Pushes -> [Jobs -> Places]]
  <1>1. place \in [Pushes -> [Jobs -> Places]]
    BY DEF WorkflowOK, Places
  <1>2. place' = [place EXCEPT ![n][job] = step]
    BY DEF Goto
  <1> HIDE DEF Places
  <1> QED BY <1>1, <1>2

LEMMA RunningAt ==
    ASSUME NEW n \in Pushes, NEW job \in Jobs, place[n][job] \in StepsOf(job)
    PROVE  Running(n, job)
  BY StepSets DEF Running
----------------------------------------------------------------------------
(* What a step does to the jobs.                                           *)

JobMoves ==
    /\ \E n \in Pushes, job \in Jobs :
         /\ Running(n, job)
         /\ \E step \in StepsOf(job) \cup {"done", "failed"} : Goto(n, job, step)
    /\ UNCHANGED <<messages, cancelling, again>>
    /\ faults' \in {faults, faults + 1}

JobsStay ==
    /\ UNCHANGED <<messages, place, cancelling, again>>
    /\ faults' = faults

LEMMA BuildMoves ==
    ASSUME NEW n \in Pushes, NEW v \in Versions, Build(n, v)
    PROVE  JobMoves
  <1> USE DEF Fault
  <1>1. v \in Jobs /\ StepsOf(v) = BuildSteps
    BY DEF Versions, JobsOf, Jobs, StepsOf
  <1>2. ASSUME NEW step \in BuildSteps \cup {"done", "failed"}, Goto(n, v, step),
               place[n][v] \in BuildSteps,
               UNCHANGED <<messages, cancelling, again>>, faults' \in {faults, faults + 1}
        PROVE  JobMoves
    BY <1>1, <1>2, RunningAt DEF JobMoves
  <1>3. CASE DescribeRepository(n, v)
    BY <1>2, <1>3 DEF DescribeRepository, BuildSteps
  <1>4. CASE CreateRepository(n, v)
    BY <1>2, <1>4 DEF CreateRepository, BuildSteps
  <1>5. CASE LookUpUri(n, v)
    BY <1>2, <1>5 DEF LookUpUri, BuildSteps
  <1>6. CASE DescribeImages(n, v)
    BY <1>2, <1>6 DEF DescribeImages, BuildSteps
  <1>7. CASE PushHash(n, v)
    BY <1>2, <1>7 DEF PushHash, BuildSteps
  <1>8. CASE PushVersion(n, v)
    BY <1>2, <1>8 DEF PushVersion, BuildSteps
  <1> QED BY <1>3, <1>4, <1>5, <1>6, <1>7, <1>8 DEF Build

LEMMA AwsMoves ==
    ASSUME NEW n \in Pushes, DeployTerraform(n) \/ AwsDestroy(n)
    PROVE  JobMoves
  <1> USE DEF Fault, Step, At, Fails
  <1>1. ASSUME NEW step \in AwsSteps \cup {"done", "failed"}, Step(n, step),
               place[n][Job(n)] \in AwsSteps,
               UNCHANGED <<messages, cancelling, again>>, faults' \in {faults, faults + 1}
        PROVE  JobMoves
    BY <1>1, JobOfPush, RunningAt DEF JobMoves
  <1>2. CASE Plan(n)
    BY <1>1, <1>2 DEF Plan, AwsSteps
  <1>3. CASE Apply(n)
    BY <1>1, <1>3 DEF Apply, AwsSteps
  <1>4. CASE Create(n)
    BY <1>1, <1>4 DEF Create, AwsSteps
  <1>5. CASE Save(n) \/ Forget(n)
    BY <1>1, <1>5 DEF Save, Forget, Written, NotWritten, AwsSteps
  <1>6. CASE Configure(n)
    BY <1>1, <1>6 DEF Configure, AwsSteps
  <1>7. CASE DestroyCharts(n)
    BY <1>1, <1>7 DEF DestroyCharts, AwsSteps
  <1>8. CASE Destroy(n)
    BY <1>1, <1>8 DEF Destroy, AwsSteps
  <1>9. CASE Remove(n)
    BY <1>1, <1>9 DEF Remove, AwsSteps
  <1>10. CASE DeleteImages(n)
    BY <1>1, <1>10 DEF DeleteImages, AwsSteps
  <1>11. CASE DeleteOthers(n)
    BY <1>1, <1>11 DEF DeleteOthers, AwsSteps
  <1> QED BY <1>2, <1>3, <1>4, <1>5, <1>6, <1>7, <1>8, <1>9, <1>10, <1>11
          DEF DeployTerraform, AwsDestroy

LEMMA WorkflowStep ==
    ASSUME [Next]_vars
    PROVE  JobsStay \/ JobMoves \/ WorkflowNext
  <1>1. CASE Expire \/ BuildOthers \/ ForceUnlock \/ UNCHANGED vars
    BY <1>1 DEF Expire, BuildOthers, ForceUnlock, vars, workflowVars, JobsStay
  <1> QED BY <1>1, BuildMoves, AwsMoves DEF Next

LEMMA WorkflowPreserved ==
    ASSUME WorkflowOK, [Next]_vars
    PROVE  WorkflowOK'
  <1>1. /\ messages \in Seq(Messages) /\ Len(messages) <= MaxPushes
        /\ place \in [Pushes -> [Jobs -> Places]]
        /\ cancelling \subseteq Pushes \X Workflows
        /\ again \subseteq Pushes \X Jobs
        /\ faults \in Nat
    BY DEF WorkflowOK, Places
  <1> DEFINE JobOK(n, job, at, log) ==
        at # "none" => /\ n \in DOMAIN log /\ job \in Selected(log[n])
                       /\ at \in StepsOf(job) \cup Ended
  <1>2. \A n \in Pushes, job \in Jobs : JobOK(n, job, place[n][job], messages)
    BY DEF WorkflowOK, Running
  <1>3. ASSUME messages' \in Seq(Messages), Len(messages') <= MaxPushes,
               place' \in [Pushes -> [Jobs -> Places]],
               \A n \in Pushes, job \in Jobs : JobOK(n, job, place'[n][job], messages'),
               cancelling' \subseteq Pushes \X Workflows,
               again' \subseteq Pushes \X Jobs,
               faults' \in Nat
        PROVE  WorkflowOK'
    BY <1>3 DEF WorkflowOK, Places
  <1>4. CASE JobsStay
    BY <1>1, <1>2, <1>3, <1>4 DEF JobsStay
  <1>5. ASSUME NEW n \in Pushes, NEW job \in Jobs, NEW step \in StepsOf(job) \cup Ended,
               Goto(n, job, step), JobOK(n, job, step, messages), UNCHANGED messages
        PROVE  /\ place' \in [Pushes -> [Jobs -> Places]]
               /\ \A k \in Pushes, j \in Jobs : JobOK(k, j, place'[k][j], messages')
    <2>1. step \in Places
      BY StepSets DEF Places
    <2>2. /\ place'[n][job] = step
          /\ \A k \in Pushes, j \in Jobs : <<k, j>> # <<n, job>> => place'[k][j] = place[k][j]
          /\ place' \in [Pushes -> [Jobs -> Places]]
      BY <1>5, <2>1, OneJobMoves
    <2> SUFFICES ASSUME NEW k \in Pushes, NEW j \in Jobs
                 PROVE  JobOK(k, j, place'[k][j], messages')
      BY <2>2
    <2>3. CASE k = n /\ j = job
      BY <1>5, <2>2, <2>3
    <2>4. CASE ~(k = n /\ j = job)
      BY <1>2, <1>5, <2>2, <2>4
    <2> QED BY <2>3, <2>4
  <1>6. CASE JobMoves
    <2>1. PICK n \in Pushes, job \in Jobs : \E step \in StepsOf(job) \cup {"done", "failed"} :
            Running(n, job) /\ Goto(n, job, step)
      BY <1>6 DEF JobMoves
    <2>2. PICK step \in StepsOf(job) \cup {"done", "failed"} : Running(n, job) /\ Goto(n, job, step)
      BY <2>1
    <2>3. JobOK(n, job, step, messages) /\ step \in StepsOf(job) \cup Ended
      BY <1>2, <2>2 DEF Running, Ended
    <2> HIDE DEF JobOK
    <2> QED BY <1>1, <1>3, <1>5, <1>6, <2>2, <2>3 DEF JobMoves
  <1>7. ASSUME NEW message \in Messages, Push(message)
        PROVE  WorkflowOK'
    <2> DEFINE n == Len(messages) + 1
    <2>1. /\ n \in Pushes /\ Len(messages) \in Nat
          /\ messages' = Append(messages, message)
      BY <1>1, <1>7, PushesAssumption DEF Push, Pushes
    <2>2. /\ messages' \in Seq(Messages) /\ Len(messages') = n /\ messages'[n] = message
          /\ \A k \in DOMAIN messages : k \in DOMAIN messages' /\ messages'[k] = messages[k]
          /\ n \in DOMAIN messages'
      BY <1>1, <2>1, AppendProperties
    <2>3. place' = [place EXCEPT ![n] =
               [job \in Jobs |-> IF job \in Selected(message) THEN FirstStep(job) ELSE "none"]]
      BY <1>7 DEF Push
    <2>4. \A job \in Jobs : FirstStep(job) \in Places /\ "none" \in Places
      BY StepSets DEF Places, Ended
    <2>5. place' \in [Pushes -> [Jobs -> Places]]
      BY <1>1, <2>1, <2>3, <2>4
    <2>6. ASSUME NEW k \in Pushes, NEW job \in Jobs
          PROVE  JobOK(k, job, place'[k][job], messages')
      <3>1. CASE k = n
        BY <1>1, <2>1, <2>2, <2>3, <3>1, StepSets DEF Ended
      <3>2. CASE k # n
        BY <1>1, <1>2, <2>1, <2>2, <2>3, <3>2
      <3> QED BY <3>1, <3>2
    <2>7. /\ cancelling' \subseteq Pushes \X Workflows
          /\ UNCHANGED <<again, faults>>
      BY <1>1, <1>7, <2>1 DEF Push
    <2>8. n <= MaxPushes
      BY <2>1, PushesAssumption DEF Pushes
    <2> HIDE DEF n, JobOK
    <2> QED BY <1>1, <1>3, <2>2, <2>5, <2>6, <2>7, <2>8
  <1>8. ASSUME NEW m \in Pushes, NEW workflow \in Workflows, CancelPrevious(m, workflow)
        PROVE  WorkflowOK'
    <2>1. \A k \in Pushes, job \in Jobs :
             \/ place'[k][job] = place[k][job]
             \/ place'[k][job] = "cancelled" /\ Running(k, job)
      BY <1>8 DEF CancelPrevious
    <2>2. place' \in [Pushes -> [Jobs -> Places]]
      <3>1. \A k \in Pushes, job \in Jobs : place[k][job] \in Places /\ "cancelled" \in Places
        BY <1>1 DEF Places, Ended
      <3> QED BY <3>1, <1>8 DEF CancelPrevious
    <2>3. UNCHANGED <<messages, again, faults>> /\ cancelling' \subseteq cancelling
      BY <1>8 DEF CancelPrevious
    <2>4. ASSUME NEW k \in Pushes, NEW job \in Jobs
          PROVE  JobOK(k, job, place'[k][job], messages')
      BY <1>2, <2>1, <2>3 DEF Running, Ended
    <2> HIDE DEF JobOK
    <2> QED BY <1>1, <1>3, <2>2, <2>3, <2>4
  <1>9. ASSUME NEW n \in Pushes, NEW job \in Jobs, Die(n, job)
        PROVE  WorkflowOK'
    <2>1. JobOK(n, job, "failed", messages) /\ "failed" \in StepsOf(job) \cup Ended
      BY <1>2, <1>9 DEF Die, Running, Ended
    <2> HIDE DEF JobOK
    <2> QED BY <1>1, <1>3, <1>5, <1>9, <2>1 DEF Die, Fault
  <1>10. ASSUME NEW n \in Pushes, NEW job \in Jobs, Rerun(n, job)
        PROVE  WorkflowOK'
    <2>1. JobOK(n, job, FirstStep(job), messages) /\ FirstStep(job) \in StepsOf(job)
      BY <1>2, <1>10, StepSets DEF Rerun
    <2> HIDE DEF JobOK
    <2> QED BY <1>1, <1>3, <1>5, <1>10, <2>1 DEF Rerun
  <1> QED BY <1>4, <1>6, <1>7, <1>8, <1>9, <1>10, WorkflowStep DEF WorkflowNext
----------------------------------------------------------------------------
(* The registry.                                                           *)

LEMMA ImagesTyped ==
    /\ NoImage \in Images /\ NoImage.version = "none" /\ NoImage.commit = 0
    /\ \A n \in Pushes, v \in Versions :
         /\ Image(n, v) \in Images
         /\ Image(n, v).commit = n /\ Image(n, v).version = v
         /\ Image(n, v) # NoImage
  <1>1. NoImage.version = "none" /\ NoImage.commit = 0 /\ NoImage \in Images
    BY DEF NoImage, Image, Images
  <1>2. "none" \notin Versions
    BY StepSets
  <1>3. ASSUME NEW n \in Pushes, NEW v \in Versions
        PROVE  /\ Image(n, v) \in Images
               /\ Image(n, v).commit = n /\ Image(n, v).version = v
               /\ Image(n, v) # NoImage
    <2>1. Image(n, v) \in Images
      BY DEF Images
    <2>2. Image(n, v).commit = n /\ Image(n, v).version = v
      BY DEF Image
    <2> QED BY <1>1, <1>2, <2>1, <2>2
  <1> QED BY <1>1, <1>3

Registries == [present : BOOLEAN, policy : BOOLEAN, newest : Images,
               version : [Versions -> Images], hash : [Pushes -> Images]]

LEMMA EmptyTyped ==
    /\ NoRegistry \in Registries /\ EmptyRegistry \in Registries
    /\ \A r \in {NoRegistry, EmptyRegistry} :
         /\ \A v \in Versions : r.version[v] = NoImage
         /\ \A n \in Pushes : r.hash[n] = NoImage
  <1>1. /\ NoRegistry \in Registries
        /\ \A v \in Versions : NoRegistry.version[v] = NoImage
        /\ \A n \in Pushes : NoRegistry.hash[n] = NoImage
    BY ImagesTyped DEF NoRegistry, Registries
  <1>2. /\ EmptyRegistry \in Registries
        /\ EmptyRegistry.version = NoRegistry.version
        /\ EmptyRegistry.hash = NoRegistry.hash
    BY <1>1 DEF EmptyRegistry, Registries
  <1> QED BY <1>1, <1>2

(* What a step does to the registry: nothing, it creates or deletes it, an *)
(* image expires, or one tag is pushed.                                    *)
SomeGo ==
    /\ registry' \in Registries
    /\ \A v \in Versions : registry'.version[v] \in {registry.version[v], NoImage}
    /\ \A n \in Pushes : registry'.hash[n] \in {registry.hash[n], NoImage}
    /\ published' = published

HashPushed(n, v) ==
    /\ place[n][v] = "pushHash" /\ Goto(n, v, "pushVersion")
    /\ registry' \in Registries
    /\ registry'.version = registry.version
    /\ registry'.hash = [registry.hash EXCEPT ![n] = Image(n, v)]
    /\ UNCHANGED <<published, messages, cancelling, again>>

VersionPushed(n, v) ==
    /\ place[n][v] = "pushVersion" /\ Goto(n, v, "done")
    /\ registry' \in Registries
    /\ registry'.version = [registry.version EXCEPT ![v] = Image(n, v)]
    /\ registry'.hash = registry.hash
    /\ published' = [published EXCEPT ![n] = @ \cup {v}]
    /\ UNCHANGED <<messages, cancelling, again>>

LEMMA RegistryStep ==
    ASSUME ImageOK, [Next]_vars
    PROVE  SomeGo \/ \E n \in Pushes, v \in Versions : HashPushed(n, v) \/ VersionPushed(n, v)
  <1>1. registry \in Registries
    BY DEF ImageOK, Registries
  <1>2. ASSUME UNCHANGED imageVars PROVE SomeGo
    BY <1>1, <1>2 DEF imageVars, SomeGo
  <1>3. CASE \/ WorkflowNext /\ UNCHANGED <<imageVars, infraVars>>
             \/ BuildOthers \/ ForceUnlock \/ UNCHANGED vars
    BY <1>2, <1>3 DEF BuildOthers, ForceUnlock, vars
  <1>4. ASSUME NEW n \in Pushes, DeployTerraform(n) \/ AwsDestroy(n)
        PROVE  SomeGo
    <2>1. CASE DeleteImages(n)
      BY <1>1, <1>2, <2>1, EmptyTyped DEF DeleteImages, SomeGo, imageVars
    <2>2. CASE UNCHANGED imageVars
      BY <1>2, <2>2
    <2> QED BY <1>4, <2>1, <2>2 DEF DeployTerraform, AwsDestroy, Plan, Apply, Create, Save,
               Configure, DestroyCharts, Destroy, Remove, Forget, DeleteOthers
  <1>5. CASE Expire
    <2> DEFINE Kept(tags) == [t \in DOMAIN tags |->
                  IF tags[t] = registry.newest THEN tags[t] ELSE NoImage]
    <2>1. /\ registry.version \in [Versions -> Images] /\ registry.hash \in [Pushes -> Images]
      BY <1>1 DEF Registries
    <2>2. /\ Kept(registry.version) \in [Versions -> Images]
          /\ Kept(registry.hash) \in [Pushes -> Images]
      BY <2>1, ImagesTyped
    <2>3. /\ \A v \in Versions : Kept(registry.version)[v] \in {registry.version[v], NoImage}
          /\ \A n \in Pushes : Kept(registry.hash)[n] \in {registry.hash[n], NoImage}
      BY <2>1
    <2>4. /\ registry' = [registry EXCEPT !.version = Kept(@), !.hash = Kept(@)]
          /\ published' = published
      BY <1>5 DEF Expire
    <2> HIDE DEF Kept
    <2>5. /\ registry' \in Registries
          /\ registry'.version = Kept(registry.version) /\ registry'.hash = Kept(registry.hash)
      BY <1>1, <2>2, <2>4 DEF Registries
    <2> QED BY <2>3, <2>4, <2>5 DEF SomeGo
  <1>6. ASSUME NEW n \in Pushes, NEW v \in Versions, Build(n, v)
        PROVE  SomeGo \/ HashPushed(n, v) \/ VersionPushed(n, v)
    <2>1. CASE UNCHANGED imageVars
      BY <1>2, <2>1
    <2>2. CASE DescribeRepository(n, v) \/ LookUpUri(n, v) \/ DescribeImages(n, v)
      BY <2>1, <2>2 DEF DescribeRepository, LookUpUri, DescribeImages
    <2>3. CASE CreateRepository(n, v)
      <3> DEFINE created == IF registry.present THEN registry ELSE EmptyRegistry
      <3>1. /\ created \in Registries
            /\ \A u \in Versions : created.version[u] \in {registry.version[u], NoImage}
            /\ \A k \in Pushes : created.hash[k] \in {registry.hash[k], NoImage}
        BY <1>1, EmptyTyped
      <3>2. /\ registry' \in {registry, created, [created EXCEPT !.policy = TRUE]}
            /\ published' = published
        BY <2>3 DEF CreateRepository
      <3>3. /\ [created EXCEPT !.policy = TRUE] \in Registries
            /\ [created EXCEPT !.policy = TRUE].version = created.version
            /\ [created EXCEPT !.policy = TRUE].hash = created.hash
        BY <3>1 DEF Registries
      <3> HIDE DEF created
      <3> QED BY <1>1, <3>1, <3>2, <3>3 DEF SomeGo
    <2>4. CASE PushHash(n, v)
      <3>1. Goto(n, v, "pushVersion") /\ place[n][v] = "pushHash"
            /\ UNCHANGED <<published, messages, cancelling, again>>
        BY <2>4 DEF PushHash
      <3>2. CASE registry' = registry
        BY <2>1, <3>1, <3>2 DEF imageVars
      <3>3. ASSUME NEW newest \in Newest(Image(n, v)),
                   registry' = [registry EXCEPT !.hash[n] = Image(n, v), !.newest = newest]
            PROVE  HashPushed(n, v)
        <4>1. newest \in Images /\ Image(n, v) \in Images
          BY <1>1, ImagesTyped DEF Newest, Registries
        <4>2. [registry.hash EXCEPT ![n] = Image(n, v)] \in [Pushes -> Images]
          BY <1>1, <4>1 DEF Registries
        <4>3. registry' = [registry EXCEPT !.hash = [registry.hash EXCEPT ![n] = Image(n, v)],
                                           !.newest = newest]
          BY <1>1, <3>3 DEF Registries
        <4>4. /\ registry' \in Registries
              /\ registry'.version = registry.version
              /\ registry'.hash = [registry.hash EXCEPT ![n] = Image(n, v)]
          BY <1>1, <4>1, <4>2, <4>3 DEF Registries
        <4> QED BY <3>1, <4>4 DEF HashPushed
      <3> QED BY <2>4, <3>2, <3>3 DEF PushHash
    <2>5. CASE PushVersion(n, v)
      <3>1. place[n][v] = "pushVersion" /\ UNCHANGED <<messages, cancelling, again>>
        BY <2>5 DEF PushVersion
      <3>2. CASE UNCHANGED <<registry, published>>
        BY <2>1, <3>2 DEF imageVars
      <3>3. ASSUME NEW newest \in Newest(Image(n, v)), Goto(n, v, "done"),
                   registry' = [registry EXCEPT !.version[v] = Image(n, v), !.newest = newest],
                   published' = [published EXCEPT ![n] = @ \cup {v}]
            PROVE  VersionPushed(n, v)
        <4>1. newest \in Images /\ Image(n, v) \in Images
          BY <1>1, ImagesTyped DEF Newest, Registries
        <4>2. [registry.version EXCEPT ![v] = Image(n, v)] \in [Versions -> Images]
          BY <1>1, <4>1 DEF Registries
        <4>3. registry' = [registry EXCEPT
                             !.version = [registry.version EXCEPT ![v] = Image(n, v)],
                             !.newest = newest]
          BY <1>1, <3>3 DEF Registries
        <4>4. /\ registry' \in Registries
              /\ registry'.version = [registry.version EXCEPT ![v] = Image(n, v)]
              /\ registry'.hash = registry.hash
          BY <1>1, <4>1, <4>2, <4>3 DEF Registries
        <4> QED BY <3>1, <3>3, <4>4 DEF VersionPushed
      <3> QED BY <2>5, <3>2, <3>3 DEF PushVersion
    <2> QED BY <1>6, <2>2, <2>3, <2>4, <2>5 DEF Build
  <1> QED BY <1>3, <1>4, <1>5, <1>6 DEF Next

LEMMA ImagePreserved ==
    ASSUME ImageOK, [Next]_vars
    PROVE  ImageOK'
  <1>1. /\ registry \in Registries
        /\ \A v \in Versions : registry.version[v].version \in {v, NoImage.version}
        /\ \A n \in Pushes : registry.hash[n].commit \in {n, NoImage.commit}
        /\ published \in [Pushes -> SUBSET Versions]
    BY DEF ImageOK, Registries
  <1>2. CASE SomeGo
    BY <1>1, <1>2 DEF SomeGo, ImageOK, Registries
  <1>3. ASSUME NEW n \in Pushes, NEW v \in Versions, HashPushed(n, v)
        PROVE  ImageOK'
    <2>1. registry.hash \in [Pushes -> Images] /\ Image(n, v).commit = n
      BY <1>1, ImagesTyped DEF Registries
    <2> QED BY <1>1, <1>3, <2>1 DEF HashPushed, ImageOK, Registries
  <1>4. ASSUME NEW n \in Pushes, NEW v \in Versions, VersionPushed(n, v)
        PROVE  ImageOK'
    <2>1. registry.version \in [Versions -> Images] /\ Image(n, v).version = v
      BY <1>1, ImagesTyped DEF Registries
    <2>2. published' \in [Pushes -> SUBSET Versions]
      BY <1>1, <1>4 DEF VersionPushed
    <2> QED BY <1>1, <1>4, <2>1, <2>2 DEF VersionPushed, ImageOK, Registries
  <1> QED BY <1>2, <1>3, <1>4, RegistryStep
----------------------------------------------------------------------------
(* The infrastructure.                                                     *)

(* A write of the state succeeds, or changes nothing but what is known.    *)
LEMMA StateTyped ==
    ASSUME InfraOK, NEW present \in BOOLEAN, Written(present) \/ NotWritten
    PROVE  state' \in [cluster : BOOLEAN, serial : Nat] /\ doubtful' \in BOOLEAN
  <1>1. state \in [cluster : BOOLEAN, serial : Nat]
    BY DEF InfraOK
  <1>2. CASE Written(present)
    <2>1. state' \in [cluster : BOOLEAN, serial : Nat]
      BY <1>1, <1>2 DEF Written
    <2>2. doubtful' \in BOOLEAN
      BY <1>2, Zenon DEF Written
    <2> QED BY <2>1, <2>2
  <1>3. CASE NotWritten
    BY <1>1, <1>3 DEF NotWritten
  <1> QED BY <1>2, <1>3

LEMMA InfraPreserved ==
    ASSUME InfraOK, [Next]_vars
    PROVE  InfraOK'
  <1>1. /\ cluster \in BOOLEAN /\ others \in BOOLEAN /\ doubtful \in BOOLEAN
        /\ state \in [cluster : BOOLEAN, serial : Nat]
        /\ lock \in {0} \cup Pushes
        /\ planned \in [Pushes -> [create : BOOLEAN, serial : Nat]]
    BY DEF InfraOK
  <1>2. ASSUME UNCHANGED infraVars PROVE InfraOK'
    BY <1>1, <1>2 DEF infraVars, InfraOK
  <1>3. CASE \/ WorkflowNext /\ UNCHANGED <<imageVars, infraVars>>
             \/ \E n \in Pushes, v \in Versions : Build(n, v) /\ UNCHANGED infraVars
             \/ Expire /\ UNCHANGED infraVars
             \/ UNCHANGED vars
    BY <1>2, <1>3 DEF vars
  <1>4. CASE BuildOthers
    BY <1>1, <1>4 DEF BuildOthers, InfraOK
  <1>5. CASE ForceUnlock
    BY <1>1, <1>5 DEF ForceUnlock, InfraOK
  <1>6. ASSUME NEW n \in Pushes, DeployTerraform(n)
        PROVE  InfraOK'
    <2>1. CASE Plan(n)
      <3>1. [create |-> ~(state.cluster /\ cluster), serial |-> state.serial]
               \in [create : BOOLEAN, serial : Nat]
        BY <1>1
      <3>2. planned' \in [Pushes -> [create : BOOLEAN, serial : Nat]]
        BY <1>1, <2>1, <3>1 DEF Plan
      <3> QED BY <1>1, <2>1, <3>2 DEF Plan, InfraOK
    <2>2. CASE Apply(n)
      BY <1>1, <2>2 DEF Apply, Lock, InfraOK
    <2>3. CASE Create(n)
      <3>1. planned[n].create \in BOOLEAN
        BY <1>1
      <3> QED BY <1>1, <2>3, <3>1 DEF Create, Unlock, InfraOK
    <2>4. CASE Save(n)
      <3>1. state' \in [cluster : BOOLEAN, serial : Nat] /\ doubtful' \in BOOLEAN
        BY <1>1, <2>4, StateTyped DEF Save
      <3> QED BY <1>1, <2>4, <3>1 DEF Save, Unlock, InfraOK
    <2>5. CASE Configure(n)
      BY <1>2, <2>5 DEF Configure
    <2> QED BY <1>6, <2>1, <2>2, <2>3, <2>4, <2>5 DEF DeployTerraform
  <1>7. ASSUME NEW n \in Pushes, AwsDestroy(n)
        PROVE  InfraOK'
    <2>1. CASE DestroyCharts(n) \/ DeleteImages(n)
      BY <1>2, <2>1 DEF DestroyCharts, DeleteImages
    <2>2. CASE Destroy(n)
      BY <1>1, <2>2 DEF Destroy, Lock, InfraOK
    <2>3. CASE Remove(n)
      BY <1>1, <2>3 DEF Remove, Unlock, InfraOK
    <2>4. CASE Forget(n)
      <3>1. state' \in [cluster : BOOLEAN, serial : Nat] /\ doubtful' \in BOOLEAN
        BY <1>1, <2>4, StateTyped DEF Forget
      <3> QED BY <1>1, <2>4, <3>1 DEF Forget, Unlock, InfraOK
    <2>5. CASE DeleteOthers(n)
      BY <1>1, <2>5 DEF DeleteOthers, InfraOK
    <2> QED BY <1>7, <2>1, <2>2, <2>3, <2>4, <2>5 DEF AwsDestroy
  <1> QED BY <1>3, <1>4, <1>5, <1>6, <1>7 DEF Next

LEMMA InitTyped == Init => TypeOK
  <1> SUFFICES ASSUME Init PROVE TypeOK
    OBVIOUS
  <1>1. WorkflowOK
    BY PushesAssumption DEF Init, WorkflowInit, WorkflowOK, Ended
  <1>2. ImageOK
    <2>1. registry \in Registries /\ published \in [Pushes -> SUBSET Versions]
      BY EmptyTyped DEF Init, ImageInit
    <2> QED BY <2>1, EmptyTyped, ImagesTyped DEF Init, ImageInit, ImageOK, Registries
  <1>3. InfraOK
    BY DEF Init, InfraOK
  <1> QED BY <1>1, <1>2, <1>3 DEF TypeOK

(* Every job stays within the steps of its own workflow and belongs to a   *)
(* push whose message selects it, and a tag only names an image of the     *)
(* commit or the version that it stands for.                               *)
THEOREM TypeCorrect == Spec => []TypeOK
  <1>1. TypeOK /\ [Next]_vars => TypeOK'
    BY WorkflowPreserved, ImagePreserved, InfraPreserved DEF TypeOK
  <1> QED BY InitTyped, <1>1, PTL DEF Spec
============================================================================
