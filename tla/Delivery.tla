----------------------------- MODULE Delivery ------------------------------
(***************************************************************************)
(* The delivery of eks-cluster: the builds of module ImageBuild beside the *)
(* jobs of .github/workflows/aws.yml, which run "make deploy" and "make    *)
(* destroy" of infra/Makefile.  All that terraform manages is one thing,   *)
(* the cluster.  Terraform keeps a state in S3, with a serial number, and  *)
(* locks it in DynamoDB; a plan that was saved can only be applied to the  *)
(* state it was made from.                                                 *)
(***************************************************************************)
EXTENDS ImageBuild

VARIABLES
    cluster,    \* there is a cluster
    state,      \* terraform's state: the cluster as it is known, and a serial number
    lock,       \* push whose job holds the lock, 0 if none does
    planned,    \* [Pushes -> the plan file of its job]
    others,     \* the repositories of the other programs are there
    doubtful    \* history: a state was not written, or a lock broken, and no state written since

infraVars == <<cluster, state, lock, planned, others, doubtful>>
vars == <<workflowVars, imageVars, infraVars>>

(* A push has at most one of the jobs of aws.yml. *)
Job(n) == IF messages[n] = "awsdeploy" THEN "deploy" ELSE "destroy"
At(n, step) == n \in DOMAIN messages /\ place[n][Job(n)] = step
Step(n, step) == Goto(n, Job(n), step)

Init ==
    /\ WorkflowInit
    /\ ImageInit
    /\ cluster = FALSE
    /\ state = [cluster |-> FALSE, serial |-> 0]
    /\ lock = 0
    /\ planned = [n \in Pushes |-> [create |-> FALSE, serial |-> 0]]
    /\ others = FALSE
    /\ doubtful = FALSE

NoLockTable == TRUE
Unlocked == lock = 0
Lock(n) == lock' = n
Unlock(n) == lock' = 0

(* A command whose failure ends the job, with bash -e and make.            *)
Fails(n) == Step(n, "failed") /\ Fault
----------------------------------------------------------------------------
(* deploy-terraform.  A plan is made from the state and from what is left  *)
(* of what the state knows.                                                *)

Plan(n) ==
    /\ At(n, "plan")
    /\ \/ /\ Unlocked
          /\ planned' = [planned EXCEPT ![n] =
                 [create |-> ~(state.cluster /\ cluster), serial |-> state.serial]]
          /\ Step(n, "apply") /\ UNCHANGED faults
       \/ ~Unlocked /\ Step(n, "failed") /\ UNCHANGED <<planned, faults>>
       \/ Fails(n) /\ UNCHANGED planned
    /\ UNCHANGED <<messages, cancelling, again, imageVars, cluster, state, lock, others, doubtful>>

AnyPlan(n) == TRUE
PlanIsCurrent(n) == planned[n].serial = state.serial

Apply(n) ==
    /\ At(n, "apply")
    /\ \/ Unlocked /\ PlanIsCurrent(n) /\ Lock(n) /\ Step(n, "create") /\ UNCHANGED faults
       \/ ~(Unlocked /\ PlanIsCurrent(n)) /\ Step(n, "failed") /\ UNCHANGED <<lock, faults>>
       \/ Fails(n) /\ UNCHANGED lock
    /\ UNCHANGED <<messages, cancelling, again, imageVars, cluster, state, planned, others, doubtful>>

(* A cluster that the state does not know stands in the way of a new one.  *)
Create(n) ==
    /\ At(n, "create")
    /\ \/ /\ ~(planned[n].create /\ cluster)
          /\ cluster' = (cluster \/ planned[n].create)
          /\ Step(n, "save") /\ UNCHANGED <<lock, faults>>
       \/ planned[n].create /\ cluster /\ Step(n, "failed") /\ Unlock(n) /\ UNCHANGED <<cluster, faults>>
       \/ Fails(n) /\ Unlock(n) /\ UNCHANGED cluster
    /\ UNCHANGED <<messages, cancelling, again, imageVars, state, planned, others, doubtful>>

(* The state is written with the next number.  Or that fails: then what    *)
(* should have been written stays on the runner, in errored.tfstate, and   *)
(* is lost with it, and the lock is given back as after any other error.   *)
Written(present) ==
    /\ state' = [cluster |-> present, serial |-> state.serial + 1]
    /\ doubtful' = FALSE
NotWritten ==
    /\ Fault
    /\ doubtful' = TRUE
    /\ UNCHANGED state

(* A plan that changes nothing leaves the state as it is.                  *)
Save(n) ==
    /\ At(n, "save")
    /\ Unlock(n)
    /\ \/ ~planned[n].create /\ Step(n, "configure") /\ UNCHANGED <<state, doubtful, faults>>
       \/ planned[n].create /\ Written(TRUE) /\ Step(n, "configure") /\ UNCHANGED faults
       \/ planned[n].create /\ NotWritten /\ Step(n, "failed")
    /\ UNCHANGED <<messages, cancelling, again, imageVars, cluster, planned, others>>

(* terraform output, kubectl apply of the config map. *)
Configure(n) ==
    /\ At(n, "configure")
    /\ \/ cluster /\ Step(n, IF Job(n) = "deploy" THEN "done" ELSE "destroyCharts") /\ UNCHANGED faults
       \/ ~cluster /\ Step(n, "failed") /\ UNCHANGED faults
       \/ Fails(n)
    /\ UNCHANGED <<messages, cancelling, again, imageVars, infraVars>>

DeployTerraform(n) == Plan(n) \/ Apply(n) \/ Create(n) \/ Save(n) \/ Configure(n)
----------------------------------------------------------------------------
(* destroy-charts: eksctl must succeed, helm uninstall need not.           *)
DestroyCharts(n) ==
    /\ At(n, "destroyCharts")
    /\ \/ cluster /\ Step(n, "destroy") /\ UNCHANGED faults
       \/ ~cluster /\ Step(n, "failed") /\ UNCHANGED faults
       \/ Fails(n)
    /\ UNCHANGED <<messages, cancelling, again, imageVars, infraVars>>

(* destroy-terraform.  Whatever becomes of "terraform destroy || true",    *)
(* the target goes on and says that everything is destroyed.               *)
Destroy(n) ==
    /\ At(n, "destroy")
    /\ \/ Unlocked /\ Lock(n) /\ Step(n, "remove") /\ UNCHANGED faults
       \/ ~Unlocked /\ Step(n, "deleteImages") /\ UNCHANGED <<lock, faults>>
       \/ Step(n, "deleteImages") /\ Fault /\ UNCHANGED lock
    /\ UNCHANGED <<messages, cancelling, again, imageVars, cluster, state, planned, others, doubtful>>

Remove(n) ==
    /\ At(n, "remove")
    /\ \/ cluster' = (cluster /\ ~state.cluster) /\ Step(n, "forget") /\ UNCHANGED <<lock, faults>>
       \/ Step(n, "deleteImages") /\ Unlock(n) /\ Fault /\ UNCHANGED cluster
    /\ UNCHANGED <<messages, cancelling, again, imageVars, state, planned, others, doubtful>>

Forget(n) ==
    /\ At(n, "forget")
    /\ Unlock(n)
    /\ Step(n, "deleteImages")
    /\ \/ ~state.cluster /\ UNCHANGED <<state, doubtful, faults>>
       \/ state.cluster /\ Written(FALSE) /\ UNCHANGED faults
       \/ state.cluster /\ NotWritten
    /\ UNCHANGED <<messages, cancelling, again, imageVars, cluster, planned, others>>

(* aws ecr delete-repository --force, one repository after the other.      *)
DeleteImages(n) ==
    /\ At(n, "deleteImages")
    /\ \/ registry.present /\ registry' = NoRegistry /\ Step(n, "deleteOthers") /\ UNCHANGED faults
       \/ ~registry.present /\ Step(n, "failed") /\ UNCHANGED <<registry, faults>>
       \/ Fails(n) /\ UNCHANGED registry
    /\ UNCHANGED <<messages, cancelling, again, published, infraVars>>

DeleteOthers(n) ==
    /\ At(n, "deleteOthers")
    /\ \/ others /\ others' = FALSE /\ Step(n, "done") /\ UNCHANGED faults
       \/ ~others /\ Step(n, "failed") /\ UNCHANGED <<others, faults>>
       \/ Fails(n) /\ UNCHANGED others
    /\ UNCHANGED <<messages, cancelling, again, imageVars, cluster, state, lock, planned, doubtful>>

AwsDestroy(n) ==
    DestroyCharts(n) \/ Destroy(n) \/ Remove(n) \/ Forget(n) \/ DeleteImages(n) \/ DeleteOthers(n)

(* The jobs for the other programs' images create the other repositories.  *)
BuildOthers ==
    /\ "awsbuild" \in Range(messages)
    /\ ~others
    /\ others' = TRUE
    /\ UNCHANGED <<workflowVars, imageVars, cluster, state, lock, planned, doubtful>>

(* Somebody breaks a lock that a job left when it was killed.              *)
Holding(n) == \E step \in {"create", "save", "remove", "forget"} : At(n, step)

ForceUnlock ==
    /\ ~Unlocked
    /\ ~Holding(lock)
    /\ lock' = 0
    /\ doubtful' = TRUE
    /\ UNCHANGED <<workflowVars, imageVars, cluster, state, planned, others>>
----------------------------------------------------------------------------
Next ==
    \/ WorkflowNext /\ UNCHANGED <<imageVars, infraVars>>
    \/ \E n \in Pushes, v \in Versions : Build(n, v) /\ UNCHANGED infraVars
    \/ Expire /\ UNCHANGED infraVars
    \/ \E n \in Pushes : DeployTerraform(n) \/ AwsDestroy(n)
    \/ BuildOthers
    \/ ForceUnlock

Spec == Init /\ [][Next]_vars
----------------------------------------------------------------------------
BuildSteps == {"describeRepository", "createRepository", "lookUpUri", "describeImages",
               "withoutUri", "pushHash", "pushVersion"}
AwsSteps == {"plan", "apply", "create", "save", "configure", "destroyCharts", "destroy",
             "remove", "forget", "deleteImages", "deleteOthers"}
StepsOf(job) == IF job \in Versions THEN BuildSteps ELSE AwsSteps

WorkflowOK ==
    /\ messages \in Seq(Messages) /\ Len(messages) <= MaxPushes
    /\ place \in [Pushes -> [Jobs -> Ended \cup BuildSteps \cup AwsSteps]]
    /\ \A n \in Pushes, job \in Jobs :
         place[n][job] # "none" => /\ n \in DOMAIN messages /\ job \in Selected(messages[n])
                                   /\ place[n][job] \in StepsOf(job) \cup Ended
    /\ cancelling \subseteq Pushes \X Workflows
    /\ again \subseteq Pushes \X Jobs
    /\ faults \in Nat

ImageOK ==
    /\ registry \in [present : BOOLEAN, policy : BOOLEAN, newest : Images,
                     version : [Versions -> Images], hash : [Pushes -> Images]]
    /\ \A v \in Versions : registry.version[v].version \in {v, NoImage.version}
    /\ \A n \in Pushes : registry.hash[n].commit \in {n, NoImage.commit}
    /\ published \in [Pushes -> SUBSET Versions]

InfraOK ==
    /\ cluster \in BOOLEAN /\ others \in BOOLEAN /\ doubtful \in BOOLEAN
    /\ state \in [cluster : BOOLEAN, serial : Nat]
    /\ lock \in {0} \cup Pushes
    /\ planned \in [Pushes -> [create : BOOLEAN, serial : Nat]]

(* Every job is at a step of its own workflow, and all tags are images of  *)
(* what they stand for.                                                    *)
TypeOK == WorkflowOK /\ ImageOK /\ InfraOK

(* Whatever else fails, is cancelled or runs at the same time: while       *)
(* nobody holds terraform's lock, its state knows the cluster that there   *)
(* is and no other.  Two things make it doubtful: a state that could not   *)
(* be written, after which terraform gives the lock back all the same, and *)
(* a lock that is broken.  The next state that is written ends the doubt.  *)
StateIsTrue == Unlocked /\ ~doubtful => state.cluster = cluster

(* A deploy that created the cluster has it, and its state says so.  One   *)
(* that took the cluster for granted does not find it gone when its plan   *)
(* is applied, although another job may have destroyed it after the plan   *)
(* was made, unless the state is doubtful: a destroy whose state was not   *)
(* written leaves the serial number that the plan was made from.           *)
AppliedIsThere ==
    [][\A n \in Pushes :
          At(n, "save") /\ At(n, "configure")' /\ (planned[n].create \/ ~doubtful) =>
              cluster' /\ state'.cluster]_vars

(* Jobs that plan, apply and destroy at the same time, die and are run     *)
(* again do what the module RemoteState promises.                          *)
Remote == INSTANCE RemoteState WITH
    Clients <- Pushes,
    NoOne   <- 0,
    holder  <- lock,
    seen    <- [n \in Pushes |-> planned[n].serial]

KeepsRemoteState == Remote!Spec

(* The hash check lets the two jobs of a run skip each other, but not both *)
(* of them: when both ended well and none was run again, the run published *)
(* one version at least.                                                   *)
OneIsPublished ==
    \A n \in Pushes :
        /\ \A v \in Versions : place[n][v] = "done" /\ <<n, v>> \notin again
        => published[n] # {}

(* The tag v1 or v2 goes back to an older commit only while the cancel job *)
(* of the newer run has not acted, or by a job that was run again.         *)
TagsMoveForward ==
    [][\A v \in Versions :
          LET old == registry.version[v].commit
              new == registry'.version[v].commit
          IN  new \in 1..(old - 1) => <<old, "build">> \in cancelling \/ <<new, v>> \in again]_vars
----------------------------------------------------------------------------
(* What the repository says and the code does not do.                      *)

(* "Build web application docker image and push it to AWS ECR" (CICD.md:9) *)
(* and the jobs "Golang App V1 Build" and "Golang App V2 Build": after a   *)
(* first run that ended well both images can be pulled.                    *)
BothCanBePulled ==
    Len(messages) = 1 /\ (\A v \in Versions : place[1][v] = "done") =>
        \A v \in Versions : registry.version[v] = Image(1, v)

(* The same sentence, of a run whose jobs ended well after one was run     *)
(* again: it has published something.  A job that stopped between its two  *)
(* pushes finds the hash it pushed itself, as does the other job.          *)
RunPublishes ==
    \A n \in Pushes : (\A v \in Versions : place[n][v] = "done") => published[n] # {}
============================================================================
