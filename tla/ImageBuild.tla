---------------------------- MODULE ImageBuild -----------------------------
(***************************************************************************)
(* build.sh of golang-app-v1 and golang-app-v2, call by call, and their    *)
(* ONE repository in ECR, eks-cluster/golang-app.  The scripts do not stop *)
(* at a command that fails; what a job reports is how its last push ended. *)
(* The checkout has a depth of one, so that COMMIT_HASH, "the last commit  *)
(* of this directory", is the commit that was pushed: both jobs of a run   *)
(* have the same.                                                          *)
(***************************************************************************)
EXTENDS Workflow, Functions

VARIABLES
    registry,   \* the repository: is it there, its policy, tags and newest image
    published   \* [Pushes -> history: versions whose tag a job of it pushed]

imageVars == <<registry, published>>

Versions == JobsOf("build")
Image(n, v) == [commit |-> n, version |-> v]
NoImage == Image(0, "none")
Images == {Image(n, v) : n \in Pushes, v \in Versions} \cup {NoImage}

NoRegistry == [present |-> FALSE, policy |-> FALSE, newest |-> NoImage,
               version |-> [v \in Versions |-> NoImage],
               hash |-> [n \in Pushes |-> NoImage]]
Tagged == Range(registry.hash) \cup Range(registry.version)
EmptyRegistry == [NoRegistry EXCEPT !.present = TRUE]

ImageInit ==
    /\ registry = NoRegistry
    /\ published = [n \in Pushes |-> {}]
----------------------------------------------------------------------------
(* if ! describe-repositories; then create-repository, put-lifecycle-policy *)

DescribeRepository(n, v) ==
    /\ place[n][v] = "describeRepository"
    /\ \/ Goto(n, v, IF registry.present THEN "lookUpUri" ELSE "createRepository") /\ UNCHANGED faults
       \/ Goto(n, v, "createRepository") /\ Fault
    /\ UNCHANGED <<messages, cancelling, again, imageVars>>

CreateRepository(n, v) ==
    /\ place[n][v] = "createRepository"
    /\ LET created == IF registry.present THEN registry ELSE EmptyRegistry
       IN  \/ registry' = [created EXCEPT !.policy = TRUE] /\ UNCHANGED faults
           \/ registry' \in {registry, created} /\ Fault
    /\ Goto(n, v, "lookUpUri")
    /\ UNCHANGED <<messages, cancelling, again, published>>

LookUpUri(n, v) ==
    /\ place[n][v] = "lookUpUri"
    /\ \/ Goto(n, v, IF registry.present THEN "describeImages" ELSE "withoutUri") /\ UNCHANGED faults
       \/ Goto(n, v, "withoutUri") /\ Fault
    /\ UNCHANGED <<messages, cancelling, again, imageVars>>

(* An image with this hash ends the job, and it counts as a success.       *)
(* Without a URI both pushes fail.                                         *)
FoundAnyImage(n) == Tagged # {NoImage}
FoundImage(n) == registry.hash[n] # NoImage

DescribeImages(n, v) ==
    LET rest == IF place[n][v] = "withoutUri" THEN "failed" ELSE "pushHash"
    IN  /\ place[n][v] \in {"describeImages", "withoutUri"}
        /\ \/ Goto(n, v, IF FoundImage(n) THEN "done" ELSE rest) /\ UNCHANGED faults
           \/ Goto(n, v, rest) /\ Fault
        /\ UNCHANGED <<messages, cancelling, again, imageVars>>
----------------------------------------------------------------------------
(* docker build, tag and two pushes.  A build that fails has nothing to    *)
(* push: what follows is what follows without a URI.  An image that is in  *)
(* the repository already may or may not count as newly pushed.            *)

Newest(image) == IF image \in Tagged THEN {image, registry.newest} ELSE {image}

PushHash(n, v) ==
    /\ place[n][v] = "pushHash"
    /\ \/ /\ registry.present
          /\ \E newest \in Newest(Image(n, v)) :
               registry' = [registry EXCEPT !.hash[n] = Image(n, v), !.newest = newest]
          /\ UNCHANGED faults
       \/ ~registry.present /\ UNCHANGED <<registry, faults>>
       \/ Fault /\ UNCHANGED registry
    /\ Goto(n, v, "pushVersion")
    /\ UNCHANGED <<messages, cancelling, again, published>>

PushVersion(n, v) ==
    /\ place[n][v] = "pushVersion"
    /\ \/ /\ registry.present
          /\ \E newest \in Newest(Image(n, v)) :
               registry' = [registry EXCEPT !.version[v] = Image(n, v), !.newest = newest]
          /\ published' = [published EXCEPT ![n] = @ \cup {v}]
          /\ Goto(n, v, "done")
          /\ UNCHANGED faults
       \/ ~registry.present /\ Goto(n, v, "failed") /\ UNCHANGED <<registry, published, faults>>
       \/ Fault /\ Goto(n, v, "failed") /\ UNCHANGED <<registry, published>>
    /\ UNCHANGED <<messages, cancelling, again>>

(* ecr-lifecycle-policy.json, rule 3: of all images the newest one stays.  *)
Expire ==
    LET Kept(tags) == [t \in DOMAIN tags |->
            IF tags[t] = registry.newest THEN tags[t] ELSE NoImage]
        kept == [registry EXCEPT !.version = Kept(@), !.hash = Kept(@)]
    IN  /\ registry.policy
        /\ kept # registry
        /\ registry' = kept
        /\ UNCHANGED <<workflowVars, published>>

Build(n, v) ==
    \/ DescribeRepository(n, v) \/ CreateRepository(n, v) \/ LookUpUri(n, v)
    \/ DescribeImages(n, v) \/ PushHash(n, v) \/ PushVersion(n, v)
============================================================================
