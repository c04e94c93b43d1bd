----------------------------- MODULE Workflow ------------------------------
(***************************************************************************)
(* GitHub Actions as .github/workflows/build.yml and aws.yml use it.       *)
(* Every push to main starts a run of each workflow.  The message of its   *)
(* head commit selects the jobs, and the cancel job of a run, which no     *)
(* other job waits for, ends the earlier runs of the same workflow.        *)
(***************************************************************************)
EXTENDS Integers, Sequences, FiniteSets

CONSTANTS
    MaxPushes,  \* bound: pushes to main
    MaxFaults,  \* bound: calls that fail, runners that die
    MaxReruns   \* bound: jobs that are run again

ASSUME PushesAssumption == MaxPushes \in Nat
ASSUME FaultsAssumption == MaxFaults \in Nat /\ MaxReruns \in Nat

VARIABLES
    messages,   \* messages of the commits pushed so far; an index is a commit
    place,      \* [Pushes -> [Jobs -> the step a job is at]]
    cancelling, \* cancel jobs that have something to do: pairs of push and workflow
    again,      \* pairs of push and job that were run again
    faults

workflowVars == <<messages, place, cancelling, again, faults>>

Pushes    == 1..MaxPushes
Workflows == {"build", "aws"}
Jobs      == {"v1", "v2", "deploy", "destroy"}
Messages  == {"awsbuild", "awsdeploy", "awsdestroy", "other"}

(* The jobs for python-app, testbox, goprometheus and the operator have    *)
(* repositories of their own and disturb nobody: they are left out.        *)
JobsOf(workflow) == IF workflow = "build" THEN {"v1", "v2"} ELSE {"deploy", "destroy"}

Selected(message) ==
    CASE message = "awsbuild"   -> {"v1", "v2"}
      [] message = "awsdeploy"  -> {"deploy"}
      [] message = "awsdestroy" -> {"destroy"}
      [] message = "other"      -> {}

FirstStepOfDeploy(job) == "plan"
FirstStep(job) == IF job \in JobsOf("build") THEN "describeRepository" ELSE "plan"

Ended == {"none", "done", "failed", "cancelled"}
Running(n, job) == place[n][job] \notin Ended

WorkflowInit ==
    /\ messages = <<>>
    /\ place = [n \in Pushes |-> [job \in Jobs |-> "none"]]
    /\ cancelling = {}
    /\ again = {}
    /\ faults = 0

Goto(n, job, step) == place' = [place EXCEPT ![n][job] = step]
Fault == faults < MaxFaults /\ faults' = faults + 1
----------------------------------------------------------------------------
(* The cancel jobs of the first run find nothing. *)
Push(message) ==
    LET n == Len(messages) + 1
    IN  /\ n <= MaxPushes
        /\ messages' = Append(messages, message)
        /\ place' = [place EXCEPT ![n] =
               [job \in Jobs |-> IF job \in Selected(message) THEN FirstStep(job) ELSE "none"]]
        /\ cancelling' = cancelling \cup {<<n, w>> : w \in {u \in Workflows : n > 1}}
        /\ UNCHANGED <<again, faults>>

EarlierButOne(n) == 1..(n - 2)

(* Runs that were created before this one, whatever their commits say.     *)
Earlier(n) == 1..(n - 1)

CancelPrevious(n, workflow) ==
    /\ <<n, workflow>> \in cancelling
    /\ cancelling' = cancelling \ {<<n, workflow>>}
    /\ place' = [k \in Pushes |-> [job \in Jobs |->
           IF k \in Earlier(n) /\ job \in JobsOf(workflow) /\ Running(k, job)
           THEN "cancelled" ELSE place[k][job]]]
    /\ UNCHANGED <<messages, again, faults>>

(* The runner of a job dies. *)
Die(n, job) ==
    /\ Running(n, job)
    /\ Fault
    /\ Goto(n, job, "failed")
    /\ UNCHANGED <<messages, cancelling, again>>

(* "Re-run failed jobs", once for each. *)
Rerun(n, job) ==
    /\ place[n][job] \in {"failed", "cancelled"}
    /\ <<n, job>> \notin again
    /\ Cardinality(again) < MaxReruns
    /\ again' = again \cup {<<n, job>>}
    /\ Goto(n, job, FirstStep(job))
    /\ UNCHANGED <<messages, cancelling, faults>>

WorkflowNext ==
    \/ \E message \in Messages : Push(message)
    \/ \E n \in Pushes, workflow \in Workflows : CancelPrevious(n, workflow)
    \/ \E n \in Pushes, job \in Jobs : Die(n, job) \/ Rerun(n, job)
============================================================================
