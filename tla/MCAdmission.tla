---------------------------- MODULE MCAdmission ----------------------------
(* Small instances of Admission for TLC: see README.md for the bounds.     *)
EXTENDS Admission

Steves(labels) == ("managedby" :> "steve") @@ labels
PodWith(labels) ==
    [badName |-> FALSE, labels |-> labels, tolerations |-> <<>>, env |-> [main |-> <<>>]]

PlainPod   == PodWith(Steves(<<>>))
ShortLived == PodWith(Steves(Lifespan :> 1))
LongLived  == PodWith(Steves(Lifespan :> TaintMaxAge))
TooLong    == PodWith(Steves(Lifespan :> TaintMaxAge + 1))
Careless   == PodWith(Steves(Lifespan :> NotANumber))
Unlabelled == PodWith(<<>>)
NotSteves  == PodWith("managedby" :> "someone")
Offensive  == [PlainPod EXCEPT !.badName = TRUE]

(* A client that knows the taint and sets KUBE itself. *)
Prepared ==
    [ShortLived EXCEPT !.tolerations = <<[operator |-> "Exists", value |-> 9], Remaining(2)>>,
                       !.env = [main |-> <<[name |-> "KUBE", value |-> "false"]>>,
                                init |-> <<[name |-> "PORT", value |-> "80"]>>]]

(* A client that sets the label of mutatingwebhook itself. *)
OwnLabel == PodWith(Steves("myExtraLabel" :> "mine"))

AllPods  == {PlainPod, ShortLived, LongLived, TooLong, Careless, Unlabelled, NotSteves,
             Offensive, Prepared, OwnLabel}
SomePods == {PlainPod, ShortLived, Unlabelled}

AllNamespaces == {{"webhook"}, {"admission-webhook"}, {"webhook", "admission-webhook"}}
OneEach       == {{"webhook"}, {"admission-webhook"}}
============================================================================
