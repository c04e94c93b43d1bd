---------------------------- MODULE InfoService ----------------------------
(***************************************************************************)
(* What GET /info promises, without goroutines, words of memory or an      *)
(* Event they share: a request reads conf.toml once, as it is then, and is *)
(* answered once, with what it read itself or what a request read that was *)
(* under way at the same time.  Module EventService implements this        *)
(* specification.                                                          *)
(***************************************************************************)
EXTENDS Integers

CONSTANT Requests

VARIABLES
    conf,    \* version of conf.toml
    phase,   \* [Requests -> "new", "open", "read", "answered" or "failed"]
    read,    \* [Requests -> version it read, 0 if it has read none]
    beside,  \* [Requests -> requests that were under way at the same time]
    answer   \* [Requests -> the port and log level it shows]

serviceVars == <<conf, phase, read, beside, answer>>

NoAnswer == [port |-> 0, level |-> 0]

Init ==
    /\ conf = 1
    /\ phase = [r \in Requests |-> "new"]
    /\ read = [r \in Requests |-> 0]
    /\ beside = [r \in Requests |-> {}]
    /\ answer = [r \in Requests |-> NoAnswer]

UnderWay == {r \in Requests : phase[r] \in {"open", "read"}}
Moves(r, from, to) == phase[r] = from /\ phase' = [phase EXCEPT ![r] = to]

Edit ==
    /\ conf' = conf + 1
    /\ UNCHANGED <<phase, read, beside, answer>>

(* A request comes in; it and those under way meet. *)
Open(r) ==
    /\ Moves(r, "new", "open")
    /\ beside' = [q \in Requests |->
           CASE q = r          -> UnderWay
             [] q \in UnderWay -> beside[q] \cup {r}
             [] OTHER          -> beside[q]]
    /\ UNCHANGED <<conf, read, answer>>

Read(r) ==
    /\ Moves(r, "open", "read")
    /\ read' = [read EXCEPT ![r] = conf]
    /\ UNCHANGED <<conf, beside, answer>>

(* conf.toml does not parse: there is no answer. *)
Fail(r) ==
    /\ Moves(r, "open", "failed")
    /\ UNCHANGED <<conf, read, beside, answer>>

Answer(r) ==
    /\ Moves(r, "read", "answered")
    /\ \E q \in beside[r] \cup {r} :
         /\ read[q] # 0
         /\ answer' = [answer EXCEPT ![r] = [port |-> read[q], level |-> read[q]]]
    /\ UNCHANGED <<conf, read, beside>>

Next == Edit \/ \E r \in Requests : Open(r) \/ Read(r) \/ Fail(r) \/ Answer(r)

Spec == Init /\ [][Next]_serviceVars
============================================================================
