---------------------------- MODULE EventService ----------------------------
(***************************************************************************)
(* GET /info of golang-app-v1 and golang-app-v2 (their pkg/api is the      *)
(* same).  The program has ONE Event; net/http runs a goroutine for each   *)
(* request, and each of them reads conf.toml into an Environment of its    *)
(* own, fills the Event with it, and renders the Event as JSON.  There is  *)
(* no lock: a store or a load of a machine word is a step.  A word that is *)
(* raced for holds a value somebody stored (the Go memory model), and      *)
(* stores are seen in program order (amd64, which the builds are for).     *)
(***************************************************************************)
EXTENDS Integers

CONSTANTS
    Requests,  \* requests; each is served by a goroutine of its own
    Nil,       \* the nil pointer
    MaxEdits   \* bound: changes of conf.toml in a behaviour

ASSUME NilAssumption == Nil \notin Requests
ASSUME EditsAssumption == MaxEdits \in Nat

(* Service_name, Version and Git_commit_sha are strings: a data word and a *)
(* length each, in this order.  Every request stores the same constants in *)
(* them.  The pointer Environment comes last.                              *)
StringWords == 1..6
EnvironmentWord == 7

VARIABLES
    conf, readable,    \* version of conf.toml, and whether it parses
    event,             \* [StringWords -> TRUE once the constant is there]
    environment,       \* the Event's pointer: who allocated its Environment
    heap,              \* [Requests -> the Environment it allocated]
    pc, word,          \* [Requests -> where it is; the word that is next]
    read,              \* [Requests -> version of conf.toml it read]
    whole, from, shown,\* [Requests -> its answer so far]
    beside             \* [Requests -> history: who was served at the same time]

fileVars   == <<conf, readable>>
memoryVars == <<event, environment, heap>>
answerVars == <<whole, from, shown>>
vars == <<fileVars, memoryVars, answerVars, pc, word, read, beside>>

Blank == [port |-> 0, level |-> 0]

UnderWay == {r \in Requests : pc[r] \notin {"new", "done", "failed"}}

Init ==
    /\ conf = 1 /\ readable = TRUE
    /\ event = [w \in StringWords |-> FALSE]
    /\ environment = Nil
    /\ heap = [r \in Requests |-> Blank]
    /\ pc = [r \in Requests |-> "new"]
    /\ word = [r \in Requests |-> 1]
    /\ read = [r \in Requests |-> 0]
    /\ whole = [r \in Requests |-> TRUE]
    /\ from = [r \in Requests |-> Nil]
    /\ shown = [r \in Requests |-> Blank]
    /\ beside = [r \in Requests |-> {}]

Goto(r, place) == pc' = [pc EXCEPT ![r] = place]
----------------------------------------------------------------------------
(* Somebody replaces conf.toml, perhaps by a file that does not parse.     *)
EditConf ==
    /\ conf <= MaxEdits
    /\ conf' = conf + 1
    /\ readable' \in BOOLEAN
    /\ UNCHANGED <<memoryVars, answerVars, pc, word, read, beside>>

Accept(r) ==
    /\ pc[r] = "new"
    /\ Goto(r, "readInConfig")
    /\ beside' = [q \in Requests |->
           IF q = r THEN UnderWay ELSE IF q \in UnderWay THEN beside[q] \cup {r} ELSE beside[q]]
    /\ UNCHANGED <<fileVars, memoryVars, answerVars, word, read>>
----------------------------------------------------------------------------
(* ReadEnvironment.  A file that does not parse is a panic, which ends the *)
(* request without an answer: the server goes on.                          *)

ReadAtStart(r) ==
    /\ pc[r] = "readInConfig"
    /\ Goto(r, "port") /\ read' = [read EXCEPT ![r] = 1]
    /\ UNCHANGED <<fileVars, memoryVars, answerVars, word, beside>>

ReadInConfig(r) ==
    /\ pc[r] = "readInConfig"
    /\ IF readable
       THEN Goto(r, "port") /\ read' = [read EXCEPT ![r] = conf]
       ELSE Goto(r, "failed") /\ UNCHANGED read
    /\ UNCHANGED <<fileVars, memoryVars, answerVars, word, beside>>

(* The Environment a request fills is a new one. *)
TheOneInUse(r) == IF environment = Nil THEN r ELSE environment
NewEnvironment(r) == r

FillPort(r) ==
    /\ pc[r] = "port"
    /\ Goto(r, "level")
    /\ heap' = [heap EXCEPT ![NewEnvironment(r)].port = read[r]]
    /\ UNCHANGED <<fileVars, event, environment, answerVars, word, read, beside>>

FillLevel(r) ==
    /\ pc[r] = "level"
    /\ Goto(r, "createEvent")
    /\ heap' = [heap EXCEPT ![NewEnvironment(r)].level = read[r]]
    /\ UNCHANGED <<fileVars, event, environment, answerVars, word, read, beside>>
----------------------------------------------------------------------------
(* CreateEvent.                                                            *)

StoreOneTooMany(r) ==
    /\ pc[r] = "createEvent"
    /\ word[r] <= EnvironmentWord
    /\ event' = [event EXCEPT ![word[r]] = TRUE]
    /\ word' = [word EXCEPT ![r] = @ + 1]
    /\ UNCHANGED <<fileVars, environment, heap, answerVars, pc, read, beside>>

ResetThenStore(r) ==
    /\ pc[r] = "createEvent"
    /\ word[r] \in StringWords
    /\ event' = [w \in StringWords |-> w = word[r] \/ (word[r] # 1 /\ event[w])]
    /\ word' = [word EXCEPT ![r] = @ + 1]
    /\ UNCHANGED <<fileVars, environment, heap, answerVars, pc, read, beside>>

StoreWord(r) ==
    /\ pc[r] = "createEvent"
    /\ word[r] \in StringWords
    /\ event' = [event EXCEPT ![word[r]] = TRUE]
    /\ word' = [word EXCEPT ![r] = @ + 1]
    /\ UNCHANGED <<fileVars, environment, heap, answerVars, pc, read, beside>>

StoreEnvironment(r) ==
    /\ pc[r] = "createEvent"
    /\ word[r] = EnvironmentWord
    /\ environment' = NewEnvironment(r)
    /\ word' = [word EXCEPT ![r] = 1]
    /\ Goto(r, "render")
    /\ UNCHANGED <<fileVars, event, heap, answerVars, read, beside>>
----------------------------------------------------------------------------
(* render.JSON encodes the Event field by field.                           *)

LoadWord(r) ==
    /\ pc[r] = "render"
    /\ word[r] \in StringWords
    /\ whole' = [whole EXCEPT ![r] = @ /\ event[word[r]]]
    /\ word' = [word EXCEPT ![r] = @ + 1]
    /\ UNCHANGED <<fileVars, memoryVars, from, shown, pc, read, beside>>

LoadEnvironment(r) ==
    /\ pc[r] = "render"
    /\ word[r] = EnvironmentWord
    /\ from' = [from EXCEPT ![r] = environment]
    /\ Goto(r, IF environment = Nil THEN "done" ELSE "loadPort")
    /\ UNCHANGED <<fileVars, memoryVars, whole, shown, word, read, beside>>

LoadPort(r) ==
    /\ pc[r] = "loadPort"
    /\ shown' = [shown EXCEPT ![r].port = heap[from[r]].port]
    /\ Goto(r, "loadLevel")
    /\ UNCHANGED <<fileVars, memoryVars, whole, from, word, read, beside>>

LoadLevel(r) ==
    /\ pc[r] = "loadLevel"
    /\ shown' = [shown EXCEPT ![r].level = heap[from[r]].level]
    /\ Goto(r, "done")
    /\ UNCHANGED <<fileVars, memoryVars, whole, from, word, read, beside>>

GetEvent(r) ==
    \/ ReadInConfig(r) \/ FillPort(r) \/ FillLevel(r)
    \/ StoreWord(r) \/ StoreEnvironment(r)

RenderJSON(r) == LoadWord(r) \/ LoadEnvironment(r) \/ LoadPort(r) \/ LoadLevel(r)
----------------------------------------------------------------------------
Next == EditConf \/ \E r \in Requests : Accept(r) \/ GetEvent(r) \/ RenderJSON(r)

Spec == Init /\ [][Next]_vars
----------------------------------------------------------------------------
Places == {"new", "readInConfig", "port", "level", "createEvent", "render", "loadPort",
           "loadLevel", "done", "failed"}

(* Nobody follows the nil pointer, either. *)
TypeOK ==
    /\ conf \in Nat /\ readable \in BOOLEAN
    /\ event \in [StringWords -> BOOLEAN]
    /\ environment \in Requests \cup {Nil}
    /\ heap \in [Requests -> [port : Nat, level : Nat]]
    /\ pc \in [Requests -> Places]
    /\ word \in [Requests -> 1..EnvironmentWord]
    /\ read \in [Requests -> Nat]
    /\ whole \in [Requests -> BOOLEAN]
    /\ from \in [Requests -> Requests \cup {Nil}]
    /\ shown \in [Requests -> [port : Nat, level : Nat]]
    /\ beside \in [Requests -> SUBSET Requests]
    /\ \A r \in Requests : pc[r] \in {"loadPort", "loadLevel"} => from[r] # Nil

(* Although nothing is locked, no answer shows the Event half filled: the  *)
(* strings are the constants, both words of each, and there is an          *)
(* Environment, also for the requests that come first.                     *)
AnswersAreWhole ==
    \A r \in Requests : pc[r] = "done" => whole[r] /\ from[r] # Nil

(* The port and the log level of an answer come from one and the same      *)
(* reading of conf.toml, by the request itself or by one that was served   *)
(* at the same time: the Event other requests left behind never shows.     *)
AnswersAreCurrent ==
    \A r \in Requests : pc[r] = "done" =>
        \E q \in beside[r] \cup {r} :
            shown[r] = [port |-> read[q], level |-> read[q]] /\ read[q] # 0

(* The handlers, which share an Event and lock nothing, do what the module *)
(* InfoService promises: each request reads conf.toml as it is when it     *)
(* does, and is answered once and for all.                                 *)
Service == INSTANCE InfoService WITH
    phase  <- [r \in Requests |->
                 CASE pc[r] = "new"          -> "new"
                   [] pc[r] = "readInConfig" -> "open"
                   [] pc[r] = "failed"       -> "failed"
                   [] pc[r] = "done"         -> "answered"
                   [] OTHER                  -> "read"],
    answer <- [r \in Requests |-> IF pc[r] = "done" THEN shown[r] ELSE Blank]

ServesAsPromised == Service!Spec
============================================================================
