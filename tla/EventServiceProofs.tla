------------------------- MODULE EventServiceProofs -------------------------
(* Proofs about EventService, for any number of requests and of edits.     *)
EXTENDS EventService, TLAPS

----------------------------------------------------------------------------
(* Type correctness.                                                       *)

LEMMA TypeInit == Init => TypeOK
BY NilAssumption DEF Init, TypeOK, Blank, StringWords, EnvironmentWord, Places

LEMMA TypeStep == TypeOK /\ [Next]_vars => TypeOK'
<1> SUFFICES ASSUME TypeOK, [Next]_vars PROVE TypeOK'
  OBVIOUS
<1> USE DEF TypeOK, Places, StringWords, EnvironmentWord
<1>1. CASE EditConf
  BY <1>1 DEF EditConf, memoryVars, answerVars
<1>2. ASSUME NEW r \in Requests, Accept(r) PROVE TypeOK'
  <2>1. UnderWay \subseteq Requests
    BY DEF UnderWay
  <2>2. beside' \in [Requests -> SUBSET Requests]
    BY <1>2, <2>1 DEF Accept
  <2>. QED BY <1>2, <2>2 DEF Accept, Goto, fileVars, memoryVars, answerVars
<1>3. ASSUME NEW r \in Requests, ReadInConfig(r) PROVE TypeOK'
  <2>1. /\ UNCHANGED <<conf, readable, event, environment, heap, whole, from, shown, word, beside>>
        /\ \E place \in {"port", "failed"} : pc' = [pc EXCEPT ![r] = place]
        /\ read' = [read EXCEPT ![r] = conf] \/ read' = read
    BY <1>3 DEF ReadInConfig, Goto, fileVars, memoryVars, answerVars
  <2>2. pc' \in [Requests -> Places]
    BY <2>1
  <2>4. read' \in [Requests -> Nat]
    BY <2>1
  <2>3. \A q \in Requests : pc'[q] \in {"loadPort", "loadLevel"} => pc[q] = pc'[q]
    BY <2>1
  <2>. QED BY <2>1, <2>2, <2>3, <2>4
<1>4. ASSUME NEW r \in Requests, FillPort(r) PROVE TypeOK'
  BY <1>4 DEF FillPort, NewEnvironment, Goto, fileVars, answerVars
<1>5. ASSUME NEW r \in Requests, FillLevel(r) PROVE TypeOK'
  BY <1>5 DEF FillLevel, NewEnvironment, Goto, fileVars, answerVars
<1>6. ASSUME NEW r \in Requests, StoreWord(r) PROVE TypeOK'
  BY <1>6 DEF StoreWord, fileVars, answerVars
<1>7. ASSUME NEW r \in Requests, StoreEnvironment(r) PROVE TypeOK'
  BY <1>7 DEF StoreEnvironment, NewEnvironment, Goto, fileVars, answerVars
<1>8. ASSUME NEW r \in Requests, LoadWord(r) PROVE TypeOK'
  BY <1>8 DEF LoadWord, fileVars, memoryVars
<1>9. ASSUME NEW r \in Requests, LoadEnvironment(r) PROVE TypeOK'
  BY <1>9 DEF LoadEnvironment, Goto, fileVars, memoryVars
<1>10. ASSUME NEW r \in Requests, LoadPort(r) PROVE TypeOK'
  BY <1>10 DEF LoadPort, Goto, fileVars, memoryVars
<1>11. ASSUME NEW r \in Requests, LoadLevel(r) PROVE TypeOK'
  BY <1>11 DEF LoadLevel, Goto, fileVars, memoryVars
<1>12. CASE UNCHANGED vars
  BY <1>12 DEF vars, fileVars, memoryVars, answerVars
<1>. QED
  BY <1>1, <1>2, <1>3, <1>4, <1>5, <1>6, <1>7, <1>8, <1>9, <1>10, <1>11, <1>12
  DEF Next, GetEvent, RenderJSON

(* No request makes the program's memory ill-formed or follows a nil       *)
(* pointer, however many are served at a time: TypeOK is inductive.        *)
THEOREM TypeCorrect == Spec => []TypeOK
<1>1. Init => TypeOK  BY TypeInit
<1>2. TypeOK /\ [Next]_vars => TypeOK'  BY TypeStep
<1>. QED BY <1>1, <1>2, PTL DEF Spec
----------------------------------------------------------------------------
(* The inductive invariant.  Filled(q): the Environment of request q holds *)
(* one reading of conf.toml.                                               *)

Stored == {"render", "loadPort", "loadLevel", "done"}
Loaded == {"loadPort", "loadLevel", "done"}
Filled(q) == heap[q] = [port |-> read[q], level |-> read[q]] /\ read[q] # 0

(* A request that is under way knows all others that are. *)
MeetInv == \A q, r \in UnderWay : q # r => q \in beside[r]

(* What a request has allocated, and stored in the Event, is whole. *)
HeapInv ==
    /\ conf # 0
    /\ \A q \in Requests :
         /\ pc[q] \in {"port", "level"} => read[q] # 0
         /\ pc[q] = "level" => heap[q].port = read[q]
         /\ pc[q] \in {"createEvent"} \cup Stored => Filled(q)

EventInv ==
    /\ environment # Nil => pc[environment] \in Stored
    /\ \A r \in Requests :
         /\ \A w \in StringWords : w < word[r] => event[w]
         /\ pc[r] \in Stored => \A w \in StringWords : event[w]
         /\ pc[r] = "render" => environment \in beside[r] \cup {r}

AnswerInv ==
    \A r \in Requests :
        /\ whole[r]
        /\ pc[r] \in Loaded => from[r] \in beside[r] \cup {r} /\ pc[from[r]] \in Stored
        /\ pc[r] \in {"loadLevel", "done"} => shown[r].port = heap[from[r]].port
        /\ pc[r] = "done" => shown[r].level = heap[from[r]].level

IInv == TypeOK /\ MeetInv /\ HeapInv /\ EventInv /\ AnswerInv

LEMMA InvInit == Init => IInv
BY TypeInit, NilAssumption
DEF Init, IInv, MeetInv, HeapInv, EventInv, AnswerInv, Filled, Stored, Loaded, UnderWay, StringWords

(* What the steps have in common: only its own request moves, and an       *)
(* Environment is filled by its own request, before it is stored.          *)
LEMMA StepFrame ==
    ASSUME TypeOK, NEW r \in Requests, Accept(r) \/ GetEvent(r) \/ RenderJSON(r)
    PROVE  /\ \A q \in Requests \ {r} : pc'[q] = pc[q] /\ read'[q] = read[q] /\ heap'[q] = heap[q]
           /\ \A q \in Requests : pc[q] # "new" => beside[q] \subseteq beside'[q]
           /\ UNCHANGED conf
<1> USE DEF TypeOK
<1>1. CASE Accept(r)
  <2>1. pc[r] = "new" /\ UNCHANGED <<conf, read, heap>>
    BY <1>1 DEF Accept, fileVars, memoryVars
  <2>2. \A q \in Requests \ {r} : pc'[q] = pc[q]
    BY <1>1 DEF Accept, Goto
  <2>3. \A q \in Requests \ {r} : beside[q] \subseteq beside'[q]
    BY <1>1 DEF Accept
  <2>. QED BY <2>1, <2>2, <2>3
<1>2. CASE GetEvent(r)
  BY <1>2 DEF GetEvent, ReadInConfig, FillPort, FillLevel, StoreWord, StoreEnvironment,
     NewEnvironment, Goto, fileVars, memoryVars, answerVars
<1>3. CASE RenderJSON(r)
  BY <1>3 DEF RenderJSON, LoadWord, LoadEnvironment, LoadPort, LoadLevel, Goto,
     fileVars, memoryVars, answerVars
<1>. QED BY <1>1, <1>2, <1>3

(* The steps that leave a request where it is, or move it on.              *)
LEMMA MeetStep == TypeOK /\ MeetInv /\ [Next]_vars => MeetInv'
<1> SUFFICES ASSUME TypeOK, MeetInv, [Next]_vars PROVE MeetInv'
  OBVIOUS
<1> USE DEF TypeOK, MeetInv, UnderWay
<1>1. CASE EditConf \/ UNCHANGED vars
  BY <1>1 DEF EditConf, vars
<1>2. ASSUME NEW r \in Requests, Accept(r) PROVE MeetInv'
  BY <1>2 DEF Accept, Goto
<1>3. ASSUME NEW r \in Requests, GetEvent(r) PROVE MeetInv'
  <2>1. UnderWay' \subseteq UnderWay /\ UNCHANGED beside
    BY <1>3 DEF GetEvent, ReadInConfig, FillPort, FillLevel, StoreWord, StoreEnvironment, Goto
  <2>. QED BY <2>1
<1>4. ASSUME NEW r \in Requests, RenderJSON(r) PROVE MeetInv'
  <2>1. UnderWay' \subseteq UnderWay /\ UNCHANGED beside
    BY <1>4 DEF RenderJSON, LoadWord, LoadEnvironment, LoadPort, LoadLevel, Goto
  <2>. QED BY <2>1
<1>. QED BY <1>1, <1>2, <1>3, <1>4 DEF Next

LEMMA HeapStep == TypeOK /\ HeapInv /\ [Next]_vars => HeapInv'
<1> SUFFICES ASSUME TypeOK, HeapInv, [Next]_vars PROVE HeapInv'
  OBVIOUS
<1> USE DEF TypeOK, HeapInv, Filled, Stored
<1>1. CASE EditConf \/ UNCHANGED vars
  BY <1>1 DEF EditConf, vars, memoryVars, answerVars, fileVars
<1>2. ASSUME NEW r \in Requests, Accept(r) PROVE HeapInv'
  BY <1>2 DEF Accept, Goto, memoryVars, answerVars, fileVars
<1>3. ASSUME NEW r \in Requests, GetEvent(r) PROVE HeapInv'
  <2>1. CASE ReadInConfig(r)
    <3>1. /\ UNCHANGED <<conf, heap>> /\ pc[r] = "readInConfig"
          /\ \/ pc' = [pc EXCEPT ![r] = "port"] /\ read' = [read EXCEPT ![r] = conf]
             \/ pc' = [pc EXCEPT ![r] = "failed"] /\ read' = read
      BY <2>1 DEF ReadInConfig, Goto, memoryVars, fileVars
    <3>2. \A q \in Requests \ {r} : pc'[q] = pc[q] /\ read'[q] = read[q]
      BY <3>1
    <3>3. pc'[r] \in {"port", "failed"} /\ (pc'[r] = "port" => read'[r] = conf)
      BY <3>1
    <3>. QED BY <3>1, <3>2, <3>3
  <2>2. CASE FillPort(r)
    BY <2>2 DEF FillPort, NewEnvironment, Goto, answerVars, fileVars
  <2>3. CASE FillLevel(r)
    BY <2>3 DEF FillLevel, NewEnvironment, Goto, answerVars, fileVars
  <2>4. CASE StoreWord(r) \/ StoreEnvironment(r)
    BY <2>4 DEF StoreWord, StoreEnvironment, Goto, answerVars, fileVars
  <2>. QED BY <1>3, <2>1, <2>2, <2>3, <2>4 DEF GetEvent
<1>4. ASSUME NEW r \in Requests, RenderJSON(r) PROVE HeapInv'
  BY <1>4 DEF RenderJSON, LoadWord, LoadEnvironment, LoadPort, LoadLevel, Goto, memoryVars, fileVars
<1>. QED BY <1>1, <1>2, <1>3, <1>4 DEF Next

LEMMA EventStep == TypeOK /\ MeetInv /\ HeapInv /\ EventInv /\ [Next]_vars => EventInv'
<1> SUFFICES ASSUME TypeOK, MeetInv, HeapInv, EventInv, [Next]_vars PROVE EventInv'
  OBVIOUS
<1> USE DEF TypeOK, EventInv, Stored, StringWords, EnvironmentWord
<1>1. CASE EditConf \/ UNCHANGED vars
  BY <1>1 DEF EditConf, vars, memoryVars, answerVars, fileVars
<1>2. ASSUME NEW r \in Requests, Accept(r) PROVE EventInv'
  BY <1>2, StepFrame DEF Accept, Goto, memoryVars, answerVars, fileVars
<1>3. ASSUME NEW r \in Requests, GetEvent(r) PROVE EventInv'
  <2>1. CASE ReadInConfig(r)
    BY <2>1 DEF ReadInConfig, Goto, memoryVars, answerVars, fileVars
  <2>2. CASE FillPort(r) \/ FillLevel(r)
    <3>1. /\ \A q \in Requests \ {r} : pc'[q] = pc[q]
          /\ pc[r] \in {"port", "level"} /\ pc'[r] \in {"level", "createEvent"}
          /\ UNCHANGED <<event, environment, word, beside>>
      BY <2>2 DEF FillPort, FillLevel, Goto
    <3>. QED BY <3>1
  <2>3. CASE StoreWord(r)
    BY <2>3 DEF StoreWord, answerVars, fileVars
  <2>4. CASE StoreEnvironment(r)
    <3>1. \A w \in StringWords : event[w]
      BY <2>4 DEF StoreEnvironment
    <3>2. \A q \in Requests : pc[q] = "render" /\ q # r => r \in beside[q]
      BY <2>4 DEF StoreEnvironment, MeetInv, UnderWay
    <3>. QED BY <2>4, <3>1, <3>2, NilAssumption
         DEF StoreEnvironment, NewEnvironment, Goto, answerVars, fileVars
  <2>. QED BY <1>3, <2>1, <2>2, <2>3, <2>4 DEF GetEvent
<1>4. ASSUME NEW r \in Requests, RenderJSON(r) PROVE EventInv'
  BY <1>4 DEF RenderJSON, LoadWord, LoadEnvironment, LoadPort, LoadLevel, Goto, memoryVars, fileVars
<1>. QED BY <1>1, <1>2, <1>3, <1>4 DEF Next

LEMMA AnswerStep == IInv /\ [Next]_vars => AnswerInv'
<1> SUFFICES ASSUME IInv, [Next]_vars PROVE AnswerInv'
  OBVIOUS
<1> USE DEF IInv, TypeOK, AnswerInv, Stored, Loaded
<1>1. CASE EditConf \/ UNCHANGED vars
  BY <1>1 DEF EditConf, vars, memoryVars, answerVars, fileVars
<1>2. ASSUME NEW r \in Requests, Accept(r) PROVE AnswerInv'
  BY <1>2, StepFrame DEF Accept, Goto, memoryVars, answerVars, fileVars
<1>3. ASSUME NEW r \in Requests, GetEvent(r) PROVE AnswerInv'
  <2>1. UNCHANGED <<answerVars, beside>>
    BY <1>3 DEF GetEvent, ReadInConfig, FillPort, FillLevel, StoreWord, StoreEnvironment
  <2>2. pc[r] \notin Loaded /\ pc'[r] \notin Loaded /\ (pc[r] \in Stored => pc'[r] \in Stored)
    BY <1>3 DEF GetEvent, ReadInConfig, FillPort, FillLevel, StoreWord, StoreEnvironment, Goto
  <2>3. pc[r] \notin Stored
    BY <1>3 DEF GetEvent, ReadInConfig, FillPort, FillLevel, StoreWord, StoreEnvironment
  <2>. QED BY <1>3, <2>1, <2>2, <2>3, StepFrame DEF answerVars
<1>4. ASSUME NEW r \in Requests, RenderJSON(r) PROVE AnswerInv'
  <2>1. CASE LoadWord(r)
    BY <2>1 DEF LoadWord, Goto, memoryVars, fileVars, EventInv
  <2>2. CASE LoadEnvironment(r)
    <3>1. environment \in beside[r] \cup {r} /\ environment \in Requests
      BY <2>2 DEF LoadEnvironment, EventInv
    <3>2. pc[environment] \in Stored
      BY <3>1, NilAssumption DEF EventInv
    <3>3. from'[r] = environment /\ pc'[r] = "loadPort"
      BY <2>2, <3>1, NilAssumption DEF LoadEnvironment, Goto
    <3>4. /\ \A q \in Requests \ {r} : pc'[q] = pc[q] /\ from'[q] = from[q]
          /\ UNCHANGED <<whole, shown, heap, beside>>
      BY <2>2 DEF LoadEnvironment, Goto, memoryVars
    <3>5. \A q \in Requests : pc[q] \in Stored => pc'[q] \in Stored
      BY <3>3, <3>4
    <3>. QED BY <3>1, <3>2, <3>3, <3>4, <3>5
  <2>3. CASE LoadPort(r)
    BY <2>3 DEF LoadPort, Goto, memoryVars, fileVars
  <2>4. CASE LoadLevel(r)
    BY <2>4 DEF LoadLevel, Goto, memoryVars, fileVars
  <2>. QED BY <1>4, <2>1, <2>2, <2>3, <2>4 DEF RenderJSON
<1>. QED BY <1>1, <1>2, <1>3, <1>4 DEF Next

LEMMA Invariance == Spec => []IInv
<1>1. Init => IInv  BY InvInit
<1>2. IInv /\ [Next]_vars => IInv'
  BY TypeStep, MeetStep, HeapStep, EventStep, AnswerStep DEF IInv
<1>. QED BY <1>1, <1>2, PTL DEF Spec
----------------------------------------------------------------------------
(* No answer shows the Event half filled, whoever else is filling it.      *)
THEOREM NoHalfFilledAnswer == Spec => []AnswersAreWhole
<1>1. IInv => AnswersAreWhole
  BY NilAssumption DEF IInv, TypeOK, AnswerInv, AnswersAreWhole, Stored, Loaded
<1>. QED BY <1>1, Invariance, PTL

(* An answer shows one reading of conf.toml, its request's own or that of  *)
(* one served at the same time.                                            *)
THEOREM NoLeftOverAnswer == Spec => []AnswersAreCurrent
<1>1. IInv => AnswersAreCurrent
  BY NilAssumption
  DEF IInv, TypeOK, HeapInv, AnswerInv, AnswersAreCurrent, Stored, Loaded, Filled
<1>. QED BY <1>1, Invariance, PTL
----------------------------------------------------------------------------
(* The promise.  PhaseOf: what the module InfoService sees of a request.   *)

PhaseOf(at) ==
    CASE at = "new"          -> "new"
      [] at = "readInConfig" -> "open"
      [] at = "failed"       -> "failed"
      [] at = "done"         -> "answered"
      [] OTHER               -> "read"
Phase    == [r \in Requests |-> PhaseOf(pc[r])]
AnswerOf == [r \in Requests |-> IF pc[r] = "done" THEN shown[r] ELSE Blank]

LEMMA Refined ==
    /\ Service!Init <=> /\ conf = 1 /\ Phase = [r \in Requests |-> "new"]
                       /\ read = [r \in Requests |-> 0] /\ beside = [r \in Requests |-> {}]
                       /\ AnswerOf = [r \in Requests |-> Service!NoAnswer]
    /\ Service!UnderWay = {r \in Requests : Phase[r] \in {"open", "read"}}
    /\ \A r, place, to : Service!Moves(r, place, to) <=>
          Phase[r] = place /\ Phase' = [Phase EXCEPT ![r] = to]
  BY DEF Service!Init, Service!UnderWay, Service!Moves, Phase, PhaseOf, AnswerOf

(* A step that moves no request on, as far as the promise goes.            *)
LEMMA QuietStep ==
    ASSUME UNCHANGED <<conf, read, beside>>,
           \A q \in Requests : /\ PhaseOf(pc'[q]) = PhaseOf(pc[q])
                               /\ pc'[q] = "done" <=> pc[q] = "done"
                               /\ pc[q] = "done" => shown'[q] = shown[q]
    PROVE  UNCHANGED Service!serviceVars
<1>1. Phase' = Phase
  BY DEF Phase
<1>2. AnswerOf' = AnswerOf
  BY DEF AnswerOf
<1>. QED BY <1>1, <1>2 DEF Service!serviceVars, Phase, PhaseOf, AnswerOf

(* A request moves on.                                                     *)
LEMMA PhaseMoves ==
    ASSUME TypeOK, NEW r \in Requests, NEW place, Goto(r, place)
    PROVE  /\ Phase' = [Phase EXCEPT ![r] = PhaseOf(place)]
           /\ pc[r] # "done" /\ place # "done" /\ UNCHANGED shown => AnswerOf' = AnswerOf
<1>1. \A q \in Requests : pc'[q] = IF q = r THEN place ELSE pc[q]
  BY DEF TypeOK, Goto
<1>2. Phase' = [Phase EXCEPT ![r] = PhaseOf(place)]
  BY <1>1 DEF Phase
<1>3. pc[r] # "done" /\ place # "done" /\ UNCHANGED shown => AnswerOf' = AnswerOf
  BY <1>1 DEF AnswerOf
<1>. QED BY <1>2, <1>3

LEMMA PromiseInit == Init => Service!Init
<1>1. PhaseOf("new") = "new" /\ Blank = Service!NoAnswer
  BY DEF PhaseOf, Blank, Service!NoAnswer
<1>. QED BY <1>1, Refined DEF Init, Phase, AnswerOf

LEMMA PromiseStep == IInv /\ [Next]_vars => [Service!Next]_(Service!serviceVars)
<1> SUFFICES ASSUME IInv, [Next]_vars
             PROVE  Service!Next \/ UNCHANGED Service!serviceVars
  OBVIOUS
<1>1. TypeOK /\ UnderWay = {r \in Requests : Phase[r] \in {"open", "read"}}
  BY DEF IInv, TypeOK, Places, UnderWay, Phase, PhaseOf
<1>2. CASE EditConf
  <2>1. Phase' = Phase /\ AnswerOf' = AnswerOf
    BY <1>2 DEF EditConf, answerVars, Phase, AnswerOf
  <2>2. Service!Edit
    BY <1>2, <2>1 DEF EditConf, Service!Edit, Phase, PhaseOf, AnswerOf
  <2>. QED BY <2>2 DEF Service!Next
<1>3. ASSUME NEW r \in Requests, Accept(r) PROVE Service!Next
  <2>1. /\ Goto(r, "readInConfig") /\ Phase[r] = "new" /\ pc[r] # "done"
        /\ UNCHANGED <<conf, read, shown>>
    BY <1>3 DEF Accept, fileVars, answerVars, Phase, PhaseOf
  <2>2. Phase' = [Phase EXCEPT ![r] = "open"] /\ AnswerOf' = AnswerOf
    BY <1>1, <2>1, PhaseMoves DEF PhaseOf
  <2>3. beside' = [q \in Requests |->
          CASE q = r          -> Service!UnderWay
            [] q \in Service!UnderWay -> beside[q] \cup {r}
            [] OTHER          -> beside[q]]
    <3>1. r \notin UnderWay /\ Service!UnderWay = UnderWay
      BY <1>1, <2>1, Refined
    <3>. QED BY <1>3, <3>1 DEF Accept
  <2>4. Service!Moves(r, "new", "open")
    BY <2>1, <2>2, Refined
  <2>5. Service!Open(r)
    BY <2>1, <2>2, <2>3, <2>4 DEF Service!Open, AnswerOf
  <2>. QED BY <2>5 DEF Service!Next
<1>4. ASSUME NEW r \in Requests, ReadInConfig(r) PROVE Service!Next
  <2>1. /\ Phase[r] = "open" /\ pc[r] # "done" /\ UNCHANGED <<conf, beside, shown>>
        /\ \/ Goto(r, "port") /\ read' = [read EXCEPT ![r] = conf]
           \/ Goto(r, "failed") /\ read' = read
    BY <1>4 DEF ReadInConfig, fileVars, answerVars, Phase, PhaseOf
  <2>2. CASE Goto(r, "port") /\ read' = [read EXCEPT ![r] = conf]
    <3>1. Phase' = [Phase EXCEPT ![r] = "read"] /\ AnswerOf' = AnswerOf
      BY <1>1, <2>1, <2>2, PhaseMoves DEF PhaseOf
    <3>2. Service!Moves(r, "open", "read")
      BY <2>1, <3>1, Refined
    <3>. QED BY <2>1, <2>2, <3>1, <3>2 DEF Service!Read, Service!Next, AnswerOf
  <2>3. CASE Goto(r, "failed") /\ read' = read
    <3>1. Phase' = [Phase EXCEPT ![r] = "failed"] /\ AnswerOf' = AnswerOf
      BY <1>1, <2>1, <2>3, PhaseMoves DEF PhaseOf
    <3>2. Service!Moves(r, "open", "failed")
      BY <2>1, <3>1, Refined
    <3>. QED BY <2>1, <2>3, <3>1, <3>2 DEF Service!Fail, Service!Next, AnswerOf
  <2>. QED BY <2>1, <2>2, <2>3
<1>5. ASSUME NEW r \in Requests, LoadLevel(r) PROVE Service!Next
  <2>1. /\ Goto(r, "done") /\ pc[r] = "loadLevel" /\ from[r] # Nil /\ from[r] \in Requests
        /\ shown' = [shown EXCEPT ![r].level = heap[from[r]].level]
        /\ UNCHANGED <<conf, read, beside>>
    BY <1>1, <1>5 DEF LoadLevel, fileVars, TypeOK
  <2>2. Phase' = [Phase EXCEPT ![r] = "answered"] /\ Phase[r] = "read"
    BY <1>1, <2>1, PhaseMoves DEF Phase, PhaseOf
  <2>3. /\ from[r] \in beside[r] \cup {r}
        /\ Filled(from[r]) /\ shown[r].port = heap[from[r]].port
    BY <2>1 DEF IInv, HeapInv, AnswerInv, Loaded, Stored
  <2>4. shown'[r] = [port |-> read[from[r]], level |-> read[from[r]]]
    BY <1>1, <2>1, <2>3 DEF Filled, TypeOK
  <2>5. AnswerOf' = [AnswerOf EXCEPT ![r] = [port |-> read[from[r]], level |-> read[from[r]]]]
    <3>1. \A q \in Requests : /\ pc'[q] = IF q = r THEN "done" ELSE pc[q]
                              /\ q # r => shown'[q] = shown[q]
      BY <1>1, <2>1 DEF Goto, TypeOK
    <3>. QED BY <2>4, <3>1 DEF AnswerOf
  <2>6. Service!Moves(r, "read", "answered")
    BY <2>2, Refined
  <2>7. Service!Answer(r)
    BY <2>1, <2>3, <2>5, <2>6 DEF Service!Answer, AnswerOf, Filled
  <2>. QED BY <2>7 DEF Service!Next
<1>6. ASSUME NEW r \in Requests,
             \/ FillPort(r) \/ FillLevel(r) \/ StoreWord(r) \/ StoreEnvironment(r)
             \/ LoadWord(r) \/ LoadEnvironment(r) \/ LoadPort(r)
      PROVE  UNCHANGED Service!serviceVars
  <2>1. UNCHANGED <<conf, read, beside>>
    BY <1>6 DEF FillPort, FillLevel, StoreWord, StoreEnvironment, LoadWord, LoadEnvironment,
       LoadPort, fileVars
  <2>2. \A q \in Requests \ {r} : pc'[q] = pc[q] /\ shown'[q] = shown[q]
    BY <1>1, <1>6 DEF FillPort, FillLevel, StoreWord, StoreEnvironment, LoadWord,
       LoadEnvironment, LoadPort, Goto, answerVars, TypeOK
  <2>3. LoadEnvironment(r) => environment # Nil
    BY NilAssumption DEF IInv, TypeOK, EventInv, LoadEnvironment
  <2>4. PhaseOf(pc'[r]) = "read" /\ PhaseOf(pc[r]) = "read" /\ "done" \notin {pc[r], pc'[r]}
    BY <1>1, <1>6, <2>3 DEF FillPort, FillLevel, StoreWord, StoreEnvironment, LoadWord,
       LoadEnvironment, LoadPort, Goto, PhaseOf, TypeOK
  <2>. QED BY <2>1, <2>2, <2>4, QuietStep
<1>7. CASE UNCHANGED vars
  BY <1>7, QuietStep DEF vars, fileVars, answerVars
<1>. QED BY <1>2, <1>3, <1>4, <1>5, <1>6, <1>7 DEF Next, GetEvent, RenderJSON

(* However many requests share the Event at a time, GET /info does what    *)
(* module InfoService promises.                                            *)
THEOREM EventServiceKeepsPromise == Spec => ServesAsPromised
<1>1. Spec => Service!Init /\ [][Service!Next]_(Service!serviceVars)
  BY PromiseInit, PromiseStep, Invariance, PTL DEF Spec
<1>. QED BY <1>1 DEF ServesAsPromised, Service!Spec
============================================================================
