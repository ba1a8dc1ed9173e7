---------------------------- MODULE ScenarioProofs ----------------------------
(***************************************************************************)
(* Theorems about the scenarios, for any scenarios, devices and number of  *)
(* calls in flight, about their rules, for any list of rules, and about    *)
(* the spreading of faults, for any devices and points.                    *)
(***************************************************************************)
EXTENDS MCScenarios, WellFoundedInduction, SequenceTheorems, TLAPS

Stages == {"creating", "launching", "undoing", "deleting"}

\* A call that is about to move, from a suspension or from the client.
AnyCall == [pc : Stages \cup {"idle"}, s : Scenarios, config : Configs,
            todo : SUBSET Devices, created : SUBSET Devices, failed : SUBSET Devices]

OthersStay(c) == \A d \in Calls \ {c} : calls'[d] = calls[d]

-----------------------------------------------------------------------------
(* Types *)

\* A call in some stage is about a scenario.
LEMMA InStage ==
  ASSUME TypeOK, NEW c \in Calls, calls[c].pc \in Stages
  PROVE  calls[c] # Idle /\ calls[c] \in CallTypes /\ calls[c] \in AnyCall
BY DEF TypeOK, Idle, Stages, CallTypes, AnyCall

\* A call about a scenario that exists is one that is about to move.
LEMMA NewCall ==
  ASSUME TypeOK, NEW s \in Scenarios, configs[s] # None
  PROVE  Call(s) \in AnyCall /\ Call(s).s = s /\ Call(s).pc = "idle"
<1>1. configs[s] \in Configs
  BY DEF TypeOK
<1>2. Members[configs[s]] \in SUBSET Devices
  BY <1>1, ScenarioAssumption
<1> QED
  BY <1>1, <1>2 DEF Call, AnyCall

\* A call that goes on.
LEMMA WaitsFacts ==
  ASSUME TypeOK, NEW c \in Calls, NEW call \in CallTypes, Waits(c, call)
  PROVE  /\ calls' \in [Calls -> CallTypes \cup {Idle}]
         /\ OthersStay(c) /\ calls'[c] = call
BY DEF Waits, TypeOK, OthersStay

\* A call that returns.
LEMMA ReturnsFacts ==
  ASSUME TypeOK, NEW c \in Calls, Returns(c)
  PROVE  /\ calls' \in [Calls -> CallTypes \cup {Idle}]
         /\ OthersStay(c) /\ calls'[c] = Idle
BY DEF Returns, TypeOK, OthersStay

\* What the attempt to create or remove a device makes of a call.
LEMMA OutcomeOfCall ==
  ASSUME NEW call \in CallTypes, NEW d \in Devices
  PROVE  /\ [call EXCEPT !.created = @ \cup {d}] \in CallTypes
         /\ [call EXCEPT !.created = @ \cup {d}].s = call.s
         /\ [call EXCEPT !.created = @ \cup {d}].pc = call.pc
         /\ [call EXCEPT !.created = @ \cup {d}].created = call.created \cup {d}
         /\ [call EXCEPT !.failed = @ \cup {d}] \in CallTypes
         /\ [call EXCEPT !.failed = @ \cup {d}].s = call.s
         /\ [call EXCEPT !.failed = @ \cup {d}].pc = call.pc
         /\ [call EXCEPT !.failed = @ \cup {d}].created = call.created
         /\ [call EXCEPT !.created = @ \ {d}] \in CallTypes
         /\ [call EXCEPT !.created = @ \ {d}].s = call.s
         /\ [call EXCEPT !.created = @ \ {d}].pc = call.pc
         /\ [call EXCEPT !.created = @ \ {d}].created = call.created \ {d}
BY DEF CallTypes

-----------------------------------------------------------------------------
(* What the calls do between two suspensions *)

\* The scenario is running, and its devices are its own.
Launches(c, s) ==
  /\ OthersStay(c) /\ calls'[c] = Idle
  /\ instances' = instances \cup {s} /\ status' = [status EXCEPT ![s] = "running"]
  /\ held' = held
  /\ \A d \in Devices : maker'[d] = IF maker[d] = s THEN None ELSE maker[d]

\* The start has failed, and what it created is left to undo.
Fails(c, call) ==
  /\ OthersStay(c) /\ status' = [status EXCEPT ![call.s] = "error"]
  /\ UNCHANGED <<instances, held, maker>>
  /\ \/ call.created = {} /\ calls'[c] = Idle
     \/ /\ calls'[c] \in CallTypes /\ calls'[c].s = call.s
        /\ calls'[c].pc = "undoing" /\ calls'[c].created = call.created

\* The start goes on, perhaps with a device more.
GoesOn(c, call) ==
  /\ OthersStay(c) /\ calls'[c] \in CallTypes /\ calls'[c].s = call.s
  /\ calls'[c].pc \in {"creating", "launching"}
  /\ call.created \subseteq calls'[c].created
  /\ status' = [status EXCEPT ![call.s] =
                  IF call.pc = "idle" THEN "starting" ELSE status[call.s]]
  /\ instances' = instances
  /\ \A d \in Devices :
       \/ (d \in held' <=> d \in held) /\ maker'[d] = maker[d]
       \/ d \in calls'[c].created /\ maker'[d] = call.s

MakesTypes ==
  /\ calls' \in [Calls -> CallTypes \cup {Idle}] /\ held' \subseteq Devices
  /\ maker' \in [Devices -> Scenarios \cup {None}]

\* Fail and Launch in these terms.
LEMMA FinishFacts ==
  ASSUME TypeOK, NEW c \in Calls, NEW call \in AnyCall, Finish(c, call)
  PROVE  MakesTypes /\ (Launches(c, call.s) \/ Fails(c, call))
<1>1. CASE Launch(c, call.s) /\ held' = held
  <2>1. /\ Returns(c) /\ instances' = instances \cup {call.s}
        /\ status' = [status EXCEPT ![call.s] = "running"]
        /\ maker' = [d \in Devices |-> IF maker[d] = call.s THEN None ELSE maker[d]]
    BY <1>1 DEF Launch, Shows
  <2>2. maker' \in [Devices -> Scenarios \cup {None}] /\ held' \subseteq Devices
    BY <1>1, <2>1 DEF TypeOK
  <2> QED
    BY <1>1, <2>1, <2>2, ReturnsFacts DEF Launches, MakesTypes
<1>2. CASE Fail(c, call) /\ UNCHANGED <<instances, held, maker>>
  <2>1. status' = [status EXCEPT ![call.s] = "error"]
    BY <1>2 DEF Fail, Shows
  <2>2. CASE call.created = {} /\ Returns(c)
    BY <1>2, <2>1, <2>2, ReturnsFacts DEF Fails, MakesTypes, TypeOK
  <2>3. CASE Waits(c, [call EXCEPT !.pc = "undoing"])
    <3> DEFINE next == [call EXCEPT !.pc = "undoing"]
    <3>1. /\ next \in CallTypes /\ next.s = call.s /\ next.pc = "undoing"
          /\ next.created = call.created
      BY DEF AnyCall, CallTypes, Stages
    <3>2. Waits(c, next)
      BY <2>3
    <3> HIDE DEF next
    <3> QED
      BY <1>2, <2>1, <3>1, <3>2, WaitsFacts DEF Fails, MakesTypes, TypeOK
  <2> QED
    BY <1>2, <2>2, <2>3 DEF Fail
<1> QED
  BY <1>1, <1>2 DEF Finish

\* Go in these terms.
LEMMA GoFacts ==
  ASSUME TypeOK, NEW c \in Calls, NEW call \in AnyCall, Go(c, call)
  PROVE  /\ MakesTypes
         /\ Launches(c, call.s) \/ Fails(c, call) \/ GoesOn(c, call)
<1> DEFINE shown == [status EXCEPT ![call.s] =
                       IF call.pc = "idle" THEN "starting" ELSE status[call.s]]
<1>1. held \subseteq Devices /\ maker \in [Devices -> Scenarios \cup {None}]
      /\ call.s \in Scenarios /\ call.todo \subseteq Devices
      /\ call.created \subseteq Devices
  BY DEF TypeOK, AnyCall
<1>2. ASSUME NEW d \in call.todo \ held, NEW passed \in SUBSET (call.todo \cap held),
             NEW made \in BOOLEAN,
             held' = IF made THEN held \cup {d} ELSE held,
             maker' = IF made THEN [maker EXCEPT ![d] = call.s] ELSE maker,
             status' = shown, instances' = instances,
             LET next == [call EXCEPT !.pc = "creating", !.todo = @ \ (passed \cup {d})] IN
             Waits(c, IF made THEN [next EXCEPT !.created = @ \cup {d}]
                              ELSE [next EXCEPT !.failed = @ \cup {d}])
      PROVE  MakesTypes /\ GoesOn(c, call)
  <2> DEFINE next == [call EXCEPT !.pc = "creating", !.todo = @ \ (passed \cup {d})]
             then == IF made THEN [next EXCEPT !.created = @ \cup {d}]
                             ELSE [next EXCEPT !.failed = @ \cup {d}]
  <2>1. /\ next \in CallTypes /\ next.s = call.s /\ next.pc = "creating"
        /\ next.created = call.created
    BY DEF AnyCall, CallTypes, Stages
  <2>2. Waits(c, then)
    BY <1>2
  <2>3. /\ then \in CallTypes /\ then.s = call.s /\ then.pc = "creating"
        /\ then.created = IF made THEN call.created \cup {d} ELSE call.created
    <3> HIDE DEF next
    <3>1. d \in Devices
      BY <1>1
    <3>2. CASE made
      <4>1. then = [next EXCEPT !.created = @ \cup {d}]
        BY <3>2
      <4>2. /\ [next EXCEPT !.created = @ \cup {d}] \in CallTypes
            /\ [next EXCEPT !.created = @ \cup {d}].s = next.s
            /\ [next EXCEPT !.created = @ \cup {d}].pc = next.pc
            /\ [next EXCEPT !.created = @ \cup {d}].created = next.created \cup {d}
        BY <2>1, <3>1, OutcomeOfCall
      <4> QED
        BY <2>1, <3>2, <4>1, <4>2
    <3>3. CASE ~made
      <4>1. then = [next EXCEPT !.failed = @ \cup {d}]
        BY <3>3
      <4> QED
        BY <2>1, <3>1, <3>3, <4>1, OutcomeOfCall
    <3> QED
      BY <3>2, <3>3
  <2> HIDE DEF then, next
  <2>4. /\ calls' \in [Calls -> CallTypes \cup {Idle}]
        /\ OthersStay(c) /\ calls'[c] = then
    BY <2>2, <2>3, WaitsFacts
  <2>5. held' \subseteq Devices /\ maker' \in [Devices -> Scenarios \cup {None}]
    BY <1>1, <1>2
  <2>6. \A e \in Devices :
          \/ (e \in held' <=> e \in held) /\ maker'[e] = maker[e]
          \/ e \in calls'[c].created /\ maker'[e] = call.s
    BY <1>1, <1>2, <2>3, <2>4
  <2> QED
    BY <1>2, <2>3, <2>4, <2>5, <2>6 DEF MakesTypes, GoesOn
<1>3. CASE /\ status' = shown /\ UNCHANGED <<instances, held, maker>>
           /\ Waits(c, [call EXCEPT !.pc = "launching"])
  <2> DEFINE next == [call EXCEPT !.pc = "launching"]
  <2>1. /\ next \in CallTypes /\ next.s = call.s /\ next.pc = "launching"
        /\ next.created = call.created
    BY DEF AnyCall, CallTypes, Stages
  <2>2. Waits(c, next)
    BY <1>3
  <2> HIDE DEF next
  <2>3. /\ calls' \in [Calls -> CallTypes \cup {Idle}]
        /\ OthersStay(c) /\ calls'[c] = next
    BY <2>1, <2>2, WaitsFacts
  <2> QED
    BY <1>1, <1>3, <2>1, <2>3 DEF MakesTypes, GoesOn
<1>4. CASE Finish(c, call)
  BY <1>4, FinishFacts
<1>5. \/ \E d \in call.todo \ held, passed \in SUBSET (call.todo \cap held),
            made \in BOOLEAN :
           /\ held' = IF made THEN held \cup {d} ELSE held
           /\ maker' = IF made THEN [maker EXCEPT ![d] = call.s] ELSE maker
           /\ status' = shown /\ instances' = instances
           /\ LET next == [call EXCEPT !.pc = "creating", !.todo = @ \ (passed \cup {d})] IN
              Waits(c, IF made THEN [next EXCEPT !.created = @ \cup {d}]
                               ELSE [next EXCEPT !.failed = @ \cup {d}])
      \/ Finish(c, call)
      \/ /\ status' = shown /\ UNCHANGED <<instances, held, maker>>
         /\ Waits(c, [call EXCEPT !.pc = "launching"])
  BY DEF Go, Shows
<1> QED
  BY <1>2, <1>3, <1>4, <1>5

\* A deletion removes a device, or asks for the scenario and returns.
LEMMA DeleteFacts ==
  ASSUME TypeOK, NEW c \in Calls, NEW call \in AnyCall, DeleteMembers(c, call)
  PROVE  /\ MakesTypes /\ OthersStay(c)
         /\ \A d \in held' : d \in held /\ maker'[d] = maker[d]
         /\ calls'[c] = Idle \/ (/\ calls'[c] \in CallTypes /\ calls'[c].s = call.s
                                 /\ calls'[c].pc = "deleting")
         /\ \/ UNCHANGED <<configs, status>>
            \/ /\ status[call.s] \notin {"running", "starting"}
               /\ configs' = [configs EXCEPT ![call.s] = None]
               /\ status' = [status EXCEPT ![call.s] = "absent"]
<1>1. held \subseteq Devices /\ maker \in [Devices -> Scenarios \cup {None}]
  BY DEF TypeOK
<1>2. ASSUME NEW d \in call.todo \cap held, NEW passed \in SUBSET (call.todo \ held),
             held' = held \ {d},
             maker' = [maker EXCEPT ![d] = None], UNCHANGED <<configs, status>>,
             Waits(c, [call EXCEPT !.pc = "deleting", !.todo = @ \ (passed \cup {d})])
      PROVE  /\ MakesTypes /\ OthersStay(c)
             /\ \A e \in held' : e \in held /\ maker'[e] = maker[e]
             /\ calls'[c] \in CallTypes /\ calls'[c].s = call.s /\ calls'[c].pc = "deleting"
  <2> DEFINE next == [call EXCEPT !.pc = "deleting", !.todo = @ \ (passed \cup {d})]
  <2>1. next \in CallTypes /\ next.s = call.s /\ next.pc = "deleting"
    BY DEF AnyCall, CallTypes, Stages
  <2>2. Waits(c, next)
    BY <1>2
  <2> HIDE DEF next
  <2>3. /\ calls' \in [Calls -> CallTypes \cup {Idle}]
        /\ OthersStay(c) /\ calls'[c] = next
    BY <2>1, <2>2, WaitsFacts
  <2>4. held' \subseteq Devices /\ maker' \in [Devices -> Scenarios \cup {None}]
        /\ \A e \in held' : e \in held /\ maker'[e] = maker[e]
    BY <1>1, <1>2
  <2> QED
    BY <2>1, <2>3, <2>4 DEF MakesTypes
<1>3. ASSUME RemoveScenario(c, call.s), UNCHANGED <<held, maker>>
      PROVE  /\ MakesTypes /\ OthersStay(c)
             /\ \A d \in held' : d \in held /\ maker'[d] = maker[d]
             /\ calls'[c] = Idle
             /\ \/ UNCHANGED <<configs, status>>
                \/ /\ status[call.s] \notin {"running", "starting"}
                   /\ configs' = [configs EXCEPT ![call.s] = None]
                   /\ status' = [status EXCEPT ![call.s] = "absent"]
  <2>1. Returns(c)
    BY <1>3 DEF RemoveScenario
  <2>2. /\ calls' \in [Calls -> CallTypes \cup {Idle}]
        /\ OthersStay(c) /\ calls'[c] = Idle
    BY <2>1, ReturnsFacts
  <2>3. \/ UNCHANGED <<configs, status>>
        \/ /\ status[call.s] \notin {"running", "starting"}
           /\ configs' = [configs EXCEPT ![call.s] = None]
           /\ status' = [status EXCEPT ![call.s] = "absent"]
    BY <1>3 DEF RemoveScenario, Shows
  <2> QED
    BY <1>1, <1>3, <2>2, <2>3 DEF MakesTypes
<1> QED
  BY <1>2, <1>3 DEF DeleteMembers

\* Undoing removes a device that the call created.
LEMMA UndoFacts ==
  ASSUME TypeOK, NEW c \in Calls, Undo(c)
  PROVE  /\ MakesTypes /\ OthersStay(c) /\ UNCHANGED <<configs, status, instances>>
         /\ calls[c].pc = "undoing"
         /\ \E d \in calls[c].created :
              /\ held' = held \ {d} /\ \A e \in held' : maker'[e] = maker[e]
              /\ \/ calls'[c] = Idle /\ calls[c].created = {d}
                 \/ /\ calls'[c] \in CallTypes /\ calls'[c].s = calls[c].s
                    /\ calls'[c].pc = "undoing"
                    /\ calls'[c].created = calls[c].created \ {d}
<1>1. /\ held \subseteq Devices /\ maker \in [Devices -> Scenarios \cup {None}]
      /\ calls[c].pc = "undoing" /\ UNCHANGED <<configs, status, instances>>
  BY DEF TypeOK, Undo
<1>2. calls[c] \in CallTypes /\ calls[c].created \subseteq Devices
  BY <1>1, InStage DEF Stages, CallTypes
<1>3. PICK d \in calls[c].created :
         /\ held' = held \ {d} /\ maker' = [maker EXCEPT ![d] = None]
         /\ IF calls[c].created = {d} THEN Returns(c)
            ELSE Waits(c, [calls[c] EXCEPT !.created = @ \ {d}])
  BY DEF Undo
<1>4. held' \subseteq Devices /\ maker' \in [Devices -> Scenarios \cup {None}]
      /\ \A e \in held' : maker'[e] = maker[e]
  BY <1>1, <1>2, <1>3
<1>5. CASE calls[c].created = {d} /\ Returns(c)
  BY <1>1, <1>3, <1>4, <1>5, ReturnsFacts DEF MakesTypes
<1>6. CASE Waits(c, [calls[c] EXCEPT !.created = @ \ {d}])
  <2> DEFINE next == [calls[c] EXCEPT !.created = @ \ {d}]
  <2>1. /\ next \in CallTypes /\ next.s = calls[c].s /\ next.pc = calls[c].pc
        /\ next.created = calls[c].created \ {d}
    BY <1>2 DEF CallTypes
  <2>2. Waits(c, next)
    BY <1>6
  <2> HIDE DEF next
  <2>3. /\ calls' \in [Calls -> CallTypes \cup {Idle}]
        /\ OthersStay(c) /\ calls'[c] = next
    BY <2>1, <2>2, WaitsFacts
  <2> QED
    BY <1>1, <1>3, <1>4, <2>1, <2>3 DEF MakesTypes
<1> QED
  BY <1>3, <1>5, <1>6

\* The types of the step's other variables complete those of the calls.
LEMMA TypeFrom ==
  ASSUME MakesTypes, configs' \in [Scenarios -> Configs \cup {None}],
         status' \in [Scenarios -> {"absent", "stopped", "starting", "running", "error"}],
         instances' \subseteq Scenarios
  PROVE  TypeOK'
BY DEF TypeOK, MakesTypes

\* A start keeps the types from one suspension to the next.
LEMMA StartType ==
  ASSUME TypeOK, NEW c \in Calls, NEW call \in AnyCall, configs' = configs, MakesTypes,
         Launches(c, call.s) \/ Fails(c, call) \/ GoesOn(c, call)
  PROVE  TypeOK'
<1>1. call.s \in Scenarios /\ instances \subseteq Scenarios
  BY DEF AnyCall, TypeOK
<1>2. status' \in [Scenarios -> {"absent", "stopped", "starting", "running", "error"}]
  BY <1>1 DEF TypeOK, Launches, Fails, GoesOn
<1>3. instances' \subseteq Scenarios
  BY <1>1 DEF Launches, Fails, GoesOn
<1> QED
  BY <1>2, <1>3, TypeFrom DEF TypeOK

\* Every step keeps the types.
LEMMA NextType ==
  ASSUME TypeOK, [Next]_vars
  PROVE  TypeOK'
<1>1. ASSUME NEW s \in Scenarios, NEW config \in Configs,
             CreateScenario(s, config) \/ UpdateScenario(s, config)
      PROVE  TypeOK'
  BY <1>1 DEF CreateScenario, UpdateScenario, TypeOK, Shows
<1>2. ASSUME NEW s \in Scenarios, StopScenario(s)
      PROVE  TypeOK'
  BY <1>2 DEF StopScenario, TypeOK, Shows
<1>3. ASSUME NEW c \in Calls, NEW s \in Scenarios, StartScenario(c, s)
      PROVE  TypeOK'
  <2>1. configs[s] # None /\ Go(c, Call(s)) /\ configs' = configs
    BY <1>3 DEF StartScenario
  <2> QED
    BY <2>1, NewCall, GoFacts, StartType
<1>4. ASSUME NEW c \in Calls, CreateMembers(c) \/ Launched(c)
      PROVE  TypeOK'
  <2>1. calls[c].pc \in Stages /\ configs' = configs
    BY <1>4 DEF CreateMembers, Launched, Stages
  <2>2. Go(c, calls[c]) \/ Finish(c, calls[c])
    BY <1>4 DEF CreateMembers, Launched
  <2> QED
    BY <2>1, <2>2, InStage, GoFacts, FinishFacts, StartType
<1>5. ASSUME NEW c \in Calls, NEW call \in AnyCall, DeleteMembers(c, call),
             instances' = instances
      PROVE  TypeOK'
  <2>1. /\ MakesTypes
        /\ \/ UNCHANGED <<configs, status>>
           \/ /\ configs' = [configs EXCEPT ![call.s] = None]
              /\ status' = [status EXCEPT ![call.s] = "absent"]
    BY <1>5, DeleteFacts
  <2>2. /\ configs' \in [Scenarios -> Configs \cup {None}]
        /\ status' \in [Scenarios -> {"absent", "stopped", "starting", "running", "error"}]
    BY <2>1 DEF TypeOK
  <2> QED
    BY <1>5, <2>1, <2>2, TypeFrom DEF TypeOK
<1>6. ASSUME NEW c \in Calls, NEW s \in Scenarios, DeleteScenario(c, s)
      PROVE  TypeOK'
  BY <1>5, <1>6, NewCall DEF DeleteScenario
<1>7. ASSUME NEW c \in Calls, Deleting(c)
      PROVE  TypeOK'
  BY <1>5, <1>7, InStage DEF Deleting, Stages
<1>8. ASSUME NEW c \in Calls, Undo(c)
      PROVE  TypeOK'
  BY <1>8, UndoFacts, TypeFrom DEF TypeOK
<1>9. ASSUME OtherDevices PROVE TypeOK'
  BY <1>9 DEF OtherDevices, TypeOK
<1>10. CASE UNCHANGED vars
  BY <1>10 DEF vars, TypeOK
<1> QED
  BY <1>1, <1>2, <1>3, <1>4, <1>6, <1>7, <1>8, <1>9, <1>10 DEF Next, Resume

\* The variables start with their types.
LEMMA InitType == Init => TypeOK
BY DEF Init, TypeOK

\* Whatever the clients of scenarios and devices do, the variables keep their
\* types; in particular every call carries the configuration it was started with.
THEOREM TypeCorrect == Spec => []TypeOK
<1>1. TypeOK /\ [Next]_vars => TypeOK'
  BY NextType
<1> QED
  BY <1>1, InitType, PTL DEF Spec

-----------------------------------------------------------------------------
(* Clients that wait for their answers *)

\* Slots that name the same scenario are the same slot.
OneCall == \A c, d \in Calls : calls[c] # Idle /\ calls[d].s = calls[c].s => d = c

\* Shown as running, and evaluated by the tick loop: the same scenarios, which exist.
Ticked(s) == /\ status[s] = "running" <=> s \in instances
             /\ s \in instances => configs[s] # None

\* A scenario that is being started is not running, and it exists.
StartingOK(c) ==
  calls[c].pc \in {"creating", "launching"} =>
    status[calls[c].s] # "running" /\ configs[calls[c].s] # None

\* Call c answers for a device that was made for s.
Answers(c, s, d) == /\ calls[c].s = s /\ d \in calls[c].created
                    /\ calls[c].pc \in {"creating", "launching", "undoing"}

\* There is a call that answers for every device whose start has not succeeded.
MakersAnswer ==
  \A d \in held : maker[d] # None => \E c \in Calls : Answers(c, maker[d], d)

OrderlyInv ==
  /\ TypeOK /\ OneCall /\ MakersAnswer
  /\ \A s \in Scenarios : Ticked(s)
  /\ \A c \in Calls : StartingOK(c)

\* A slot that does not hold a call names no scenario, and others hold other ones.
OnlyCallOf(c, s) == /\ calls[c] = Idle \/ calls[c].s = s
                    /\ \A d \in Calls \ {c} : calls[d].s # s

\* The call that names a scenario is the only one.
LEMMA Alone ==
  ASSUME OrderlyInv, NEW c \in Calls, calls[c].pc \in Stages
  PROVE  OnlyCallOf(c, calls[c].s) /\ calls[c].s \in Scenarios /\ calls[c] \in AnyCall
BY InStage DEF OrderlyInv, OneCall, OnlyCallOf, CallTypes

\* Nobody but the only call of a scenario answers for its devices.
LEMMA AnswersAlone ==
  ASSUME OrderlyInv, NEW c \in Calls, NEW s \in Scenarios, OnlyCallOf(c, s),
         NEW d \in held, maker[d] = s
  PROVE  Answers(c, s, d)
<1>1. s # None
  BY ScenarioAssumption
<1>2. PICK b \in Calls : Answers(b, s, d)
  BY <1>1 DEF OrderlyInv, MakersAnswer
<1> QED
  BY <1>2 DEF OnlyCallOf, Answers

\* What a step about scenario s may change of the others.
OnlyAbout(s) ==
  \A t \in Scenarios \ {s} : /\ configs'[t] = configs[t] /\ status'[t] = status[t]
                             /\ t \in instances' <=> t \in instances

\* A step of the only call about a scenario has to leave that scenario in order.
LEMMA OrderlyKept ==
  ASSUME OrderlyInv, TypeOK', NEW c \in Calls, NEW s \in Scenarios, OnlyCallOf(c, s),
         OthersStay(c), calls'[c] = Idle \/ calls'[c].s = s, OnlyAbout(s),
         Ticked(s)', StartingOK(c)',
         \A d \in held' : maker'[d] # None =>
            \/ d \in held /\ maker'[d] = maker[d] /\ maker[d] # s
            \/ maker'[d] = s /\ Answers(c, s, d)'
  PROVE  OrderlyInv'
<1>1. TypeOK
  BY DEF OrderlyInv
<1>2. \A d \in Calls \ {c} : calls'[d] = calls[d] /\ calls[d].s # s
  BY DEF OthersStay, OnlyCallOf
<1>3. Idle.s = None /\ None \notin Scenarios /\ Idle.pc = "idle"
  BY ScenarioAssumption DEF Idle
<1>4. OneCall'
  <2> SUFFICES ASSUME NEW a \in Calls, NEW b \in Calls,
                      calls'[a] # Idle, calls'[b].s = calls'[a].s
               PROVE  b = a
    BY DEF OneCall
  <2>1. calls'[a].s \in Scenarios
    BY DEF TypeOK, CallTypes
  <2>2. CASE a # c /\ b # c
    BY <1>2, <2>2 DEF OrderlyInv, OneCall
  <2>3. CASE a = c /\ b # c
    BY <1>2, <2>3
  <2>4. CASE a # c /\ b = c
    BY <1>2, <1>3, <2>1, <2>4
  <2> QED
    BY <2>2, <2>3, <2>4
<1>5. ASSUME NEW t \in Scenarios PROVE Ticked(t)'
  <2>1. CASE t # s
    BY <2>1 DEF OrderlyInv, OnlyAbout, Ticked
  <2> QED
    BY <2>1
<1>6. ASSUME NEW d \in Calls PROVE StartingOK(d)'
  <2>1. CASE d # c /\ calls[d].pc \in {"creating", "launching"}
    <3>1. calls[d].s \in Scenarios \ {s} /\ calls'[d] = calls[d]
      BY <1>1, <1>2, <2>1, InStage DEF Stages, CallTypes
    <3> QED
      BY <2>1, <3>1 DEF OrderlyInv, StartingOK, OnlyAbout
  <2>2. CASE d # c /\ calls[d].pc \notin {"creating", "launching"}
    BY <1>2, <2>2 DEF StartingOK
  <2> QED
    BY <2>1, <2>2
<1>7. ASSUME NEW d \in held', NEW t \in Scenarios, maker'[d] = t
      PROVE  \E b \in Calls : Answers(b, t, d)'
  <2>1. CASE t = s /\ Answers(c, s, d)'
    BY <2>1
  <2>2. CASE d \in held /\ maker[d] = t /\ t # s
    <3>1. PICK b \in Calls : Answers(b, t, d)
      BY <1>3, <2>2 DEF OrderlyInv, MakersAnswer
    <3>2. b # c
      BY <1>3, <2>2, <3>1 DEF Answers, OnlyCallOf
    <3> QED
      BY <1>2, <3>1, <3>2 DEF Answers
  <2>3. t # None
    BY <1>3
  <2> QED
    BY <1>7, <2>1, <2>2, <2>3
<1>8. MakersAnswer'
  <2>1. \A d \in held' : maker'[d] \in Scenarios \cup {None}
    BY DEF TypeOK
  <2> QED
    BY <1>7, <2>1 DEF MakersAnswer, Answers
<1> QED
  BY <1>4, <1>5, <1>6, <1>8 DEF OrderlyInv

\* A call without a suspension, about a scenario that no other call is about.
LEMMA OrderlyKeptAtOnce ==
  ASSUME OrderlyInv, TypeOK', NEW s \in Scenarios, Quiet(s),
         UNCHANGED <<calls, held, maker>>, OnlyAbout(s), Ticked(s)'
  PROVE  OrderlyInv'
<1>1. OneCall' /\ MakersAnswer'
  BY DEF OrderlyInv, OneCall, MakersAnswer, Answers
<1>2. ASSUME NEW t \in Scenarios PROVE Ticked(t)'
  <2>1. CASE t # s
    BY <2>1 DEF OrderlyInv, OnlyAbout, Ticked
  <2> QED
    BY <2>1
<1>3. ASSUME NEW d \in Calls PROVE StartingOK(d)'
  <2>1. CASE calls[d].pc \in {"creating", "launching"}
    <3>1. calls[d].s \in Scenarios \ {s}
      BY <2>1, InStage DEF OrderlyInv, Stages, CallTypes, Quiet
    <3> QED
      BY <2>1, <3>1 DEF OrderlyInv, StartingOK, OnlyAbout
  <2> QED
    BY <2>1 DEF StartingOK
<1> QED
  BY <1>1, <1>2, <1>3 DEF OrderlyInv

\* From one suspension of start_scenario to the next.
LEMMA OrderlyStart ==
  ASSUME OrderlyInv, TypeOK', NEW c \in Calls, NEW call \in AnyCall,
         OnlyCallOf(c, call.s), configs' = configs, configs[call.s] # None,
         status[call.s] # "running",
         \A d \in held : maker[d] = call.s => d \in call.created,
         Launches(c, call.s) \/ Fails(c, call) \/ GoesOn(c, call)
  PROVE  OrderlyInv'
<1> DEFINE s == call.s
<1>1. /\ s \in Scenarios /\ TypeOK /\ held \subseteq Devices
      /\ status \in [Scenarios -> {"absent", "stopped", "starting", "running", "error"}]
  BY DEF AnyCall, OrderlyInv, TypeOK
<1>2. s \notin instances
  BY <1>1 DEF OrderlyInv, Ticked
<1>3. Idle.pc = "idle" /\ s # None
  BY <1>1, ScenarioAssumption DEF Idle
<1>4. CASE Launches(c, s)
  <2>1. status'[s] = "running" /\ s \in instances' /\ calls'[c] = Idle
    BY <1>1, <1>4 DEF Launches
  <2>2. Ticked(s)' /\ StartingOK(c)'
    BY <1>3, <2>1 DEF Ticked, StartingOK
  <2>3. OnlyAbout(s)
    BY <1>1, <1>4 DEF OnlyAbout, Launches
  <2>4. \A d \in held' : maker'[d] # None =>
           d \in held /\ maker'[d] = maker[d] /\ maker[d] # s
    BY <1>1, <1>4 DEF Launches
  <2> QED
    BY <1>1, <1>4, <2>1, <2>2, <2>3, <2>4, OrderlyKept DEF Launches
<1>5. CASE Fails(c, call)
  <2>1. /\ status'[s] = "error" /\ OthersStay(c)
        /\ UNCHANGED <<instances, held, maker>>
        /\ \/ call.created = {} /\ calls'[c] = Idle
           \/ /\ calls'[c] \in CallTypes /\ calls'[c].s = s
              /\ calls'[c].pc = "undoing" /\ calls'[c].created = call.created
    BY <1>1, <1>5 DEF Fails
  <2>2. Ticked(s)' /\ StartingOK(c)'
    BY <1>2, <1>3, <2>1 DEF Ticked, StartingOK
  <2>3. OnlyAbout(s)
    BY <1>1, <1>5 DEF OnlyAbout, Fails
  <2>4. \A d \in held : maker[d] = s => Answers(c, s, d)'
    BY <2>1 DEF Answers
  <2> QED
    BY <1>1, <2>1, <2>2, <2>3, <2>4, OrderlyKept
<1>6. CASE GoesOn(c, call)
  <2>1. /\ OthersStay(c) /\ calls'[c] \in CallTypes /\ calls'[c].s = s
        /\ calls'[c].pc \in {"creating", "launching"}
        /\ call.created \subseteq calls'[c].created /\ instances' = instances
        /\ status'[s] # "running"
    BY <1>1, <1>6 DEF GoesOn
  <2>2. Ticked(s)' /\ StartingOK(c)'
    BY <1>2, <2>1 DEF Ticked, StartingOK
  <2>3. OnlyAbout(s)
    BY <1>1, <1>6 DEF OnlyAbout, GoesOn
  <2>4. \A d \in calls'[c].created : Answers(c, s, d)'
    BY <2>1 DEF Answers
  <2>5. \A d \in held' : maker'[d] # None =>
           \/ d \in held /\ maker'[d] = maker[d] /\ maker[d] # s
           \/ maker'[d] = s /\ Answers(c, s, d)'
    <3> SUFFICES ASSUME NEW d \in held', maker'[d] # None
                 PROVE  \/ d \in held /\ maker'[d] = maker[d] /\ maker[d] # s
                        \/ maker'[d] = s /\ Answers(c, s, d)'
      OBVIOUS
    <3>1. d \in Devices
      BY DEF TypeOK
    <3>2. \/ d \in held /\ maker'[d] = maker[d]
          \/ d \in calls'[c].created /\ maker'[d] = s
      BY <1>6, <3>1 DEF GoesOn
    <3>3. d \in held /\ maker[d] = s => d \in calls'[c].created
      BY <2>1
    <3> QED
      BY <2>4, <3>2, <3>3
  <2> QED
    BY <1>1, <2>1, <2>2, <2>3, <2>5, OrderlyKept
<1> QED
  BY <1>4, <1>5, <1>6

\* From one suspension of a deletion to the next.
LEMMA OrderlyDelete ==
  ASSUME OrderlyInv, TypeOK', NEW c \in Calls, NEW call \in AnyCall,
         OnlyCallOf(c, call.s), \A d \in held : maker[d] # call.s,
         instances' = instances, DeleteMembers(c, call)
  PROVE  OrderlyInv'
<1> DEFINE s == call.s
<1>1. /\ s \in Scenarios /\ TypeOK
      /\ status \in [Scenarios -> {"absent", "stopped", "starting", "running", "error"}]
      /\ configs \in [Scenarios -> Configs \cup {None}]
  BY DEF AnyCall, OrderlyInv, TypeOK
<1>2. /\ OthersStay(c)
      /\ \A d \in held' : d \in held /\ maker'[d] = maker[d]
      /\ calls'[c] = Idle \/ (/\ calls'[c] \in CallTypes /\ calls'[c].s = s
                              /\ calls'[c].pc = "deleting")
      /\ \/ UNCHANGED <<configs, status>>
         \/ /\ status[s] \notin {"running", "starting"}
            /\ configs' = [configs EXCEPT ![s] = None]
            /\ status' = [status EXCEPT ![s] = "absent"]
  BY <1>1, DeleteFacts
<1>3. Ticked(s)
  BY <1>1 DEF OrderlyInv
<1>4. Ticked(s)' /\ OnlyAbout(s)
  BY <1>1, <1>2, <1>3 DEF Ticked, OnlyAbout
<1>5. StartingOK(c)'
  BY <1>2 DEF StartingOK, Idle
<1> QED
  BY <1>1, <1>2, <1>4, <1>5, OrderlyKept

\* Every step of clients that wait for their answers keeps the scenarios in order.
LEMMA OrderlyStep ==
  ASSUME Orderly, OrderlyInv, [Next]_vars
  PROVE  OrderlyInv'
<1>1. TypeOK /\ TypeOK' /\ \A s \in Scenarios : Ticked(s)
  BY NextType DEF OrderlyInv
<1>2. ASSUME NEW s \in Scenarios, NEW config \in Configs, CreateScenario(s, config)
      PROVE  OrderlyInv'
  <2>1. /\ Quiet(s) /\ configs[s] = None /\ UNCHANGED <<instances, held, calls, maker>>
        /\ configs' = [configs EXCEPT ![s] = config]
        /\ status' = [status EXCEPT ![s] = "stopped"]
    BY <1>2 DEF CreateScenario, MayCall, Shows
  <2>2. Ticked(s)' /\ OnlyAbout(s)
    BY <1>1, <2>1 DEF Ticked, OnlyAbout, TypeOK
  <2> QED
    BY <1>1, <2>1, <2>2, OrderlyKeptAtOnce
<1>3. ASSUME NEW s \in Scenarios, NEW config \in Configs, UpdateScenario(s, config)
      PROVE  OrderlyInv'
  <2>1. /\ Quiet(s) /\ UNCHANGED <<status, instances, held, calls, maker>>
        /\ configs' = [configs EXCEPT ![s] = config] /\ config # None
    BY <1>3, ScenarioAssumption DEF UpdateScenario, MayCall
  <2>2. Ticked(s)' /\ OnlyAbout(s)
    BY <1>1, <2>1 DEF Ticked, OnlyAbout, TypeOK
  <2> QED
    BY <1>1, <2>1, <2>2, OrderlyKeptAtOnce
<1>4. ASSUME NEW s \in Scenarios, StopScenario(s)
      PROVE  OrderlyInv'
  <2>1. /\ Quiet(s) /\ UNCHANGED <<configs, held, calls, maker>>
        /\ status' = [status EXCEPT ![s] = "stopped"] /\ instances' = instances \ {s}
    BY <1>4 DEF StopScenario, MayCall, Shows
  <2>2. Ticked(s)' /\ OnlyAbout(s)
    BY <1>1, <2>1 DEF Ticked, OnlyAbout, TypeOK
  <2> QED
    BY <1>1, <2>1, <2>2, OrderlyKeptAtOnce
<1>5. ASSUME NEW c \in Calls, NEW s \in Scenarios, Quiet(s), calls[c] = Idle
      PROVE  /\ OnlyCallOf(c, s)
             /\ \A d \in held : maker[d] # s
  <2>1. OnlyCallOf(c, s)
    BY <1>5 DEF OnlyCallOf, Quiet
  <2>2. ASSUME NEW d \in held, maker[d] = s PROVE FALSE
    BY <1>5, <2>1, <2>2, AnswersAlone DEF Answers, Quiet
  <2> QED
    BY <2>1, <2>2
<1>6. ASSUME NEW c \in Calls, NEW s \in Scenarios, StartScenario(c, s)
      PROVE  OrderlyInv'
  <2>1. /\ Quiet(s) /\ calls[c] = Idle /\ configs[s] # None
        /\ status[s] # "running" /\ Go(c, Call(s)) /\ configs' = configs
    BY <1>6 DEF StartScenario, MayCall
  <2>2. OnlyCallOf(c, s) /\ \A d \in held : maker[d] # s
    BY <1>5, <2>1
  <2>3. Call(s) \in AnyCall /\ Call(s).s = s
    BY <1>1, <2>1, NewCall
  <2>4. Launches(c, s) \/ Fails(c, Call(s)) \/ GoesOn(c, Call(s))
    BY <1>1, <2>1, <2>3, GoFacts
  <2> QED
    BY <1>1, <2>1, <2>2, <2>3, <2>4, OrderlyStart
<1>7. ASSUME NEW c \in Calls, CreateMembers(c) \/ Launched(c)
      PROVE  OrderlyInv'
  <2>1. /\ calls[c].pc \in {"creating", "launching"} /\ calls[c].pc \in Stages
        /\ configs' = configs
        /\ Go(c, calls[c]) \/ Finish(c, calls[c])
    BY <1>7 DEF CreateMembers, Launched, Stages
  <2>2. OnlyCallOf(c, calls[c].s) /\ calls[c].s \in Scenarios /\ calls[c] \in AnyCall
    BY <2>1, Alone
  <2>3. status[calls[c].s] # "running" /\ configs[calls[c].s] # None
    BY <2>1 DEF OrderlyInv, StartingOK
  <2>4. \A d \in held : maker[d] = calls[c].s => d \in calls[c].created
    BY <2>2, AnswersAlone DEF Answers
  <2>5. Launches(c, calls[c].s) \/ Fails(c, calls[c]) \/ GoesOn(c, calls[c])
    BY <1>1, <2>1, <2>2, GoFacts, FinishFacts
  <2> QED
    BY <1>1, <1>7, <2>2, <2>3, <2>4, <2>5, OrderlyStart DEF CreateMembers, Launched
<1>8. ASSUME NEW c \in Calls, Undo(c)
      PROVE  OrderlyInv'
  <2>1. calls[c].pc = "undoing" /\ calls[c].pc \in Stages
    BY <1>8 DEF Undo, Stages
  <2>2. PICK s \in Scenarios : s = calls[c].s /\ OnlyCallOf(c, s)
    BY <2>1, Alone
  <2>3. /\ OthersStay(c) /\ UNCHANGED <<configs, status, instances>>
        /\ \E d \in calls[c].created :
              /\ held' = held \ {d} /\ \A e \in held' : maker'[e] = maker[e]
              /\ \/ calls'[c] = Idle /\ calls[c].created = {d}
                 \/ /\ calls'[c] \in CallTypes /\ calls'[c].s = s
                    /\ calls'[c].pc = "undoing"
                    /\ calls'[c].created = calls[c].created \ {d}
    BY <1>1, <1>8, <2>2, UndoFacts
  <2>4. OnlyAbout(s) /\ Ticked(s)'
    BY <1>1, <2>2, <2>3 DEF OnlyAbout, Ticked
  <2>5. StartingOK(c)'
    BY <2>3 DEF StartingOK, Idle
  <2>6. ASSUME NEW e \in held', maker'[e] # None
        PROVE  \/ e \in held /\ maker'[e] = maker[e] /\ maker[e] # s
               \/ maker'[e] = s /\ Answers(c, s, e)'
    <3>1. e \in held /\ maker'[e] = maker[e]
      BY <2>3
    <3>2. CASE maker[e] = s
      <4>1. e \in calls[c].created
        BY <2>2, <3>1, <3>2, AnswersAlone DEF Answers
      <4> QED
        BY <2>3, <3>1, <3>2, <4>1 DEF Answers
    <3> QED
      BY <3>1, <3>2
  <2>7. calls'[c] = Idle \/ calls'[c].s = s
    BY <2>3
  <2> QED
    BY <1>1, <2>2, <2>3, <2>4, <2>5, <2>6, <2>7, OrderlyKept
<1>9. ASSUME NEW c \in Calls, NEW s \in Scenarios, DeleteScenario(c, s)
      PROVE  OrderlyInv'
  <2>1. /\ Quiet(s) /\ calls[c] = Idle /\ configs[s] # None
        /\ DeleteMembers(c, Call(s)) /\ instances' = instances
    BY <1>9 DEF DeleteScenario, MayCall
  <2>2. OnlyCallOf(c, s) /\ \A d \in held : maker[d] # s
    BY <1>5, <2>1
  <2>3. Call(s) \in AnyCall /\ Call(s).s = s
    BY <1>1, <2>1, NewCall
  <2> QED
    BY <1>1, <2>1, <2>2, <2>3, OrderlyDelete
<1>10. ASSUME NEW c \in Calls, Deleting(c)
       PROVE  OrderlyInv'
  <2>1. /\ calls[c].pc = "deleting" /\ calls[c].pc \in Stages
        /\ DeleteMembers(c, calls[c]) /\ instances' = instances
    BY <1>10 DEF Deleting, Stages
  <2>2. OnlyCallOf(c, calls[c].s) /\ calls[c].s \in Scenarios /\ calls[c] \in AnyCall
    BY <2>1, Alone
  <2>3. \A d \in held : maker[d] # calls[c].s
    BY <2>1, <2>2, AnswersAlone DEF Answers
  <2> QED
    BY <1>1, <2>1, <2>2, <2>3, OrderlyDelete
<1>11. ASSUME OtherDevices
       PROVE  OrderlyInv'
  <2>1. UNCHANGED <<configs, status, instances, calls>>
    BY <1>11 DEF OtherDevices
  <2>2. \A d \in held' : maker'[d] # None => d \in held /\ maker'[d] = maker[d]
    BY <1>1, <1>11 DEF OtherDevices, TypeOK
  <2>3. MakersAnswer'
    BY <2>1, <2>2 DEF OrderlyInv, MakersAnswer, Answers
  <2>4. OneCall' /\ \A c \in Calls : StartingOK(c)'
    BY <2>1 DEF OrderlyInv, OneCall, StartingOK
  <2> QED
    BY <1>1, <2>1, <2>3, <2>4 DEF OrderlyInv, Ticked
<1>12. CASE UNCHANGED vars
  BY <1>1, <1>12 DEF vars, OrderlyInv, OneCall, MakersAnswer, Answers, Ticked, StartingOK
<1> QED
  BY <1>2, <1>3, <1>4, <1>6, <1>7, <1>8, <1>9, <1>10, <1>11, <1>12 DEF Next, Resume

\* The invariant holds before the first call.
LEMMA OrderlyInit == Init => OrderlyInv
BY InitType DEF Init, OrderlyInv, OneCall, MakersAnswer, Ticked, StartingOK, Idle

\* The invariant of clients that wait for their answers.
LEMMA OrderlyAlways ==
  ASSUME Orderly
  PROVE  Spec => []OrderlyInv
<1>1. OrderlyInv /\ [Next]_vars => OrderlyInv'
  BY OrderlyStep
<1> QED
  BY <1>1, OrderlyInit, PTL DEF Spec

\* While clients wait for their answers about a scenario, create what is new and
\* start what does not run, the scenarios shown as running are those the tick
\* loop evaluates, and they exist: starts that fail, deletions that are refused
\* and devices that come and go do not part the two.
THEOREM ShownIsTicked ==
  ASSUME Orderly
  PROVE  Spec => []RunningIsTicked
<1>1. OrderlyInv => RunningIsTicked
  BY DEF OrderlyInv, Ticked, RunningIsTicked
<1> QED
  BY <1>1, OrderlyAlways, PTL

\* Under the same assumption a failed start leaves no device behind, whatever
\* other scenarios with the same devices do meanwhile.
THEOREM FailedStartsAreUndone ==
  ASSUME Orderly
  PROVE  Spec => []FailureLeavesNoDevice
<1>1. OrderlyInv => FailureLeavesNoDevice
  BY DEF OrderlyInv, MakersAnswer, Answers, Quiet, FailureLeavesNoDevice
<1> QED
  BY <1>1, OrderlyAlways, PTL

-----------------------------------------------------------------------------
(* The rules: where a tick is *)

Memories == [start : Times, last : [Plain -> Times],
             prev : [RuleDevices -> 0..2], chained : [Chains -> Times]]

WorldOK ==
  /\ now \in Epoch..(Epoch + MaxTime)
  /\ value \in [RuleDevices -> 0..1] /\ up \subseteq RuleDevices
  /\ starts \in 0..MaxStarts /\ live \in 0..starts
  /\ late \in Nat

\* No object has started in the future.
MemoryOK ==
  /\ memory \in [Runs -> Memories]
  /\ \A o \in Runs : memory[o].start <= now

\* The tick is at one of the rules, and at one of the actions of a chain, unless it
\* sleeps.
PlaceOK ==
  /\ turn \in 0..starts /\ at \in 0..NumRules /\ step \in Nat /\ until \in Nat
  /\ doing \in {"asleep", "checking", "acting", "writing", "waiting"}
  /\ turn = 0 <=> doing = "asleep"
  /\ doing # "asleep" => at # 0
  /\ doing \in {"acting", "waiting"} => at > NumPlain
  /\ (doing \in {"acting", "waiting"}) \/ (doing = "writing" /\ at > NumPlain)
       => step \in DOMAIN Chain.actions
  /\ began \in Times /\ began <= now

\* The rules as the assumption gives them: numbers, and for each its record.
LEMMA RuleNumbers ==
  /\ NumPlain \in Nat /\ NumRules \in Nat /\ NumPlain <= NumRules
  /\ Plain = 1..NumPlain /\ Chains = 1..(NumRules - NumPlain)
  /\ \A r \in Plain : PlainRules[r] \in [kind : Kinds, source : RuleDevices,
                                         target : RuleDevices, pause : Nat]
  /\ \A r \in Chains : ChainRules[r] \in [source : RuleDevices, pause : Nat,
                          actions : Seq([target : RuleDevices, wait : Nat])]
  /\ \A r \in Chains : /\ Len(ChainRules[r].actions) \in Nat \ {0}
                       /\ DOMAIN ChainRules[r].actions = 1..Len(ChainRules[r].actions)
<1>1. Len(PlainRules) \in Nat /\ Len(ChainRules) \in Nat
      /\ DOMAIN PlainRules = 1..Len(PlainRules) /\ DOMAIN ChainRules = 1..Len(ChainRules)
  BY RulesAssumption
<1>2. /\ \A r \in 1..Len(PlainRules) :
           PlainRules[r] \in [kind : Kinds, source : RuleDevices, target : RuleDevices, pause : Nat]
      /\ \A r \in 1..Len(ChainRules) :
           ChainRules[r] \in [source : RuleDevices, pause : Nat,
                              actions : Seq([target : RuleDevices, wait : Nat])]
  BY RulesAssumption, ElementOfSeq
<1>3. ASSUME NEW r \in 1..Len(ChainRules)
      PROVE  /\ Len(ChainRules[r].actions) \in Nat \ {0}
             /\ DOMAIN ChainRules[r].actions = 1..Len(ChainRules[r].actions)
  <2>1. ChainRules[r].actions \in Seq([target : RuleDevices, wait : Nat])
    BY <1>2
  <2>2. ChainRules[r].actions # <<>>
    BY <1>1, RulesAssumption
  <2> QED BY <2>1, <2>2
<1>4. Plain = 1..NumPlain /\ NumPlain = Len(PlainRules)
  BY <1>1 DEF Plain, NumPlain
<1>5. Chains = 1..Len(ChainRules) /\ NumRules - NumPlain = Len(ChainRules)
      /\ NumRules \in Nat /\ NumPlain <= NumRules
  BY <1>1 DEF Chains, NumPlain, NumRules
<1> QED BY <1>1, <1>2, <1>3, <1>4, <1>5

\* The clock shows natural numbers.
LEMMA TimesAreNatural == Times \subseteq Nat /\ Epoch \in Nat /\ MaxTime \in Nat /\ 0 \in Times
  BY RulesAssumption DEF Times

\* A rule's look at its point changes nothing but the previous value of the point.
LEMMA SeenKeeps ==
  ASSUME NEW m \in Memories, value \in [RuleDevices -> 0..1]
  PROVE  /\ Seen(m) \in Memories
         /\ Seen(m).start = m.start /\ Seen(m).last = m.last /\ Seen(m).chained = m.chained
<1>1. CASE Rule.kind = "change" /\ Rule.source \in up
  <2>1. Seen(m) = [m EXCEPT !.prev[Rule.source] = value[Rule.source]]
    BY <1>1 DEF Seen
  <2>2. m.prev \in [RuleDevices -> 0..2]
    BY DEF Memories
  <2>3. [m.prev EXCEPT ![Rule.source] = value[Rule.source]] \in [RuleDevices -> 0..2]
    <3> DEFINE d == Rule.source
    <3>1. d \in RuleDevices => value[d] \in 0..2
      OBVIOUS
    <3> HIDE DEF d
    <3>2. [m.prev EXCEPT ![d] = value[d]] \in [RuleDevices -> 0..2]
      BY <2>2, <3>1
    <3> QED BY <3>2 DEF d
  <2> QED BY <2>1, <2>3 DEF Memories
<1>2. CASE ~(Rule.kind = "change" /\ Rule.source \in up)
  BY <1>2 DEF Seen
<1> QED BY <1>1, <1>2

-----------------------------------------------------------------------------
(* Types *)

\* On to the next rule, or to rest.
LEMMA RuleGoesOn ==
  ASSUME NEW r \in 1..(NumRules + 1), GoTo(r), WorldOK, PlaceOK, turn # 0,
         now' = now, starts' = starts
  PROVE  PlaceOK'
<1>1. now \in Times /\ now \in Nat /\ starts \in Nat
  BY RulesAssumption DEF WorldOK, Times
<1>2. NumRules \in Nat
  BY RuleNumbers
<1>3. CASE r > NumRules
  BY <1>1, <1>2, <1>3, TimesAreNatural DEF GoTo, Rest, PlaceOK
<1>4. CASE ~(r > NumRules)
  BY <1>1, <1>2, <1>4 DEF GoTo, PlaceOK
<1> QED BY <1>3, <1>4

\* The rule the tick is at has a successor.
LEMMA RuleAfter ==
  ASSUME PlaceOK, doing # "asleep"
  PROVE  turn # 0 /\ at \in 1..NumRules /\ at + 1 \in 1..(NumRules + 1)
BY RuleNumbers DEF PlaceOK

\* On to the next action of the chain, or to the next rule.
LEMMA ChainGoesOn ==
  ASSUME WorldOK, PlaceOK, at > NumPlain, doing \in {"acting", "waiting", "writing"}, NextAction,
         now' = now, starts' = starts
  PROVE  PlaceOK'
<1>1. turn # 0 /\ at \in 1..NumRules /\ at + 1 \in 1..(NumRules + 1)
  BY RuleAfter
<1>2. at - NumPlain \in Chains /\ step \in DOMAIN Chain.actions
  BY <1>1, RuleNumbers DEF PlaceOK
<1>3. Len(Chain.actions) \in Nat /\ DOMAIN Chain.actions = 1..Len(Chain.actions)
  BY <1>2, RuleNumbers DEF Chain
<1>4. CASE step < Len(Chain.actions)
  <2>1. step + 1 \in DOMAIN Chain.actions
    BY <1>2, <1>3, <1>4
  <2>2. Chain' = Chain
    BY <1>4 DEF NextAction, Chain
  <2> QED BY <1>1, <1>4, <2>1, <2>2 DEF NextAction, PlaceOK
<1>5. CASE ~(step < Len(Chain.actions))
  <2>1. GoTo(at + 1)
    BY <1>5 DEF NextAction
  <2> QED BY <1>1, <2>1, RuleGoesOn
<1> QED BY <1>4, <1>5

\* Writing an action's value leaves the tick at an action that exists.
LEMMA ActionWrites ==
  ASSUME WorldOK, PlaceOK, doing \in {"acting", "waiting"}, Writes, now' = now, starts' = starts
  PROVE  PlaceOK'
<1>1. CASE Action.target \in up
  BY <1>1 DEF Writes, PlaceOK, Chain
<1>2. CASE ~(Action.target \in up)
  BY <1>2, ChainGoesOn DEF Writes, PlaceOK
<1> QED BY <1>1, <1>2

\* Every step leaves the tick at a rule, and in a chain at an action of it, or at rest.
LEMMA PlaceKept ==
  ASSUME WorldOK, PlaceOK, WorldOK', RulesNext
  PROVE  PlaceOK'
<1> USE DEF world, histories
<1>1. NumRules \in Nat /\ NumPlain \in Nat /\ NumPlain <= NumRules
  BY RuleNumbers
<1>2. now \in Times /\ now \in Nat
  BY RulesAssumption DEF WorldOK, Times
<1>3. CASE TickBegins
  BY <1>1, <1>2, <1>3, TimesAreNatural DEF TickBegins, WorldOK, PlaceOK
<1>4. CASE PlainRests
  BY <1>4, RuleAfter, RuleGoesOn DEF PlainRests
<1>5. CASE PlainFires
  <2>1. CASE Rule.target \in up
    BY <1>1, <1>5, <2>1 DEF PlainFires, PlaceOK
  <2>2. CASE ~(Rule.target \in up)
    BY <1>5, <2>2, RuleAfter, RuleGoesOn DEF PlainFires
  <2> QED BY <2>1, <2>2
<1>6. CASE ChainRests
  BY <1>6, RuleAfter, RuleGoesOn DEF ChainRests
<1>7. CASE ChainFires
  <2>1. at \in 1..NumRules /\ at > NumPlain
    BY <1>7, RuleAfter DEF ChainFires
  <2>2. at - NumPlain \in Chains
    BY <1>1, <2>1, RuleNumbers
  <2>3. 1 \in DOMAIN Chain.actions
    BY <2>2, RuleNumbers DEF Chain
  <2>4. Chain' = Chain
    BY <1>7 DEF ChainFires, Chain
  <2> QED BY <1>1, <1>7, <2>1, <2>3, <2>4 DEF ChainFires, PlaceOK
<1>8. CASE ActsAtOnce
  BY <1>8, ActionWrites DEF ActsAtOnce
<1>9. CASE ActionWaits
  <2>1. at \in 1..NumRules /\ at > NumPlain /\ step \in DOMAIN Chain.actions
    BY <1>9, RuleAfter DEF ActionWaits, PlaceOK
  <2>2. at - NumPlain \in Chains
    BY <1>1, <2>1, RuleNumbers
  <2>3. Chain.actions \in Seq([target : RuleDevices, wait : Nat])
    BY <2>2, RuleNumbers DEF Chain
  <2>4. Action.wait \in Nat
    <3>1. DOMAIN Chain.actions = 1..Len(Chain.actions)
      BY <2>2, RuleNumbers DEF Chain
    <3>2. Chain.actions[step] \in [target : RuleDevices, wait : Nat]
      BY <2>1, <2>3, <3>1, ElementOfSeq
    <3> QED BY <3>2 DEF Action
  <2>5. Chain' = Chain
    BY <1>9 DEF ActionWaits, Chain
  <2>6. until' \in Nat
    <3> DEFINE w == Action.wait
    <3>1. w \in Nat
      BY <2>4
    <3>2. until' = now + w
      BY <1>9 DEF ActionWaits
    <3> HIDE DEF w
    <3> QED BY <1>2, <3>1, <3>2
  <2> QED BY <1>9, <2>1, <2>5, <2>6 DEF ActionWaits, PlaceOK
<1>10. CASE WaitEnds
  BY <1>10, ActionWrites DEF WaitEnds
<1>11. CASE WriteEnds
  <2>1. CASE at <= NumPlain
    BY <1>11, <2>1, RuleAfter, RuleGoesOn DEF WriteEnds
  <2>2. CASE ~(at <= NumPlain)
    <3>1. at > NumPlain
      BY <1>1, <2>2 DEF PlaceOK
    <3> QED BY <1>11, <2>2, <3>1, ChainGoesOn DEF WriteEnds
  <2> QED BY <2>1, <2>2
<1>12. CASE StartScenarioRules
  BY <1>12 DEF StartScenarioRules, WorldOK, PlaceOK, place, Chain
<1>13. CASE StopScenarioRules
  BY <1>13 DEF StopScenarioRules, PlaceOK, place, Chain
<1>14. CASE \E d \in RuleDevices : DeviceChanges(d) \/ ValueChanges(d)
  BY <1>14 DEF DeviceChanges, ValueChanges, PlaceOK, place, Chain
<1>15. CASE TimePasses
  BY <1>2, <1>15, TimesAreNatural DEF TimePasses, PlaceOK, place, Chain
<1> QED BY <1>3, <1>4, <1>5, <1>6, <1>7, <1>8, <1>9, <1>10, <1>11, <1>12, <1>13, <1>14, <1>15
        DEF RulesNext, Tick

\* Every step keeps the types of the devices, the clock and the runs.
LEMMA WorldKept ==
  ASSUME WorldOK, PlaceOK, RulesNext
  PROVE  WorldOK'
<1> USE DEF world, histories
<1>1. Epoch \in Nat /\ MaxTime \in Nat /\ MaxStarts \in Nat
  BY RulesAssumption
<1>2. CASE TickBegins \/ PlainRests \/ ChainRests \/ ChainFires \/ ActsAtOnce \/ ActionWaits \/ WaitEnds
  BY <1>2 DEF TickBegins, PlainRests, ChainRests, ChainFires, ActsAtOnce, ActionWaits, WaitEnds, WorldOK
<1>3. ASSUME NEW d, value' = [value EXCEPT ![d] = 1]
      PROVE  value' \in [RuleDevices -> 0..1]
  <2>1. \A e \in RuleDevices : [value EXCEPT ![d] = 1][e] \in 0..1
    BY DEF WorldOK
  <2>2. [value EXCEPT ![d] = 1] \in [RuleDevices -> 0..1]
    BY <2>1 DEF WorldOK
  <2> QED BY <1>3, <2>2
<1>4. CASE PlainFires
  BY <1>3, <1>4 DEF PlainFires, WorldOK
<1>5. CASE WriteEnds
  <2>1. value' \in [RuleDevices -> 0..1] /\ late' \in Nat
    BY <1>3, <1>5 DEF WriteEnds, WorldOK
  <2> QED BY <1>5, <2>1 DEF WriteEnds, WorldOK
<1>6. CASE StartScenarioRules
  BY <1>1, <1>6 DEF StartScenarioRules, WorldOK
<1>7. CASE StopScenarioRules
  BY <1>7 DEF StopScenarioRules, WorldOK
<1>8. ASSUME NEW d \in RuleDevices, DeviceChanges(d)
      PROVE  WorldOK'
  BY <1>8 DEF DeviceChanges, WorldOK
<1>9. ASSUME NEW d \in RuleDevices, ValueChanges(d)
      PROVE  WorldOK'
  <2>1. value' \in [RuleDevices -> 0..1]
    BY <1>9 DEF ValueChanges, WorldOK
  <2> QED BY <1>9, <2>1 DEF ValueChanges, WorldOK
<1>10. CASE TimePasses
  BY <1>1, <1>10 DEF TimePasses, WorldOK
<1> QED BY <1>2, <1>4, <1>5, <1>6, <1>7, <1>8, <1>9, <1>10 DEF RulesNext, Tick

\* A run starts with a memory of no firing.
LEMMA FreshIsAMemory ==
  ASSUME NEW t \in Times
  PROVE  Fresh(t) \in Memories /\ Fresh(t).start = t
BY TimesAreNatural DEF Fresh, Memories, Unseen

\* The object of the tick.
LEMMA TurnIsARun ==
  ASSUME WorldOK, PlaceOK, doing # "asleep"
  PROVE  turn \in Runs /\ turn <= starts
BY RulesAssumption DEF WorldOK, PlaceOK, Runs

\* What a firing leaves as the mark of it is a time.
LEMMA StampIsATime ==
  ASSUME WorldOK, PlaceOK, MemoryOK, doing # "asleep"
  PROVE  Stamp \in Times /\ now \in Times
<1>1. turn \in Runs /\ now \in Nat /\ now \in Times
  BY RulesAssumption, TurnIsARun DEF WorldOK, Times
<1>2. memory[turn].start \in Times /\ memory[turn].start <= now
  BY <1>1 DEF MemoryOK, Memories
<1>3. now - memory[turn].start \in Times
  BY <1>1, <1>2, TimesAreNatural DEF Times
<1> QED BY <1>1, <1>3 DEF Stamp, Elapsed

\* Every step keeps the memory of each run: a time for each rule, no later than now.
LEMMA MemoryKept ==
  ASSUME WorldOK, PlaceOK, MemoryOK, WorldOK', RulesNext
  PROVE  MemoryOK'
<1> USE DEF world, histories
<1>1. now \in Nat /\ now \in Times
  BY RulesAssumption DEF WorldOK, Times
<1>2. ASSUME NEW m \in Memories, m.start <= now, NEW o \in Runs, now' = now,
             memory' = [memory EXCEPT ![o] = m]
      PROVE  MemoryOK'
  BY <1>2 DEF MemoryOK
<1>3. CASE /\ UNCHANGED memory
           /\ now' \in Nat /\ now <= now'
  <2>1. \A o \in Runs : memory[o].start \in Nat
    BY TimesAreNatural DEF MemoryOK, Memories
  <2> QED BY <1>1, <1>3, <2>1 DEF MemoryOK
<1>4. ASSUME doing # "asleep"
      PROVE  /\ turn \in Runs /\ memory[turn] \in Memories /\ memory[turn].start <= now
             /\ Seen(memory[turn]) \in Memories
             /\ Seen(memory[turn]).start = memory[turn].start
  BY <1>4, TurnIsARun, SeenKeeps DEF MemoryOK, WorldOK
<1>5. CASE PlainRests
  BY <1>2, <1>4, <1>5 DEF PlainRests
<1>6. CASE PlainFires
  <2>1. doing # "asleep"
    BY <1>6 DEF PlainFires
  <2>2. Stamp \in Times
    BY <2>1, StampIsATime
  <2> DEFINE m == Seen(memory[turn])
             n == [m EXCEPT !.last[at] = Stamp]
  <2>3. m \in Memories /\ m.start <= now
    BY <1>4, <2>1
  <2>4. n \in Memories /\ n.start = m.start
    <3> HIDE DEF m
    <3>1. m.last \in [Plain -> Times]
      BY <2>3 DEF Memories
    <3>2. [m.last EXCEPT ![at] = Stamp] \in [Plain -> Times]
      BY <2>2, <3>1
    <3> QED BY <2>3, <3>2 DEF Memories
  <2>5. memory' = [memory EXCEPT ![turn] = n]
    BY <1>6 DEF PlainFires, Marks
  <2>6. now' = now
    BY <1>6 DEF PlainFires
  <2> HIDE DEF m, n
  <2> QED BY <1>2, <1>4, <2>1, <2>3, <2>4, <2>5, <2>6
<1>7. CASE ChainFires
  <2>1. doing # "asleep"
    BY <1>7 DEF ChainFires
  <2> DEFINE m == memory[turn]
             n == [m EXCEPT !.chained[at - NumPlain] = began]
  <2>2. m \in Memories /\ m.start <= now
    BY <1>4, <2>1
  <2>3. n \in Memories /\ n.start = m.start
    <3> HIDE DEF m
    <3>1. m.chained \in [Chains -> Times]
      BY <2>2 DEF Memories
    <3>2. [m.chained EXCEPT ![at - NumPlain] = began] \in [Chains -> Times]
      BY <3>1 DEF PlaceOK
    <3> QED BY <2>2, <3>2 DEF Memories
  <2>4. memory' = [memory EXCEPT ![turn] = n]
    BY <1>7 DEF ChainFires
  <2>5. now' = now
    BY <1>7 DEF ChainFires
  <2> HIDE DEF m, n
  <2> QED BY <1>2, <1>4, <2>1, <2>2, <2>3, <2>4, <2>5
<1>8. CASE StartScenarioRules
  <2>1. starts' \in Runs
    BY <1>8, RulesAssumption DEF StartScenarioRules, WorldOK, Runs
  <2>2. Fresh(now) \in Memories /\ Fresh(now).start <= now
    BY <1>1, FreshIsAMemory
  <2> QED BY <1>2, <1>8, <2>1, <2>2 DEF StartScenarioRules
<1>9. CASE TickBegins \/ ChainRests \/ ActsAtOnce \/ ActionWaits \/ WaitEnds
  BY <1>1, <1>3, <1>9 DEF TickBegins, ChainRests, ActsAtOnce, ActionWaits, WaitEnds
<1>10. CASE WriteEnds
  BY <1>1, <1>3, <1>10 DEF WriteEnds
<1>11. CASE StopScenarioRules \/ \E d \in RuleDevices : DeviceChanges(d) \/ ValueChanges(d)
  BY <1>1, <1>3, <1>11 DEF StopScenarioRules, DeviceChanges, ValueChanges
<1>12. CASE TimePasses
  BY <1>1, <1>3, <1>12 DEF TimePasses
<1> QED BY <1>5, <1>6, <1>7, <1>8, <1>9, <1>10, <1>11, <1>12 DEF RulesNext, Tick

-----------------------------------------------------------------------------
(* Pauses *)

\* When a rule last fired, as its object remembers it.
LastFiring(m, r) ==
  IF PlainRules[r].kind = "timer" THEN m.start + m.last[r] ELSE m.last[r]

\* A history of firings at time t: the last is the one that is remembered (last), it is
\* not yet to come, and each came a pause after the one before.
Paced(f, last, pause, t) ==
  /\ f \in Seq(Times)
  /\ f # <<>> => f[Len(f)] = last /\ last <= t
  /\ \A i \in 1..(Len(f) - 1) : f[i + 1] >= f[i] + pause

FiresOK ==
  /\ fires \in [Runs -> [Plain -> Seq(Times)]]
  /\ \A o \in Runs, r \in Plain :
       /\ o > starts => fires[o][r] = <<>>
       /\ Paced(fires[o][r], LastFiring(memory[o], r), PlainRules[r].pause, now)

\* A firing that comes the pause after the last keeps the history paced.
LEMMA OneMoreFiring ==
  ASSUME NEW f, NEW last, NEW pause \in Nat, NEW t \in Times, Paced(f, last, pause, t),
         f # <<>> => t >= last + pause
  PROVE  Paced(Append(f, t), t, pause, t)
<1>1. f \in Seq(Times) /\ Len(f) \in Nat
  BY DEF Paced
<1> DEFINE g == Append(f, t)
<1>2. /\ g \in Seq(Times) /\ Len(g) = Len(f) + 1 /\ g[Len(f) + 1] = t
      /\ \A i \in 1..Len(f) : g[i] = f[i]
  BY <1>1, AppendProperties
<1>3. \A i \in 1..Len(f) : f[i] \in Nat
  BY <1>1, ElementOfSeq, TimesAreNatural
<1> HIDE DEF g
<1>4. t \in Nat
  BY TimesAreNatural
<1>5. ASSUME NEW i \in 1..(Len(g) - 1)
      PROVE  g[i + 1] >= g[i] + pause
  <2>1. CASE i = Len(f)
    <3>1. f # <<>>
      BY <1>1, <1>2, <2>1
    <3>2. g[i] = last /\ g[i + 1] = t
      BY <1>1, <1>2, <2>1, <3>1 DEF Paced
    <3> QED BY <3>1, <3>2
  <2>2. CASE i # Len(f)
    <3>1. i \in 1..(Len(f) - 1) /\ i \in 1..Len(f) /\ i + 1 \in 1..Len(f)
      BY <1>1, <1>2, <2>2
    <3> QED BY <1>2, <3>1 DEF Paced
  <2> QED BY <2>1, <2>2
<1>6. Paced(g, t, pause, t)
  BY <1>1, <1>2, <1>4, <1>5 DEF Paced
<1> QED BY <1>6 DEF g

\* The history of a rule stays paced while time goes on.
LEMMA PacedLater ==
  ASSUME NEW f, NEW last, NEW pause, NEW t \in Nat, NEW u \in Nat, t <= u,
         Paced(f, last, pause, t)
  PROVE  Paced(f, last, pause, u)
<1>1. ASSUME f # <<>>
      PROVE  f[Len(f)] \in Nat
  <2>1. f \in Seq(Times)
    BY DEF Paced
  <2>2. Len(f) \in 1..Len(f)
    BY <1>1, <2>1
  <2> QED BY <2>1, <2>2, ElementOfSeq, TimesAreNatural
<1> QED BY <1>1 DEF Paced

\* Nothing about the firings changes.
LEMMA NoFiring ==
  ASSUME FiresOK, fires' = fires, starts' = starts, now \in Nat, now' \in Nat, now <= now',
         \A o \in Runs : /\ memory'[o].start = memory[o].start
                         /\ memory'[o].last = memory[o].last
  PROVE  FiresOK'
<1>1. ASSUME NEW o \in Runs, NEW r \in Plain
      PROVE  /\ o > starts' => fires'[o][r] = <<>>
             /\ Paced(fires'[o][r], LastFiring(memory'[o], r), PlainRules[r].pause, now')
  <2>1. LastFiring(memory'[o], r) = LastFiring(memory[o], r)
    BY DEF LastFiring
  <2>2. Paced(fires[o][r], LastFiring(memory[o], r), PlainRules[r].pause, now)
    BY DEF FiresOK
  <2>3. Paced(fires[o][r], LastFiring(memory[o], r), PlainRules[r].pause, now')
    BY <2>2, PacedLater
  <2> QED BY <2>1, <2>3 DEF FiresOK
<1> QED BY <1>1 DEF FiresOK

\* Every step keeps each history paced, and its last firing the one the run remembers.
LEMMA FiresKept ==
  ASSUME WorldOK, PlaceOK, MemoryOK, FiresOK, WorldOK', RulesNext
  PROVE  FiresOK'
<1> USE DEF world, histories
<1>1. now \in Nat /\ now \in Times /\ now' \in Nat
  BY RulesAssumption DEF WorldOK, Times
<1>2. ASSUME doing # "asleep"
      PROVE  /\ turn \in Runs /\ turn <= starts /\ at \in Nat /\ at # 0
             /\ Seen(memory[turn]).start = memory[turn].start
             /\ Seen(memory[turn]).last = memory[turn].last
             /\ memory[turn] \in Memories /\ memory[turn].start <= now
  BY <1>2, TurnIsARun, SeenKeeps DEF MemoryOK, WorldOK, PlaceOK
<1>3. CASE UNCHANGED <<fires, starts, memory, now>>
  BY <1>1, <1>3, NoFiring
<1>4. CASE TickBegins \/ ChainRests \/ ActsAtOnce \/ ActionWaits \/ WaitEnds
  BY <1>3, <1>4 DEF TickBegins, ChainRests, ActsAtOnce, ActionWaits, WaitEnds
<1>5. CASE WriteEnds
  BY <1>3, <1>5 DEF WriteEnds
<1>6. CASE StopScenarioRules \/ \E d \in RuleDevices : DeviceChanges(d) \/ ValueChanges(d)
  BY <1>3, <1>6 DEF StopScenarioRules, DeviceChanges, ValueChanges
<1>7. CASE TimePasses
  BY <1>1, <1>7, NoFiring DEF TimePasses
<1>8. ASSUME NEW m, m.start = memory[turn].start, m.last = memory[turn].last,
             memory' = [memory EXCEPT ![turn] = m], UNCHANGED <<fires, starts, now>>
      PROVE  FiresOK'
  <2>1. ASSUME NEW o \in Runs
        PROVE  /\ memory'[o].start = memory[o].start
               /\ memory'[o].last = memory[o].last
    BY <1>8 DEF MemoryOK
  <2> QED BY <1>1, <1>8, <2>1, NoFiring
<1>9. CASE PlainRests
  BY <1>2, <1>8, <1>9 DEF PlainRests
<1>10. CASE ChainFires
  <2> DEFINE m == [memory[turn] EXCEPT !.chained[at - NumPlain] = began]
  <2>1. m.start = memory[turn].start /\ m.last = memory[turn].last
    BY <1>2, <1>10 DEF ChainFires, Memories
  <2>2. memory' = [memory EXCEPT ![turn] = m] /\ UNCHANGED <<fires, starts, now>>
    BY <1>10 DEF ChainFires
  <2> HIDE DEF m
  <2> QED BY <1>8, <2>1, <2>2
<1>11. CASE StartScenarioRules
  <2>1. starts' = starts + 1 /\ starts \in Nat /\ starts' \in Runs
    BY <1>11, RulesAssumption DEF StartScenarioRules, WorldOK, Runs
  <2>2. fires' = fires /\ now' = now /\ memory' = [memory EXCEPT ![starts'] = Fresh(now)]
    BY <1>11 DEF StartScenarioRules
  <2>3. ASSUME NEW o \in Runs, NEW r \in Plain
        PROVE  /\ o > starts' => fires'[o][r] = <<>>
               /\ Paced(fires'[o][r], LastFiring(memory'[o], r), PlainRules[r].pause, now')
    <3>1. o \in Nat /\ (o > starts => fires[o][r] = <<>>)
      BY DEF FiresOK, Runs
    <3>2. CASE o = starts'
      <4>1. fires'[o][r] = <<>>
        BY <2>1, <2>2, <3>1, <3>2
      <4> QED BY <2>1, <3>2, <4>1 DEF Paced
    <3>3. CASE o # starts'
      <4>1. memory'[o] = memory[o]
        BY <2>2, <3>3 DEF MemoryOK
      <4> QED BY <2>1, <2>2, <3>1, <4>1 DEF FiresOK
    <3> QED BY <3>2, <3>3
  <2> QED BY <2>2, <2>3 DEF FiresOK
<1>12. CASE PlainFires
  <2>1. doing # "asleep" /\ at <= NumPlain /\ Triggered /\ Marks /\ starts' = starts /\ now' = now
        /\ fires' = [fires EXCEPT ![turn][at] = Append(@, now)]
    BY <1>12 DEF PlainFires
  <2>2. at \in Plain
    BY <1>2, <2>1, RuleNumbers
  <2> DEFINE m == [Seen(memory[turn]) EXCEPT !.last[at] = Stamp]
             f == fires[turn][at]
             pause == PlainRules[at].pause
             last == LastFiring(memory[turn], at)
  <2>3. memory'[turn] = m /\ \A o \in Runs : o # turn => memory'[o] = memory[o]
    BY <1>2, <2>1 DEF Marks, MemoryOK
  <2>4. /\ m.start = memory[turn].start /\ m.last[at] = Stamp
        /\ \A r \in Plain : r # at => m.last[r] = memory[turn].last[r]
    <3> DEFINE n == Seen(memory[turn])
    <3>1. n \in Memories
      BY <1>2, <2>1, SeenKeeps DEF WorldOK
    <3>2. n.start = memory[turn].start /\ n.last = memory[turn].last
      BY <1>2, <2>1
    <3> HIDE DEF n
    <3>3. /\ [n EXCEPT !.last[at] = Stamp].start = n.start
          /\ [n EXCEPT !.last[at] = Stamp].last = [n.last EXCEPT ![at] = Stamp]
          /\ n.last \in [Plain -> Times]
      BY <3>1 DEF Memories
    <3> QED BY <2>2, <3>2, <3>3 DEF n
  <2>5. memory[turn].start \in Nat /\ memory[turn].last[at] \in Nat /\ pause \in Nat
    BY <1>2, <2>1, <2>2, RuleNumbers, TimesAreNatural DEF Memories
  <2>6. LastFiring(m, at) = now /\ now >= last + pause
    <3>1. CASE Rule.kind = "timer"
      BY <1>1, <2>1, <2>4, <2>5, <3>1 DEF LastFiring, Rule, Triggered, Stamp, Elapsed
    <3>2. CASE Rule.kind # "timer"
      <4>1. Rule.kind \in {"threshold", "change"}
        BY <2>2, <3>2, RuleNumbers DEF Rule, Kinds
      <4>2. Cooled
        BY <2>1, <4>1 DEF Triggered
      <4> QED BY <2>4, <3>2, <4>2 DEF LastFiring, Rule, Stamp, Cooled
    <3> QED BY <3>1, <3>2
  <2>7. Paced(f, last, pause, now)
    BY <1>2, <2>1, <2>2 DEF FiresOK
  <2>8. Paced(Append(f, now), now, pause, now)
    BY <1>1, <2>5, <2>6, <2>7, OneMoreFiring
  <2>9. /\ fires' \in [Runs -> [Plain -> Seq(Times)]]
        /\ fires'[turn][at] = Append(f, now)
        /\ \A o \in Runs, r \in Plain : <<o, r>> # <<turn, at>> => fires'[o][r] = fires[o][r]
    <3>1. Append(f, now) \in Seq(Times)
      BY <2>8 DEF Paced
    <3> DEFINE g == Append(f, now)
    <3>2. fires' = [fires EXCEPT ![turn][at] = g]
      BY <2>1
    <3> HIDE DEF g
    <3> QED BY <1>2, <2>1, <2>2, <3>1, <3>2 DEF FiresOK, g
  <2>10. ASSUME NEW o \in Runs, NEW r \in Plain
         PROVE  /\ o > starts' => fires'[o][r] = <<>>
                /\ Paced(fires'[o][r], LastFiring(memory'[o], r), PlainRules[r].pause, now')
    <3> HIDE DEF m
    <3>1. CASE o = turn /\ r = at
      <4>1. ~(o > starts)
        BY <1>2, <2>1, <3>1 DEF WorldOK, Runs
      <4> QED BY <2>1, <2>3, <2>6, <2>8, <2>9, <3>1, <4>1
    <3>2. CASE ~(o = turn /\ r = at)
      <4>1. LastFiring(memory'[o], r) = LastFiring(memory[o], r)
        BY <2>3, <2>4, <3>2 DEF LastFiring
      <4>2. fires'[o][r] = fires[o][r]
        BY <2>9, <3>2
      <4> QED BY <2>1, <4>1, <4>2 DEF FiresOK
    <3> QED BY <3>1, <3>2
  <2> QED BY <2>9, <2>10 DEF FiresOK
<1> QED BY <1>4, <1>5, <1>6, <1>7, <1>9, <1>10, <1>11, <1>12 DEF RulesNext, Tick

-----------------------------------------------------------------------------
(* Late writes *)

\* While a device is ONLINE no write is late, and after a late write the tick is in no
\* other: it asks for the status of a device before it begins to write.
LateOK ==
  /\ late \in 0..1
  /\ late = 1 => up = {} /\ doing # "writing"

\* Going on to a rule or an action ends a write.
LEMMA GoesOnAwake == \A r : GoTo(r) => doing' # "writing"
BY DEF GoTo, Rest

LEMMA NextActionIsNoWrite == NextAction => doing' # "writing"
BY GoesOnAwake DEF NextAction

\* Every step keeps to one late write: after it the tick finds its scenario stopped.
LEMMA LateKept ==
  ASSUME LateOK, RulesNext
  PROVE  LateOK'
<1> USE DEF world, histories, place
<1>1. CASE TickBegins \/ ChainFires \/ ActionWaits
  BY <1>1 DEF TickBegins, ChainFires, ActionWaits, LateOK
<1>2. CASE PlainRests \/ ChainRests
  BY <1>2, GoesOnAwake DEF PlainRests, ChainRests, LateOK
<1>3. CASE PlainFires
  BY <1>3, GoesOnAwake DEF PlainFires, LateOK
<1>4. CASE ActsAtOnce \/ WaitEnds
  BY <1>4, NextActionIsNoWrite DEF ActsAtOnce, WaitEnds, Writes, LateOK
<1>5. CASE WriteEnds
  BY <1>5, GoesOnAwake, NextActionIsNoWrite DEF WriteEnds, LateOK
<1>6. CASE StartScenarioRules \/ StopScenarioRules
  BY <1>6 DEF StartScenarioRules, StopScenarioRules, LateOK
<1>7. CASE \E d \in RuleDevices : DeviceChanges(d) \/ ValueChanges(d)
  BY <1>7 DEF DeviceChanges, ValueChanges, LateOK
<1>8. CASE TimePasses
  BY <1>8 DEF TimePasses, LateOK
<1> QED BY <1>1, <1>2, <1>3, <1>4, <1>5, <1>6, <1>7, <1>8 DEF RulesNext, Tick

-----------------------------------------------------------------------------
(* The theorems *)

RulesInv == WorldOK /\ MemoryOK /\ PlaceOK /\ FiresOK /\ LateOK

\* The invariant of the rules at the start, and in every step.
LEMMA RulesBegin == RulesInit => RulesInv
<1> SUFFICES ASSUME RulesInit PROVE RulesInv
  OBVIOUS
<1>1. Epoch \in Nat /\ MaxTime \in Nat /\ MaxStarts \in Nat /\ 0 \in Times /\ NumRules \in Nat
  BY RulesAssumption, TimesAreNatural, RuleNumbers
<1>2. WorldOK /\ PlaceOK /\ LateOK
  BY <1>1 DEF RulesInit, WorldOK, PlaceOK, LateOK
<1>3. MemoryOK
  BY <1>1, FreshIsAMemory DEF RulesInit, MemoryOK
<1>4. fires \in [Runs -> [Plain -> Seq(Times)]]
      /\ \A o \in Runs, r \in Plain : fires[o][r] = <<>>
  BY DEF RulesInit
<1>5. FiresOK
  BY <1>4 DEF FiresOK, Paced
<1> QED BY <1>2, <1>3, <1>5 DEF RulesInv

LEMMA RulesGoOn == RulesInv /\ [RulesNext]_rulesVars => RulesInv'
<1> SUFFICES ASSUME RulesInv, [RulesNext]_rulesVars PROVE RulesInv'
  OBVIOUS
<1>1. CASE RulesNext
  <2>1. WorldOK'
    BY <1>1, WorldKept DEF RulesInv
  <2> QED BY <1>1, <2>1, MemoryKept, PlaceKept, FiresKept, LateKept DEF RulesInv
<1>2. CASE UNCHANGED rulesVars
  BY <1>2 DEF rulesVars, world, place, histories, RulesInv, WorldOK, MemoryOK, PlaceOK, FiresOK,
              LateOK, Chain
<1> QED BY <1>1, <1>2

\* The state of the rules keeps its types: the tick is at a rule that exists, at an action
\* its chain has, for a run that was started, and every time an object keeps is one the
\* clock has shown, or an interval between two of them.
THEOREM RuleTypes == RulesSpec => []RulesTypeOK
<1>1. RulesInv => RulesTypeOK
  BY DEF RulesInv, WorldOK, MemoryOK, PlaceOK, FiresOK, LateOK, RulesTypeOK, Memories
<1> QED BY <1>1, RulesBegin, RulesGoOn, PTL DEF RulesSpec

\* However the ticks of one run are delayed by their writes and waits, and whatever stops,
\* restarts, writes and changes of devices come between, two firings of one plain rule of
\* one run of the scenario are its pause apart.
THEOREM PausesAreKept == RulesSpec => []PausesKept
<1>1. RulesInv => PausesKept
  BY DEF RulesInv, FiresOK, Paced, PausesKept
<1> QED BY <1>1, RulesBegin, RulesGoOn, PTL DEF RulesSpec

\* Once no device is ONLINE, a tick that outlives its scenario changes one point at most.
THEOREM OneLateWrite == RulesSpec => []AtMostOneLateWrite
<1>1. RulesInv => AtMostOneLateWrite
  BY DEF RulesInv, LateOK, AtMostOneLateWrite
<1> QED BY <1>1, RulesBegin, RulesGoOn, PTL DEF RulesSpec

-----------------------------------------------------------------------------
(* The spreading of faults: a check and a pass, visit by visit *)

\* Of some natural numbers there is a least one.
LEMMA LeastNumber ==
  ASSUME NEW S \in SUBSET Nat, S # {}
  PROVE  \E n \in S : \A m \in S : n <= m
<1>1. PICK n \in S : \A m \in S : ~ (<<m, n>> \in OpToRel(<, Nat))
  BY NatLessThanWellFounded, WFMin
<1>2. \A m \in S : ~(m < n)
  BY <1>1 DEF OpToRel
<1> QED BY <1>2

Begun(m) == [marks |-> m, spread |-> {}, calm |-> {}, failed |-> FALSE, stuck |-> FALSE]

\* The check of device d against the first n rules, rule by rule.
Follows(u, m, d, n) ==
  u = [i \in 0..n |-> IF i = 0 THEN Begun(m) ELSE Visit(u[i - 1], d, i)]

Outcome(c) == IF c.failed THEN [c EXCEPT !.spread = {}] ELSE [c EXCEPT !.failed = c.stuck]

\* The visits of a check, rule by rule, exist as a function: were there a number of rules
\* without, there would be a least one, and one visit more than the number before it.
LEMMA VisitsExist ==
  ASSUME NEW m, NEW d, NEW n \in Nat
  PROVE  \E u : Follows(u, m, d, n)
<1> DEFINE S == {k \in Nat : ~ \E u : Follows(u, m, d, k)}
<1>1. ASSUME S # {}
      PROVE  FALSE
  <2>1. PICK k \in S : \A j \in S : k <= j
    BY <1>1, LeastNumber
  <2>2. CASE k = 0
    <3> DEFINE u == [i \in 0..0 |-> Begun(m)]
    <3>1. Follows(u, m, d, 0)
      BY DEF Follows
    <3> QED BY <2>1, <2>2, <3>1
  <2>3. CASE k # 0
    <3>1. k - 1 \in Nat /\ k - 1 \notin S
      BY <2>1, <2>3
    <3>2. PICK u : Follows(u, m, d, k - 1)
      BY <3>1
    <3> DEFINE w == [i \in 0..k |-> IF i = k THEN Visit(u[k - 1], d, k) ELSE u[i]]
    <3>3. ASSUME NEW i \in 0..k
          PROVE  w[i] = IF i = 0 THEN Begun(m) ELSE Visit(w[i - 1], d, i)
      <4>1. CASE i = k
        BY <2>1, <2>3, <4>1
      <4>2. CASE i # k
        <5>1. i \in 0..(k - 1) /\ w[i] = u[i] /\ (i # 0 => w[i - 1] = u[i - 1])
          BY <2>1, <4>2
        <5>2. u[i] = IF i = 0 THEN Begun(m) ELSE Visit(u[i - 1], d, i)
          BY <3>2, <5>1 DEF Follows
        <5> QED BY <5>1, <5>2
      <4> QED BY <4>1, <4>2
    <3>4. w = [i \in 0..k |-> w[i]]
      OBVIOUS
    <3> HIDE DEF w
    <3>5. w = [i \in 0..k |-> IF i = 0 THEN Begun(m) ELSE Visit(w[i - 1], d, i)]
      BY <3>3, <3>4
    <3>6. Follows(w, m, d, k)
      BY <3>5 DEF Follows
    <3> QED BY <2>1, <3>6
  <2> QED BY <2>2, <2>3
<1> QED BY <1>1

\* So Check is the outcome of the last visit.
LEMMA CheckEnds ==
  ASSUME NEW m, NEW d, Len(rules) \in Nat
  PROVE  \E u : Follows(u, m, d, Len(rules)) /\ Check(m, d) = Outcome(u[Len(rules)])
<1> DEFINE v == CHOOSE u : Follows(u, m, d, Len(rules))
<1>1. Follows(v, m, d, Len(rules))
  BY VisitsExist
<1>2. Check(m, d) = Outcome(v[Len(rules)])
  BY DEF Check, Follows, Outcome, Begun
<1> QED BY <1>1, <1>2

-----------------------------------------------------------------------------
(* What a check comes to *)

Checks == [marks : SUBSET Keys, spread : SUBSET (1..MaxAdded), calm : SUBSET (1..MaxAdded),
           failed : BOOLEAN, stuck : BOOLEAN]

\* A visit returns a set of marks, and rules that exist.
LEMMA VisitKeepsTypes ==
  ASSUME SpreadTypeOK, NEW c \in Checks, NEW d \in Names, NEW i \in DOMAIN rules
  PROVE  Visit(c, d, i) \in Checks
<1>1. /\ i \in 1..MaxRules /\ rules[i].number \in 1..MaxAdded /\ rules[i].effect \in Effects
      /\ rules[i].source \in Points /\ rules[i].target \in Points
  <2>1. rules \in Seq(RuleRecords) /\ Len(rules) \in Nat /\ Len(rules) <= MaxRules
        /\ MaxRules \in Nat /\ i \in 1..Len(rules)
    BY SpreadAssumption DEF SpreadTypeOK
  <2>2. rules[i] \in RuleRecords
    BY <2>1, ElementOfSeq
  <2> QED BY <2>1, <2>2 DEF RuleRecords
<1>2. Key(i) \in Keys
  BY <1>1 DEF Key, Keys
<1>3. reading[d][rules[i].source] \in {"none", "calm", "met"}
  BY <1>1 DEF SpreadTypeOK
<1> DEFINE n == rules[i].number
           k == rules[i].effect
<1>4. n \in 1..MaxAdded
  BY <1>1
<1>5. c.marks \in SUBSET Keys /\ c.spread \in SUBSET (1..MaxAdded)
      /\ c.calm \in SUBSET (1..MaxAdded) /\ c.failed \in BOOLEAN /\ c.stuck \in BOOLEAN
  BY DEF Checks
<1>6. /\ Mark(c.marks, i) \in SUBSET Keys /\ Unmark(c.marks, i) \in SUBSET Keys
      /\ c.spread \cup {n} \in SUBSET (1..MaxAdded) /\ c.calm \cup {n} \in SUBSET (1..MaxAdded)
  BY <1>2, <1>4, <1>5 DEF Mark, Unmark
<1> HIDE DEF n, k
<1>7. CASE c.failed \/ reading[d][rules[i].source] = "none"
  BY <1>7 DEF Visit
<1>8. CASE ~c.failed /\ reading[d][rules[i].source] = "calm"
  <2>1. Visit(c, d, i) = [c EXCEPT !.marks = Unmark(@, i), !.calm = @ \cup {n}]
    BY <1>8 DEF Visit, n
  <2> QED BY <1>6, <2>1 DEF Checks
<1>9. CASE ~c.failed /\ reading[d][rules[i].source] = "met"
  <2>1. CASE Key(i) \in c.marks
    BY <1>9, <2>1 DEF Visit
  <2>2. CASE Key(i) \notin c.marks
    <3> DEFINE spread == IF c.stuck \/ k = "foreign" THEN c.spread ELSE c.spread \cup {n}
    <3>1. Visit(c, d, i) = [c EXCEPT !.marks = Mark(@, i), !.failed = (k = "unknown"),
                                     !.stuck = @ \/ k = "foreign", !.spread = spread]
      BY <1>9, <2>2 DEF Visit, n, k
    <3>2. spread \in SUBSET (1..MaxAdded)
      BY <1>5, <1>6
    <3>3. (k = "unknown") \in BOOLEAN /\ (c.stuck \/ k = "foreign") \in BOOLEAN
      OBVIOUS
    <3> HIDE DEF spread
    <3> QED BY <1>6, <3>1, <3>2, <3>3 DEF Checks
  <2> QED BY <2>1, <2>2
<1> QED BY <1>3, <1>7, <1>8, <1>9

\* Every check keeps the marks among the keys, and returns rules that exist.
LEMMA ChecksKeepTypes ==
  ASSUME SpreadTypeOK, NEW m \in SUBSET Keys, NEW d \in Names
  PROVE  Check(m, d) \in Checks
<1>1. Len(rules) \in Nat /\ DOMAIN rules = 1..Len(rules)
  BY DEF SpreadTypeOK
<1>2. PICK u : Follows(u, m, d, Len(rules)) /\ Check(m, d) = Outcome(u[Len(rules)])
  BY <1>1, CheckEnds
<1>3. \A i \in 0..Len(rules) : u[i] = IF i = 0 THEN Begun(m) ELSE Visit(u[i - 1], d, i)
  BY <1>2 DEF Follows
<1> DEFINE S == {i \in 0..Len(rules) : u[i] \notin Checks}
<1>4. ASSUME S # {} PROVE FALSE
  <2>1. S \in SUBSET Nat
    BY <1>1
  <2>2. PICK i \in S : \A j \in S : i <= j
    BY <1>4, <2>1, LeastNumber
  <2>3. CASE i = 0
    <3>1. u[0] = Begun(m)
      BY <1>1, <1>3
    <3>2. Begun(m) \in Checks
      BY DEF Begun, Checks
    <3> QED BY <2>2, <2>3, <3>1, <3>2
  <2>4. CASE i # 0
    <3>1. i - 1 \in 0..Len(rules) /\ i \in DOMAIN rules /\ i - 1 \notin S
      BY <1>1, <2>2, <2>4
    <3>2. u[i - 1] \in Checks /\ u[i] = Visit(u[i - 1], d, i)
      BY <1>3, <2>2, <2>4, <3>1
    <3> QED BY <2>2, <3>1, <3>2, VisitKeepsTypes
  <2> QED BY <2>3, <2>4
<1>5. u[Len(rules)] \in Checks
  BY <1>1, <1>4
<1>6. \A c \in Checks : Outcome(c) \in Checks
  BY DEF Outcome, Checks
<1> QED BY <1>2, <1>5, <1>6

-----------------------------------------------------------------------------
(* What a pass comes to *)

Passes == [marks : SUBSET Keys, spread : SUBSET (Names \X (1..MaxAdded)),
           calm : SUBSET (Names \X (1..MaxAdded)), failed : BOOLEAN]

\* On with the pass, from p to machine k.
OnTo(p, k) ==
  LET c == Check(p.marks, Machines[k]) IN
  [marks |-> c.marks, failed |-> c.failed,
   spread |-> p.spread \cup ({Machines[k]} \X c.spread),
   calm |-> p.calm \cup ({Machines[k]} \X c.calm)]

\* The pass over the first n machines, machine by machine.
Goes(u, n) ==
  u = [k \in 0..n |->
        IF k = 0 \/ u[k - 1].failed THEN IF k = 0 THEN Nothing ELSE u[k - 1]
        ELSE OnTo(u[k - 1], k)]

\* A pass over the devices exists as a function of their number, by the same argument.
LEMMA GoingExists ==
  ASSUME NEW n \in Nat
  PROVE  \E u : Goes(u, n)
<1> DEFINE S == {k \in Nat : ~ \E u : Goes(u, k)}
<1>1. ASSUME S # {}
      PROVE  FALSE
  <2>1. PICK k \in S : \A j \in S : k <= j
    BY <1>1, LeastNumber
  <2>2. CASE k = 0
    <3> DEFINE u == [i \in 0..0 |-> Nothing]
    <3>1. Goes(u, 0)
      BY DEF Goes
    <3> QED BY <2>1, <2>2, <3>1
  <2>3. CASE k # 0
    <3>1. k - 1 \in Nat /\ k - 1 \notin S
      BY <2>1, <2>3
    <3>2. PICK u : Goes(u, k - 1)
      BY <3>1
    <3> DEFINE NextOf(v, i) == IF i = 0 \/ v[i - 1].failed
                               THEN IF i = 0 THEN Nothing ELSE v[i - 1]
                               ELSE OnTo(v[i - 1], i)
               w == [i \in 0..k |-> IF i = k THEN NextOf(u, k) ELSE u[i]]
    <3>3. ASSUME NEW i \in 0..k
          PROVE  w[i] = NextOf(w, i)
      <4>1. CASE i = k
        BY <2>1, <2>3, <4>1
      <4>2. CASE i # k
        <5>1. i \in 0..(k - 1) /\ w[i] = u[i] /\ (i # 0 => w[i - 1] = u[i - 1])
          BY <2>1, <4>2
        <5>2. u[i] = NextOf(u, i)
          BY <3>2, <5>1 DEF Goes
        <5> QED BY <5>1, <5>2
      <4> QED BY <4>1, <4>2
    <3>4. w = [i \in 0..k |-> w[i]]
      OBVIOUS
    <3> HIDE DEF w
    <3>5. w = [i \in 0..k |-> NextOf(w, i)]
      BY <3>3, <3>4
    <3>6. Goes(w, k)
      BY <3>5 DEF Goes
    <3> QED BY <2>1, <3>6
  <2> QED BY <2>2, <2>3
<1> QED BY <1>1

\* So Pass is what the last device leaves.
LEMMA PassEnds ==
  \E u : Goes(u, Len(Machines)) /\ Pass = u[Len(Machines)]
<1> DEFINE v == CHOOSE u : Goes(u, Len(Machines))
<1>1. Goes(v, Len(Machines))
  BY SpreadAssumption, GoingExists
<1>2. Pass = v[Len(Machines)]
  BY DEF Pass, Goes, OnTo
<1> QED BY <1>1, <1>2

\* One device more keeps the types of a pass.
LEMMA OnToKeepsTypes ==
  ASSUME SpreadTypeOK, NEW p \in Passes, NEW k \in 1..Len(Machines)
  PROVE  OnTo(p, k) \in Passes
<1> DEFINE c == Check(p.marks, Machines[k])
           d == Machines[k]
<1>1. d \in Names
  BY SpreadAssumption DEF Names
<1>2. p.marks \in SUBSET Keys
  BY DEF Passes
<1>3. c \in Checks
  BY <1>1, <1>2, ChecksKeepTypes
<1>4. OnTo(p, k) = [marks |-> c.marks, failed |-> c.failed,
                    spread |-> p.spread \cup ({d} \X c.spread),
                    calm |-> p.calm \cup ({d} \X c.calm)]
  BY DEF OnTo
<1> HIDE DEF c, d
<1>5. \A x \in SUBSET (1..MaxAdded) : {d} \X x \in SUBSET (Names \X (1..MaxAdded))
  BY <1>1
<1>6. /\ c.marks \in SUBSET Keys /\ c.failed \in BOOLEAN
      /\ c.spread \in SUBSET (1..MaxAdded) /\ c.calm \in SUBSET (1..MaxAdded)
  BY <1>3 DEF Checks
<1>7. p.spread \cup ({d} \X c.spread) \in SUBSET (Names \X (1..MaxAdded))
      /\ p.calm \cup ({d} \X c.calm) \in SUBSET (Names \X (1..MaxAdded))
  BY <1>5, <1>6 DEF Passes
<1> QED BY <1>4, <1>6, <1>7 DEF Passes

\* Hence those of the whole pass.
LEMMA PassKeepsTypes ==
  ASSUME SpreadTypeOK
  PROVE  Pass \in Passes
<1>1. Len(Machines) \in Nat /\ DOMAIN Machines = 1..Len(Machines)
  BY SpreadAssumption
<1>2. PICK u : Goes(u, Len(Machines)) /\ Pass = u[Len(Machines)]
  BY PassEnds
<1>4. \A k \in 0..Len(Machines) :
        u[k] = IF k = 0 \/ u[k - 1].failed THEN IF k = 0 THEN Nothing ELSE u[k - 1]
               ELSE OnTo(u[k - 1], k)
  BY <1>2 DEF Goes
<1> DEFINE S == {k \in 0..Len(Machines) : u[k] \notin Passes}
<1>5. ASSUME S # {} PROVE FALSE
  <2>1. S \in SUBSET Nat
    BY <1>1
  <2>2. PICK k \in S : \A j \in S : k <= j
    BY <1>5, <2>1, LeastNumber
  <2>3. CASE k = 0
    <3>1. u[0] = Nothing
      BY <1>1, <1>4
    <3>2. Nothing \in Passes
      BY DEF Nothing, Passes, SpreadTypeOK
    <3> QED BY <2>2, <2>3, <3>1, <3>2
  <2>4. CASE k # 0
    <3>1. k - 1 \in 0..Len(Machines) /\ k \in 1..Len(Machines) /\ k - 1 \notin S
      BY <1>1, <2>2, <2>4
    <3>2. u[k - 1] \in Passes /\ OnTo(u[k - 1], k) \in Passes
      BY <3>1, OnToKeepsTypes
    <3>3. u[k] = u[k - 1] \/ u[k] = OnTo(u[k - 1], k)
      BY <1>4, <2>2, <2>4
    <3> QED BY <2>2, <3>2, <3>3
  <2> QED BY <2>3, <2>4
<1> QED BY <1>1, <1>2, <1>5

-----------------------------------------------------------------------------
(* Types *)

\* Every step keeps the types.
LEMMA SpreadTypesKept ==
  ASSUME SpreadTypeOK, SpreadNext
  PROVE  SpreadTypeOK'
<1>1. MaxRules \in Nat /\ MaxAdded \in Nat /\ MaxFaults \in Nat
  BY SpreadAssumption
<1>2. CASE SpreadFaults
  <2> DEFINE p == Pass
  <2>1. p \in Passes
    BY PassKeepsTypes
  <2>2. /\ \A f \in p.spread : injected[f[1]][f[2]] < MaxFaults
        /\ marks' = p.marks
        /\ injected' = [d \in Names |-> [n \in 1..MaxAdded |->
                          IF <<d, n>> \in p.spread THEN injected[d][n] + 1 ELSE injected[d][n]]]
        /\ unrecovered' = (unrecovered \ p.calm) \cup p.spread
        /\ mishaps' \in {mishaps, mishaps \cup {"failure"}}
        /\ UNCHANGED <<rules, added, reading>>
    BY <1>2 DEF SpreadFaults
  <2> HIDE DEF p
  <2>3. ASSUME NEW d \in Names, NEW n \in 1..MaxAdded
        PROVE  injected'[d][n] \in 0..MaxFaults
    <3>1. injected[d][n] \in 0..MaxFaults
      BY DEF SpreadTypeOK
    <3>2. <<d, n>> \in p.spread => injected[d][n] < MaxFaults
      BY <2>2
    <3> QED BY <1>1, <2>2, <3>1, <3>2
  <2>4. injected' \in [Names -> [1..MaxAdded -> 0..MaxFaults]]
    BY <2>2, <2>3
  <2> QED BY <2>1, <2>2, <2>4 DEF SpreadTypeOK, Passes
<1>3. ASSUME NEW s \in Points, NEW t \in Points, NEW effect \in Effects, AddRule(s, t, effect)
      PROVE  SpreadTypeOK'
  <2> DEFINE r == [number |-> added', source |-> s, target |-> t, effect |-> effect]
  <2>1. added' = added + 1 /\ added' \in 1..MaxAdded /\ Len(rules) < MaxRules
        /\ rules' = Append(rules, r)
        /\ UNCHANGED <<marks, reading, injected, unrecovered, mishaps>>
    BY <1>1, <1>3 DEF AddRule, SpreadTypeOK
  <2>2. r \in RuleRecords
    BY <2>1 DEF RuleRecords
  <2> HIDE DEF r
  <2>3. rules' \in Seq(RuleRecords) /\ Len(rules') = Len(rules) + 1 /\ Len(rules) \in Nat
    BY <2>1, <2>2, AppendProperties DEF SpreadTypeOK
  <2> QED BY <1>1, <2>1, <2>3 DEF SpreadTypeOK
<1>4. ASSUME NEW i \in DOMAIN rules, RemoveRule(i)
      PROVE  SpreadTypeOK'
  <2> DEFINE front == SubSeq(rules, 1, i - 1)
             back == SubSeq(rules, i + 1, Len(rules))
  <2>1. rules \in Seq(RuleRecords) /\ Len(rules) \in Nat /\ Len(rules) <= MaxRules
        /\ i \in 1..Len(rules)
    BY DEF SpreadTypeOK
  <2>2. front \in Seq(RuleRecords) /\ back \in Seq(RuleRecords)
        /\ Len(front) = i - 1 /\ Len(back) = Len(rules) - i
    BY <2>1, SubSeqProperties
  <2>3. rules' = front \o back
        /\ mishaps' = mishaps \cup {"removal"}
        /\ UNCHANGED <<added, marks, reading, injected, unrecovered>>
    BY <1>4 DEF RemoveRule
  <2> HIDE DEF front, back
  <2>4. rules' \in Seq(RuleRecords) /\ Len(rules') = Len(rules) - 1
    BY <2>1, <2>2, <2>3, ConcatProperties
  <2> QED BY <1>1, <2>1, <2>3, <2>4 DEF SpreadTypeOK
<1>5. ASSUME NEW d \in Names, NEW q \in Points, ReadingChanges(d, q)
      PROVE  SpreadTypeOK'
  <2>1. reading' \in [Names -> [Points -> {"none", "calm", "met"}]]
    BY <1>5 DEF ReadingChanges, SpreadTypeOK
  <2> QED BY <1>5, <2>1 DEF ReadingChanges, SpreadTypeOK
<1> QED BY <1>2, <1>3, <1>4, <1>5 DEF SpreadNext

-----------------------------------------------------------------------------
(* Marks and faults, as long as the list of rules only grows *)

\* The rules in the list are all that were added.
Grown ==
  /\ Len(rules) = added
  /\ \A i \in DOMAIN rules : rules[i].number = i
  /\ \A k \in marks : \E i \in DOMAIN rules : k = Key(i)

\* What device d shows to rule i.
Reads(d, i) == reading[d][rules[i].source]

\* A check of device d from the marks m, after rules 1 to n: which marks it has set and
\* taken away.
Visited(c, m, d, n) ==
  /\ \A i \in c.spread : i \in 1..n /\ Reads(d, i) = "met" /\ Key(i) \notin m /\ Key(i) \in c.marks
  /\ \A i \in c.calm : i \in 1..n /\ Reads(d, i) = "calm" /\ Key(i) \notin c.marks
  /\ \A i \in DOMAIN rules : Key(i) \in m /\ Key(i) \notin c.marks => i \in c.calm
  /\ \A i \in DOMAIN rules :
       Key(i) \in c.marks /\ Key(i) \notin m => Reads(d, i) = "met" /\ (c.stuck \/ i \in c.spread)
  /\ \A k \in c.marks : k \in m \/ \E i \in DOMAIN rules : k = Key(i)

\* Rules have keys of their own.
LEMMA KeysDiffer == \A i, j : Key(i) = Key(j) => i = j
BY DEF Key

\* What a visit does to the mark of its rule, and to no other.
LEMMA VisitShows ==
  ASSUME SpreadTypeOK, Grown, NEW m \in SUBSET Keys, NEW d \in Names, NEW i \in DOMAIN rules,
         NEW c \in Checks, Visited(c, m, d, i - 1)
  PROVE  Visited(Visit(c, d, i), m, d, i)
<1>1. rules[i].number = i /\ i \in Nat /\ i # 0 /\ DOMAIN rules \subseteq Nat
  BY DEF Grown, SpreadTypeOK
<1>2. Reads(d, i) \in {"none", "calm", "met"}
  <2>1. rules[i] \in RuleRecords
    BY ElementOfSeq DEF SpreadTypeOK
  <2> QED BY <2>1 DEF Reads, SpreadTypeOK, RuleRecords
<1>3. \A j : j \in 1..(i - 1) <=> j \in 1..i /\ j # i
  BY <1>1
<1>4. i \in 1..i /\ i \notin c.spread /\ i \notin c.calm
  BY <1>1, <1>3 DEF Visited
<1>5. CASE c.failed \/ Reads(d, i) = "none"
  <2>1. Visit(c, d, i) = c
    BY <1>5 DEF Visit, Reads
  <2> QED BY <1>3, <2>1 DEF Visited
<1>6. CASE ~c.failed /\ Reads(d, i) = "calm"
  <2> DEFINE e == Visit(c, d, i)
  <2>1. e = [c EXCEPT !.marks = Unmark(@, i), !.calm = @ \cup {i}]
    BY <1>1, <1>6 DEF Visit, Reads
  <2>2. e.marks = c.marks \ {Key(i)} /\ e.calm = c.calm \cup {i} /\ e.spread = c.spread
        /\ e.stuck = c.stuck
    BY <2>1 DEF Unmark, Checks
  <2> HIDE DEF e
  <2>3. ASSUME NEW j \in e.spread
        PROVE  j \in 1..i /\ Reads(d, j) = "met" /\ Key(j) \notin m /\ Key(j) \in e.marks
    BY <1>3, <1>4, <2>2, KeysDiffer DEF Visited
  <2>4. ASSUME NEW j \in e.calm
        PROVE  j \in 1..i /\ Reads(d, j) = "calm" /\ Key(j) \notin e.marks
    BY <1>3, <1>4, <1>6, <2>2 DEF Visited
  <2>5. ASSUME NEW j \in DOMAIN rules
        PROVE  /\ Key(j) \in m /\ Key(j) \notin e.marks => j \in e.calm
               /\ Key(j) \in e.marks /\ Key(j) \notin m =>
                    Reads(d, j) = "met" /\ (e.stuck \/ j \in e.spread)
    BY <2>2, KeysDiffer DEF Visited
  <2>6. \A k \in e.marks : k \in m \/ \E j \in DOMAIN rules : k = Key(j)
    BY <2>2 DEF Visited
  <2>7. Visited(e, m, d, i)
    BY <2>3, <2>4, <2>5, <2>6 DEF Visited
  <2> QED BY <2>7 DEF e
<1>7. CASE ~c.failed /\ Reads(d, i) = "met"
  <2>1. CASE Key(i) \in c.marks
    <3>1. Visit(c, d, i) = c
      BY <1>7, <2>1 DEF Visit, Reads
    <3> QED BY <1>3, <3>1 DEF Visited
  <2>2. CASE Key(i) \notin c.marks
    <3> DEFINE e == Visit(c, d, i)
    <3> DEFINE odd == c.stuck \/ rules[i].effect = "foreign"
    <3>1. e = [c EXCEPT !.marks = Mark(@, i), !.failed = (rules[i].effect = "unknown"),
                        !.stuck = odd, !.spread = IF odd THEN @ ELSE @ \cup {i}]
      BY <1>1, <1>7, <2>2 DEF Visit, Reads
    <3>2. /\ e.marks = c.marks \cup {Key(i)} /\ e.calm = c.calm
          /\ e.stuck = odd /\ e.spread = IF odd THEN c.spread ELSE c.spread \cup {i}
      BY <3>1 DEF Mark, Checks
    <3> HIDE DEF e
    <3>3. Key(i) \notin m
      BY <1>4, <2>2 DEF Visited
    <3>4. ASSUME NEW j \in e.spread
          PROVE  j \in 1..i /\ Reads(d, j) = "met" /\ Key(j) \notin m /\ Key(j) \in e.marks
      BY <1>3, <1>4, <1>7, <3>2, <3>3 DEF Visited
    <3>5. ASSUME NEW j \in e.calm
          PROVE  j \in 1..i /\ Reads(d, j) = "calm" /\ Key(j) \notin e.marks
      BY <1>3, <1>4, <3>2, KeysDiffer DEF Visited
    <3>6. ASSUME NEW j \in DOMAIN rules
          PROVE  /\ Key(j) \in m /\ Key(j) \notin e.marks => j \in e.calm
                 /\ Key(j) \in e.marks /\ Key(j) \notin m =>
                      Reads(d, j) = "met" /\ (e.stuck \/ j \in e.spread)
      BY <1>7, <3>2, KeysDiffer DEF Visited
    <3>7. \A k \in e.marks : k \in m \/ \E j \in DOMAIN rules : k = Key(j)
      BY <3>2 DEF Visited
    <3>8. Visited(e, m, d, i)
      BY <3>4, <3>5, <3>6, <3>7 DEF Visited
    <3> QED BY <3>8 DEF e
  <2> QED BY <2>1, <2>2
<1> QED BY <1>2, <1>5, <1>6, <1>7

\* What a whole check has done: a mark it set is that of a rule it spreads, unless it failed.
Checked(c, m, d) ==
  /\ \A i \in c.spread :
       i \in DOMAIN rules /\ Reads(d, i) = "met" /\ Key(i) \notin m /\ Key(i) \in c.marks
  /\ \A i \in c.calm : i \in DOMAIN rules /\ Reads(d, i) = "calm" /\ Key(i) \notin c.marks
  /\ \A i \in DOMAIN rules : Key(i) \in m /\ Key(i) \notin c.marks => i \in c.calm
  /\ \A i \in DOMAIN rules :
       Key(i) \in c.marks /\ Key(i) \notin m => Reads(d, i) = "met" /\ (c.failed \/ i \in c.spread)
  /\ \A k \in c.marks : k \in m \/ \E i \in DOMAIN rules : k = Key(i)

\* What a check of a device does to all marks.
LEMMA CheckShows ==
  ASSUME SpreadTypeOK, Grown, NEW m \in SUBSET Keys, NEW d \in Names
  PROVE  Checked(Check(m, d), m, d)
<1>1. Len(rules) \in Nat /\ DOMAIN rules = 1..Len(rules)
  BY DEF SpreadTypeOK
<1>2. PICK u : Follows(u, m, d, Len(rules)) /\ Check(m, d) = Outcome(u[Len(rules)])
  BY <1>1, CheckEnds
<1>3. \A i \in 0..Len(rules) : u[i] = IF i = 0 THEN Begun(m) ELSE Visit(u[i - 1], d, i)
  BY <1>2 DEF Follows
<1> DEFINE Good(i) == u[i] \in Checks /\ Visited(u[i], m, d, i)
           S == {i \in 0..Len(rules) : ~Good(i)}
<1>4. ASSUME S # {} PROVE FALSE
  <2>1. S \in SUBSET Nat
    BY <1>1
  <2>2. PICK i \in S : \A j \in S : i <= j
    BY <1>4, <2>1, LeastNumber
  <2>3. CASE i = 0
    <3>1. u[0] = Begun(m)
      BY <1>1, <1>3
    <3>2. Begun(m) \in Checks /\ Visited(Begun(m), m, d, 0)
      BY DEF Begun, Checks, Visited
    <3> QED BY <2>2, <2>3, <3>1, <3>2
  <2>4. CASE i # 0
    <3>1. i - 1 \in 0..Len(rules) /\ i \in DOMAIN rules /\ i - 1 \notin S
      BY <1>1, <2>2, <2>4
    <3>2. u[i - 1] \in Checks /\ Visited(u[i - 1], m, d, i - 1) /\ u[i] = Visit(u[i - 1], d, i)
      BY <1>3, <2>2, <2>4, <3>1
    <3>3. Good(i)
      BY <3>1, <3>2, VisitKeepsTypes, VisitShows
    <3> QED BY <2>2, <3>3
  <2> QED BY <2>3, <2>4
<1>5. u[Len(rules)] \in Checks /\ Visited(u[Len(rules)], m, d, Len(rules))
  BY <1>1, <1>4
<1>6. ASSUME NEW c \in Checks, Visited(c, m, d, Len(rules))
      PROVE  Checked(Outcome(c), m, d)
  BY <1>1, <1>6 DEF Outcome, Checks, Visited, Checked
<1> QED BY <1>2, <1>5, <1>6

\* No two devices have a point of the same name.
OwnPoints ==
  \A d, e \in Names, q \in Points : reading[d][q] # "none" /\ reading[e][q] # "none" => d = e

\* What a pass has done, from the marks it found.
Passed(p) ==
  /\ \A f \in p.spread :
       f[2] \in DOMAIN rules /\ Reads(f[1], f[2]) = "met" /\ Key(f[2]) \notin marks
       /\ Key(f[2]) \in p.marks
  /\ \A f \in p.calm :
       f[2] \in DOMAIN rules /\ Reads(f[1], f[2]) = "calm" /\ Key(f[2]) \notin p.marks
  /\ \A i \in DOMAIN rules :
       Key(i) \in marks /\ Key(i) \notin p.marks => \E d \in Names : <<d, i>> \in p.calm
  /\ \A i \in DOMAIN rules :
       Key(i) \in p.marks /\ Key(i) \notin marks => p.failed \/ \E d \in Names : <<d, i>> \in p.spread
  /\ \A k \in p.marks : k \in marks \/ \E i \in DOMAIN rules : k = Key(i)

\* When no two devices have a point of the same name, a rule reads a value of one device only.
LEMMA PointsShown ==
  ASSUME SpreadTypeOK, OwnPoints, NEW d \in Names, NEW e \in Names, NEW i \in DOMAIN rules,
         Reads(d, i) \in {"calm", "met"}, Reads(e, i) \in {"calm", "met"}
  PROVE  d = e
<1>1. rules[i] \in RuleRecords
  BY ElementOfSeq DEF SpreadTypeOK
<1> QED BY <1>1 DEF RuleRecords, Reads, OwnPoints

\* One device more keeps what a pass has shown so far.
LEMMA OnToShows ==
  ASSUME SpreadTypeOK, Grown, OwnPoints, NEW p \in Passes, Passed(p), ~p.failed,
         NEW k \in 1..Len(Machines)
  PROVE  Passed(OnTo(p, k))
<1> DEFINE d == Machines[k]
           c == Check(p.marks, d)
           q == OnTo(p, k)
<1>1. d \in Names
  BY SpreadAssumption DEF Names
<1>2. p.marks \in SUBSET Keys /\ p.spread \in SUBSET (Names \X (1..MaxAdded))
      /\ p.calm \in SUBSET (Names \X (1..MaxAdded))
  BY DEF Passes
<1>3. Checked(c, p.marks, d)
  BY <1>1, <1>2, CheckShows
<1>4. q.marks = c.marks /\ q.failed = c.failed /\ q.spread = p.spread \cup ({d} \X c.spread)
      /\ q.calm = p.calm \cup ({d} \X c.calm)
  BY DEF OnTo
<1> HIDE DEF c, d, q
<1>5. ASSUME NEW f \in q.spread
      PROVE  f[2] \in DOMAIN rules /\ Reads(f[1], f[2]) = "met" /\ Key(f[2]) \notin marks
             /\ Key(f[2]) \in q.marks
  <2>1. CASE f \in p.spread
    <3>1. f[1] \in Names /\ f[2] \in DOMAIN rules /\ Reads(f[1], f[2]) = "met"
          /\ Key(f[2]) \notin marks /\ Key(f[2]) \in p.marks
      BY <1>2, <2>1 DEF Passed
    <3>2. ASSUME Key(f[2]) \notin c.marks PROVE FALSE
      <4>1. Reads(d, f[2]) = "calm"
        BY <1>3, <3>1, <3>2 DEF Checked
      <4> QED BY <1>1, <3>1, <4>1, PointsShown
    <3> QED BY <1>4, <3>1, <3>2
  <2>2. CASE f \in {d} \X c.spread
    <3>1. f[1] = d /\ f[2] \in DOMAIN rules /\ Reads(d, f[2]) = "met"
          /\ Key(f[2]) \notin p.marks /\ Key(f[2]) \in c.marks
      BY <1>3, <2>2 DEF Checked
    <3>2. ASSUME Key(f[2]) \in marks PROVE FALSE
      <4>1. PICK e \in Names : <<e, f[2]>> \in p.calm
        BY <3>1, <3>2 DEF Passed
      <4>2. Reads(e, f[2]) = "calm"
        BY <4>1 DEF Passed
      <4> QED BY <1>1, <3>1, <4>2, PointsShown
    <3> QED BY <1>4, <3>1, <3>2
  <2> QED BY <1>4, <2>1, <2>2
<1>6. ASSUME NEW f \in q.calm
      PROVE  f[2] \in DOMAIN rules /\ Reads(f[1], f[2]) = "calm" /\ Key(f[2]) \notin q.marks
  <2>1. CASE f \in p.calm
    <3>1. f[1] \in Names /\ f[2] \in DOMAIN rules /\ Reads(f[1], f[2]) = "calm"
          /\ Key(f[2]) \notin p.marks
      BY <1>2, <2>1 DEF Passed
    <3>2. ASSUME Key(f[2]) \in c.marks PROVE FALSE
      <4>1. Reads(d, f[2]) = "met"
        BY <1>3, <3>1, <3>2 DEF Checked
      <4> QED BY <1>1, <3>1, <4>1, PointsShown
    <3> QED BY <1>4, <3>1, <3>2
  <2>2. CASE f \in {d} \X c.calm
    BY <1>3, <1>4, <2>2 DEF Checked
  <2> QED BY <1>4, <2>1, <2>2
<1>7. ASSUME NEW i \in DOMAIN rules, Key(i) \in marks, Key(i) \notin q.marks
      PROVE  \E e \in Names : <<e, i>> \in q.calm
  <2>1. CASE Key(i) \in p.marks
    BY <1>1, <1>3, <1>4, <1>7, <2>1 DEF Checked
  <2>2. CASE Key(i) \notin p.marks
    BY <1>4, <1>7, <2>2 DEF Passed
  <2> QED BY <2>1, <2>2
<1>8. ASSUME NEW i \in DOMAIN rules, Key(i) \in q.marks, Key(i) \notin marks
      PROVE  q.failed \/ \E e \in Names : <<e, i>> \in q.spread
  <2>1. CASE Key(i) \notin p.marks
    BY <1>1, <1>3, <1>4, <1>8, <2>1 DEF Checked
  <2>2. CASE Key(i) \in p.marks
    BY <1>4, <1>8, <2>2 DEF Passed
  <2> QED BY <2>1, <2>2
<1>9. \A j \in q.marks : j \in marks \/ \E i \in DOMAIN rules : j = Key(i)
  BY <1>3, <1>4 DEF Checked, Passed
<1>10. Passed(q)
  BY <1>5, <1>6, <1>7, <1>8, <1>9 DEF Passed
<1> QED BY <1>10 DEF q

\* Hence what the whole pass does to the marks and returns.
LEMMA PassShows ==
  ASSUME SpreadTypeOK, Grown, OwnPoints
  PROVE  Pass \in Passes /\ Passed(Pass)
<1>1. Len(Machines) \in Nat /\ DOMAIN Machines = 1..Len(Machines)
  BY SpreadAssumption
<1>2. PICK u : Goes(u, Len(Machines)) /\ Pass = u[Len(Machines)]
  BY PassEnds
<1>3. \A k \in 0..Len(Machines) :
        u[k] = IF k = 0 \/ u[k - 1].failed THEN IF k = 0 THEN Nothing ELSE u[k - 1]
               ELSE OnTo(u[k - 1], k)
  BY <1>2 DEF Goes
<1> DEFINE Good(k) == u[k] \in Passes /\ Passed(u[k])
           S == {k \in 0..Len(Machines) : ~Good(k)}
<1>4. ASSUME S # {} PROVE FALSE
  <2>1. S \in SUBSET Nat
    BY <1>1
  <2>2. PICK k \in S : \A j \in S : k <= j
    BY <1>4, <2>1, LeastNumber
  <2>3. CASE k = 0
    <3>1. u[0] = Nothing
      BY <1>1, <1>3
    <3>2. Nothing \in Passes /\ Passed(Nothing)
      BY DEF Nothing, Passes, Passed, SpreadTypeOK
    <3> QED BY <2>2, <2>3, <3>1, <3>2
  <2>4. CASE k # 0
    <3>1. k - 1 \in 0..Len(Machines) /\ k \in 1..Len(Machines) /\ k - 1 \notin S
      BY <1>1, <2>2, <2>4
    <3>2. CASE u[k - 1].failed
      BY <1>3, <2>2, <2>4, <3>1, <3>2
    <3>3. CASE ~u[k - 1].failed
      <4>1. u[k] = OnTo(u[k - 1], k)
        BY <1>3, <2>2, <2>4, <3>3
      <4>2. Good(k)
        BY <3>1, <3>3, <4>1, OnToKeepsTypes, OnToShows
      <4> QED BY <2>2, <4>2
    <3> QED BY <3>2, <3>3
  <2> QED BY <2>3, <2>4
<1> QED BY <1>1, <1>2, <1>4

\* What holds between marks and faults while no rule has been removed.
MarksOK ==
  /\ OwnPoints
  /\ "removal" \notin mishaps =>
       /\ Grown
       /\ \A f \in unrecovered : /\ f[2] \in DOMAIN rules /\ Reads(f[1], f[2]) # "none"
                                 /\ Key(f[2]) \in marks
  /\ mishaps = {} =>
       \A i \in DOMAIN rules : Key(i) \in marks => \E d \in Names : <<d, i>> \in unrecovered

\* What a rule shows to a device is a state of the point.
LEMMA Showing ==
  ASSUME SpreadTypeOK, NEW d \in Names, NEW i \in DOMAIN rules
  PROVE  Reads(d, i) \in {"none", "calm", "met"} /\ rules[i].source \in Points
<1>1. rules[i] \in RuleRecords
  BY ElementOfSeq DEF SpreadTypeOK
<1> QED BY <1>1 DEF Reads, SpreadTypeOK, RuleRecords

\* Every step keeps the marks those of faults whose recovery no pass has seen.
LEMMA MarksKept ==
  ASSUME SpreadTypeOK, MarksOK, SpreadNext
  PROVE  MarksOK'
<1>1. CASE SpreadFaults
  <2> DEFINE p == Pass
  <2>1. p \in Passes /\ ("removal" \notin mishaps => Passed(p))
    BY PassKeepsTypes, PassShows DEF MarksOK
  <2>2. /\ marks' = p.marks
        /\ unrecovered' = (unrecovered \ p.calm) \cup p.spread
        /\ mishaps' = mishaps \cup (IF p.failed THEN {"failure"} ELSE {})
        /\ UNCHANGED <<rules, added, reading>>
    BY <1>1 DEF SpreadFaults
  <2> HIDE DEF p
  <2>3. OwnPoints'
    BY <2>2 DEF MarksOK, OwnPoints
  <2>4. ASSUME "removal" \notin mishaps'
        PROVE  /\ Grown'
               /\ \A f \in unrecovered' :
                    f[2] \in DOMAIN rules /\ Reads(f[1], f[2]) # "none" /\ Key(f[2]) \in marks'
    <3>1. "removal" \notin mishaps /\ Passed(p) /\ Grown
      BY <2>1, <2>2, <2>4 DEF MarksOK
    <3>2. ASSUME NEW k \in p.marks
          PROVE  \E i \in DOMAIN rules : k = Key(i)
      BY <3>1 DEF Passed, Grown
    <3>3. Grown'
      BY <2>2, <3>1, <3>2 DEF Grown, Key
    <3>4. ASSUME NEW f \in unrecovered, f \notin p.calm
          PROVE  f[2] \in DOMAIN rules /\ Reads(f[1], f[2]) # "none" /\ Key(f[2]) \in p.marks
      <4>1. /\ f \in Names \X (1..MaxAdded) /\ f[2] \in DOMAIN rules
            /\ Reads(f[1], f[2]) # "none" /\ Key(f[2]) \in marks
        BY <3>1 DEF MarksOK, SpreadTypeOK
      <4>2. ASSUME Key(f[2]) \notin p.marks PROVE FALSE
        <5>1. PICK e \in Names : <<e, f[2]>> \in p.calm
          BY <3>1, <4>1, <4>2 DEF Passed
        <5>2. Reads(e, f[2]) = "calm" /\ Reads(f[1], f[2]) \in {"calm", "met"}
          BY <3>1, <4>1, <5>1, Showing DEF Passed
        <5>3. e = f[1]
          BY <4>1, <5>2, PointsShown DEF MarksOK
        <5> QED BY <3>4, <4>1, <5>1, <5>3
      <4> QED BY <4>1, <4>2
    <3>5. ASSUME NEW f \in p.spread
          PROVE  f[2] \in DOMAIN rules /\ Reads(f[1], f[2]) # "none" /\ Key(f[2]) \in p.marks
      BY <3>1 DEF Passed
    <3> QED BY <2>2, <3>3, <3>4, <3>5
  <2>5. ASSUME mishaps' = {}, NEW i \in DOMAIN rules, Key(i) \in marks'
        PROVE  \E d \in Names : <<d, i>> \in unrecovered'
    <3>1. mishaps = {} /\ ~p.failed /\ Passed(p)
      BY <2>1, <2>2, <2>5
    <3>2. CASE Key(i) \in marks
      <4>1. PICK d \in Names : <<d, i>> \in unrecovered
        BY <3>1, <3>2 DEF MarksOK
      <4>2. <<d, i>> \notin p.calm
        BY <2>2, <2>5, <3>1 DEF Passed
      <4> QED BY <2>2, <4>1, <4>2
    <3>3. CASE Key(i) \notin marks
      BY <2>2, <2>5, <3>1, <3>3 DEF Passed
    <3> QED BY <3>2, <3>3
  <2>6. \A f : Reads(f[1], f[2])' = Reads(f[1], f[2]) /\ Key(f[2])' = Key(f[2])
    BY <2>2 DEF Reads, Key
  <2>7. \A i : Key(i)' = Key(i)
    BY <2>2 DEF Key
  <2> QED BY <2>2, <2>3, <2>4, <2>5, <2>6, <2>7 DEF MarksOK
<1>2. ASSUME NEW s \in Points, NEW t \in Points, NEW effect \in Effects, AddRule(s, t, effect)
      PROVE  MarksOK'
  <2> DEFINE r == [number |-> added', source |-> s, target |-> t, effect |-> effect]
  <2> PICK n : n = Len(rules) + 1
    OBVIOUS
  <2>1. added' = added + 1 /\ rules' = Append(rules, r)
        /\ UNCHANGED <<marks, reading, unrecovered, mishaps>>
    BY <1>2 DEF AddRule
  <2>2. r.number = added'
    OBVIOUS
  <2> HIDE DEF r
  <2>3. /\ Len(rules) \in Nat /\ DOMAIN rules = 1..Len(rules) /\ Len(rules') = n
        /\ DOMAIN rules' = 1..n /\ rules'[n] = r
        /\ \A i \in DOMAIN rules : rules'[i] = rules[i]
    <3>1. rules \in Seq(RuleRecords \cup {r})
      BY SeqMonotonic DEF SpreadTypeOK
    <3> QED BY <2>1, <3>1, AppendProperties
  <2>4. DOMAIN rules' = DOMAIN rules \cup {n} /\ n \notin DOMAIN rules
    BY <2>3
  <2>5. \A i \in DOMAIN rules : Key(i)' = Key(i) /\ \A d : Reads(d, i)' = Reads(d, i)
    BY <2>1, <2>3 DEF Key, Reads
  <2>6. ASSUME Grown
        PROVE  Grown' /\ Key(n)' \notin marks'
    <3>1. \A k \in marks' : \E i \in DOMAIN rules : k = Key(i)'
      BY <2>1, <2>5, <2>6 DEF Grown
    <3>2. \A i \in DOMAIN rules : Key(i)' # Key(n)'
      BY <2>4 DEF Key
    <3>3. Len(rules') = added' /\ \A i \in DOMAIN rules' : rules'[i].number = i
      BY <2>1, <2>2, <2>3, <2>4, <2>6 DEF Grown
    <3> QED BY <2>4, <3>1, <3>2, <3>3 DEF Grown
  <2>7. OwnPoints'
    BY <2>1 DEF MarksOK, OwnPoints
  <2>8. ASSUME "removal" \notin mishaps', NEW f \in unrecovered'
        PROVE  f[2] \in DOMAIN rules' /\ Reads(f[1], f[2])' # "none" /\ Key(f[2])' \in marks'
    <3>1. f[2] \in DOMAIN rules /\ Reads(f[1], f[2]) # "none" /\ Key(f[2]) \in marks
      BY <2>1, <2>8 DEF MarksOK
    <3> QED BY <2>1, <2>4, <2>5, <3>1
  <2>9. ASSUME mishaps' = {}, NEW i \in DOMAIN rules', Key(i)' \in marks'
        PROVE  \E d \in Names : <<d, i>> \in unrecovered'
    <3>1. Grown
      BY <2>1, <2>9 DEF MarksOK
    <3>2. i \in DOMAIN rules
      BY <2>4, <2>6, <2>9, <3>1
    <3>3. Key(i) \in marks
      BY <2>1, <2>5, <2>9, <3>2
    <3> QED BY <2>1, <2>9, <3>2, <3>3 DEF MarksOK
  <2> QED BY <2>1, <2>6, <2>7, <2>8, <2>9 DEF MarksOK
<1>3. ASSUME NEW i \in DOMAIN rules, RemoveRule(i)
      PROVE  MarksOK'
  BY <1>3 DEF RemoveRule, MarksOK, OwnPoints
<1>4. ASSUME NEW d \in Names, NEW q \in Points, ReadingChanges(d, q)
      PROVE  MarksOK'
  <2>1. ASSUME NEW e, NEW x
        PROVE  reading'[e][x] # "none" <=> reading[e][x] # "none"
    BY <1>4 DEF ReadingChanges, SpreadTypeOK
  <2> QED BY <1>4, <2>1 DEF ReadingChanges, MarksOK, OwnPoints, Reads, Key, Grown
<1> QED BY <1>1, <1>2, <1>3, <1>4 DEF SpreadNext

-----------------------------------------------------------------------------
(* The theorems *)

\* The types at the start, and in every step.
LEMMA SpreadBegins == SpreadInit => SpreadTypeOK
BY SpreadAssumption DEF SpreadInit, SpreadTypeOK

LEMMA SpreadTypesGoOn == SpreadTypeOK /\ [SpreadNext]_spreadVars => SpreadTypeOK'
<1>1. CASE UNCHANGED spreadVars
  BY <1>1 DEF spreadVars, SpreadTypeOK
<1> QED BY <1>1, SpreadTypesKept

\* The marks are keys of rules, and the counts and histories keep their types: whatever
\* becomes of a pass over the devices, its results are rules and devices that exist.
THEOREM SpreadTypes == SpreadSpec => []SpreadTypeOK
BY SpreadBegins, SpreadTypesGoOn, PTL DEF SpreadSpec

\* The marks at the start, and in every step.
LEMMA MarksBegin == SpreadInit /\ OwnPoints => MarksOK
BY DEF SpreadInit, MarksOK, Grown

LEMMA MarksGoOn == SpreadTypeOK /\ MarksOK /\ [SpreadNext]_spreadVars => MarksOK'
<1>1. CASE UNCHANGED spreadVars
  BY <1>1, ZenonT(60) DEF spreadVars, MarksOK, OwnPoints, Grown, Reads, Key
<1> QED BY <1>1, MarksKept

\* Devices without a point in common do not disturb each other's marks: while the list of
\* rules only grows, a rule that has put a fault into a device does so again only after a
\* pass has seen the value of that device outside the condition.
THEOREM RecoveryBetweenFaults == SpreadSpec /\ OwnPoints => OncePerRecovery
<1>1. ASSUME SpreadTypeOK, MarksOK, [SpreadNext]_spreadVars,
             NEW d \in Names, NEW n \in 1..MaxAdded, injected'[d][n] > injected[d][n],
             "removal" \notin mishaps
      PROVE  <<d, n>> \notin unrecovered
  <2> DEFINE p == Pass
  <2>1. ~(injected[d][n] > injected[d][n])
    <3>1. injected[d][n] \in 0..MaxFaults
      BY <1>1 DEF SpreadTypeOK
    <3> QED BY <3>1
  <2>2. injected' # injected
    BY <1>1, <2>1
  <2>3. SpreadFaults
    BY <1>1, <2>2 DEF SpreadNext, AddRule, RemoveRule, ReadingChanges, spreadVars
  <2>4. injected' = [e \in Names |-> [m \in 1..MaxAdded |->
                       IF <<e, m>> \in p.spread THEN injected[e][m] + 1 ELSE injected[e][m]]]
    BY <2>3 DEF SpreadFaults
  <2>5. <<d, n>> \in p.spread
    BY <1>1, <2>1, <2>4
  <2>6. Passed(p)
    BY <1>1, PassShows DEF MarksOK
  <2>7. Key(n) \notin marks
    BY <2>5, <2>6 DEF Passed
  <2> QED BY <1>1, <2>7 DEF MarksOK
<1>2. SpreadTypeOK /\ MarksOK /\ [SpreadNext]_spreadVars
        => [\A d \in Names, n \in 1..MaxAdded :
              injected'[d][n] > injected[d][n] /\ "removal" \notin mishaps
                => <<d, n>> \notin unrecovered]_spreadVars
  BY <1>1
<1> QED BY <1>2, SpreadBegins, SpreadTypesGoOn, MarksBegin, MarksGoOn, PTL
        DEF SpreadSpec, OncePerRecovery

\* With one device, and as long as no rule was removed and no pass has failed, a mark holds
\* a rule back from that device only while the device has the fault of it.
THEOREM MarksHaveFaults ==
  ASSUME Len(Machines) = 1
  PROVE  SpreadSpec => []MarkedHasFault
<1>1. \A d, e \in Names : d = e
  BY SpreadAssumption DEF Names
<1>2. OwnPoints
  BY <1>1 DEF OwnPoints
<1>3. MarksOK => MarkedHasFault
  <2> SUFFICES ASSUME MarksOK, mishaps = {}, NEW d \in Names, NEW i \in DOMAIN rules,
                      Key(i) \in marks
               PROVE  <<d, rules[i].number>> \in unrecovered
    BY DEF MarkedHasFault
  <2>1. rules[i].number = i
    BY DEF MarksOK, Grown
  <2>2. \E e \in Names : <<e, i>> \in unrecovered
    BY DEF MarksOK
  <2> QED BY <1>1, <2>1, <2>2
<1> QED BY <1>2, <1>3, SpreadBegins, SpreadTypesGoOn, MarksBegin, MarksGoOn, PTL DEF SpreadSpec

-----------------------------------------------------------------------------
(* All parts *)

\* The scenarios, the rules and the faults of one instance keep their types, whichever of
\* them moves: none changes the state of another.
THEOREM TickedTypes == TickedSpec => []TickedTypeOK
<1>1. TickedInit => Init /\ RulesInit /\ SpreadInit
  BY DEF TickedInit
<1>2. [TickedNext]_tickedVars => [Next]_vars /\ [RulesNext]_rulesVars /\ [SpreadNext]_spreadVars
  BY DEF TickedNext, OfScenarios, tickedVars
<1>3. TickedSpec => Spec
  BY <1>1, <1>2, PTL DEF TickedSpec, Spec
<1>4. TickedSpec => RulesSpec
  BY <1>1, <1>2, PTL DEF TickedSpec, RulesSpec
<1>5. TickedSpec => SpreadSpec
  BY <1>1, <1>2, PTL DEF TickedSpec, SpreadSpec
<1>6. TypeOK /\ RulesTypeOK /\ SpreadTypeOK <=> TickedTypeOK
  BY DEF TickedTypeOK
<1> QED BY <1>3, <1>4, <1>5, <1>6, TypeCorrect, RuleTypes, SpreadTypes, PTL
=============================================================================
