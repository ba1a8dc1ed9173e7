------------------------ MODULE DeviceCatalogueProofs ------------------------
(***************************************************************************)
(* Theorems about DeviceCatalogue, for any devices, configurations,        *)
(* protocols and numbers of calls in flight.                               *)
(***************************************************************************)
EXTENDS DeviceCatalogue, SequenceTheorems, TLAPS

Stages == {"registering", "syncing", "stopping", "unregistering",
           "saving", "erasing", "erasingAgain"}

\* A call that is about to move, from a stage or from the client.
AnyCall == [op : {"create", "delete", "update", "rollback"}, id : Ids,
            config : Configs \cup {None}, pc : Stages \cup {"idle"}]

CallsOK == calls \in [Calls -> CallTypes \cup {Idle}]

\* What a step of call c leaves alone.
OthersStay(c) == \A d \in Calls \ {c} : calls'[d] = calls[d]

-----------------------------------------------------------------------------
(* How calls move *)

\* A call is not an idle slot, and it is about a device.
LEMMA CallFacts ==
  ASSUME NEW call \in CallTypes \cup {Idle}, call # Idle
  PROVE  /\ call \in CallTypes /\ call \in AnyCall
         /\ call.id \in Ids /\ call.id # None
         /\ call.config \in Configs \cup {None}
         /\ call.op \in {"create", "delete", "update", "rollback"}
         /\ call.pc \in Stages
BY ConfigAssumption DEF CallTypes, AnyCall, Stages

\* A call in some stage is not idle.
LEMMA InStage ==
  ASSUME CallsOK, NEW c \in Calls, calls[c].pc \in Stages
  PROVE  calls[c] # Idle /\ calls[c] \in CallTypes
BY DEF CallsOK, Idle, Stages

\* At moves one call to a stage and changes nothing else of it.
LEMMA AtFacts ==
  ASSUME CallsOK, NEW c \in Calls, NEW call \in AnyCall, NEW pc \in Stages,
         At(c, call, pc)
  PROVE  /\ CallsOK' /\ OthersStay(c)
         /\ calls'[c].id = call.id /\ calls'[c].op = call.op
         /\ calls'[c].config = call.config /\ calls'[c].pc = pc
         /\ calls'[c] # Idle
<1> DEFINE moved == [call EXCEPT !.pc = pc]
<1>1. /\ moved \in CallTypes
      /\ moved.id = call.id /\ moved.op = call.op
      /\ moved.config = call.config /\ moved.pc = pc
  BY DEF AnyCall, CallTypes, Stages
<1>2. moved # Idle
  BY <1>1, ConfigAssumption DEF Idle, AnyCall
<1>3. calls' = [calls EXCEPT ![c] = moved]
  BY DEF At
<1> HIDE DEF moved
<1>4. calls'[c] = moved /\ CallsOK' /\ OthersStay(c)
  BY <1>1, <1>3 DEF CallsOK, OthersStay
<1> QED
  BY <1>1, <1>2, <1>4

\* The same for a call that waits for a server, ...
LEMMA AwaitsFacts ==
  ASSUME CallsOK, NEW c \in Calls, NEW call \in AnyCall, NEW pc \in Stages,
         NEW q \in Seq(Calls), Awaits(c, call, pc, q)
  PROVE  /\ CallsOK' /\ OthersStay(c) /\ dbQueue' \in Seq(Calls)
         /\ calls'[c].id = call.id /\ calls'[c].op = call.op
         /\ calls'[c].config = call.config /\ calls'[c].pc = pc
         /\ calls'[c] # Idle
BY AtFacts DEF Awaits

\* ... and for one that issues a statement.
LEMMA IssuesFacts ==
  ASSUME CallsOK, NEW c \in Calls, NEW call \in AnyCall, NEW pc \in Stages,
         NEW q \in Seq(Calls), Issues(c, call, pc, q)
  PROVE  /\ CallsOK' /\ OthersStay(c) /\ dbQueue' \in Seq(Calls)
         /\ calls'[c].id = call.id /\ calls'[c].op = call.op
         /\ calls'[c].config = call.config /\ calls'[c].pc = pc
         /\ calls'[c] # Idle
<1>1. Append(q, c) \in Seq(Calls)
  OBVIOUS
<1> QED
  BY <1>1, AtFacts DEF Issues

\* A call that returns frees its slot.
LEMMA ReturnsFacts ==
  ASSUME CallsOK, NEW c \in Calls, NEW q \in Seq(Calls), Returns(c, q)
  PROVE  CallsOK' /\ OthersStay(c) /\ dbQueue' \in Seq(Calls) /\ calls'[c] = Idle
BY DEF Returns, CallsOK, OthersStay

\* The statement that the database executes leaves a queue of calls.
LEMMA ExecutesFacts ==
  ASSUME TypeOK, NEW c \in Calls, NEW pc, Executes(c, pc)
  PROVE  Tail(dbQueue) \in Seq(Calls) /\ calls[c].pc = pc
BY DEF TypeOK, Executes

-----------------------------------------------------------------------------
(* The parts of the engine's calls *)

\* create_device puts the device in memory, and announces it once registered.
LEMMA AddToFacts ==
  ASSUME TypeOK, NEW c \in Calls, NEW call \in AnyCall,
         NEW told \in SUBSET Ids, NEW q \in Seq(Calls), AddTo(c, call, told, q)
  PROVE  /\ CallsOK' /\ OthersStay(c) /\ dbQueue' \in Seq(Calls)
         /\ devices' = [devices EXCEPT ![call.id] = call.config]
         /\ calls'[c].id = call.id /\ calls'[c].op = call.op
         /\ calls'[c].config = call.config /\ calls'[c] # Idle
         /\ \/ calls'[c].pc = "registering" /\ announced' = told
            \/ calls'[c].pc = "saving" /\ announced' = told \cup {call.id}
<1>1. CallsOK
  BY DEF TypeOK, CallsOK
<1>2. "registering" \in Stages /\ "saving" \in Stages
  BY DEF Stages
<1>3. CASE Slow(call.config)
  <2>1. announced' = told /\ Awaits(c, call, "registering", q)
    BY <1>3 DEF AddTo
  <2> QED
    BY <1>1, <1>2, <2>1, AwaitsFacts DEF AddTo
<1>4. CASE ~Slow(call.config)
  <2>1. announced' = told \cup {call.id} /\ Issues(c, call, "saving", q)
    BY <1>4 DEF AddTo
  <2> QED
    BY <1>1, <1>2, <2>1, IssuesFacts DEF AddTo
<1> QED
  BY <1>3, <1>4

\* remove_device takes the device out of memory before it suspends.
LEMMA TakeOutFacts ==
  ASSUME TypeOK, NEW c \in Calls, NEW call \in AnyCall, NEW q \in Seq(Calls),
         TakeOut(c, call, q)
  PROVE  /\ CallsOK' /\ OthersStay(c) /\ dbQueue' \in Seq(Calls)
         /\ devices' = [devices EXCEPT ![call.id] = None] /\ announced' = announced
         /\ calls'[c].id = call.id /\ calls'[c].op = call.op
         /\ calls'[c].config = call.config /\ calls'[c] # Idle
         /\ calls'[c].pc \in {"unregistering", "erasing"}
<1>1. CallsOK
  BY DEF TypeOK, CallsOK
<1>2. "unregistering" \in Stages /\ "erasing" \in Stages
  BY DEF Stages
<1>3. CASE Slow(devices[call.id])
  <2>1. Awaits(c, call, "unregistering", q)
    BY <1>3 DEF TakeOut
  <2> QED
    BY <1>1, <1>2, <2>1, AwaitsFacts DEF TakeOut
<1>4. CASE ~Slow(devices[call.id])
  <2>1. Issues(c, call, "erasing", q)
    BY <1>4 DEF TakeOut
  <2> QED
    BY <1>1, <1>2, <2>1, IssuesFacts DEF TakeOut
<1> QED
  BY <1>3, <1>4

\* A new call is one that is about to move.
LEMMA NewCall ==
  ASSUME NEW op \in {"create", "delete", "update"}, NEW id \in Ids,
         NEW config \in Configs \cup {None}
  PROVE  [op |-> op, id |-> id, config |-> config, pc |-> "idle"] \in AnyCall
BY DEF AnyCall

\* The second half of a change of protocol creates the device or gives up.
LEMMA RecreateFacts ==
  ASSUME TypeOK, NEW c \in Calls, NEW call \in AnyCall,
         NEW told \in SUBSET Ids, NEW q \in Seq(Calls), Recreate(c, call, told, q)
  PROVE  \/ devices[call.id] = None /\ AddTo(c, call, told, q)
         \/ /\ devices[call.id] # None /\ devices' = devices /\ announced' = told
            /\ CallsOK' /\ OthersStay(c) /\ dbQueue' \in Seq(Calls) /\ calls'[c] = Idle
<1>1. CallsOK
  BY DEF TypeOK, CallsOK
<1>2. CASE devices[call.id] = None
  BY <1>2 DEF Recreate
<1>3. CASE devices[call.id] # None
  BY <1>1, <1>3, ReturnsFacts DEF Recreate
<1> QED
  BY <1>2, <1>3

-----------------------------------------------------------------------------
(* Types *)

\* The types of the step's other variables complete those of the calls.
LEMMA TypeFrom ==
  ASSUME CallsOK', dbQueue' \in Seq(Calls),
         devices' \in [Ids -> Configs \cup {None}],
         rows' \in [Ids -> Configs \cup {None}],
         announced' \subseteq Ids, owed' \subseteq Ids
  PROVE  TypeOK'
BY DEF TypeOK, CallsOK

\* Every step keeps the types.
LEMMA NextType ==
  ASSUME TypeOK, [Next]_vars
  PROVE  TypeOK'
<1>1. CallsOK /\ dbQueue \in Seq(Calls) /\ announced \in SUBSET Ids /\ owed \subseteq Ids
      /\ devices \in [Ids -> Configs \cup {None}] /\ rows \in [Ids -> Configs \cup {None}]
  BY DEF TypeOK, CallsOK
<1>2. \A c \in Calls : calls[c].pc \in Stages =>
         /\ calls[c] \in AnyCall /\ calls[c].id \in Ids
         /\ calls[c].config \in Configs \cup {None}
  BY <1>1, InStage, CallFacts
<1>3. ASSUME NEW c \in Calls, NEW id \in Ids, NEW config \in Configs, Create(c, id, config)
      PROVE  TypeOK'
  <2> DEFINE call == [op |-> "create", id |-> id, config |-> config, pc |-> "idle"]
  <2>1. call \in AnyCall /\ call.id = id /\ call.config = config
    BY NewCall
  <2>2. AddTo(c, call, announced, dbQueue) /\ rows' = rows /\ owed' = owed
    BY <1>3 DEF Create
  <2> HIDE DEF call
  <2> QED
    BY <1>1, <2>1, <2>2, AddToFacts, TypeFrom
<1>4. ASSUME NEW c \in Calls, NEW id \in Ids, Delete(c, id)
      PROVE  TypeOK'
  <2> DEFINE call == [op |-> "delete", id |-> id, config |-> None, pc |-> "idle"]
  <2>1. call \in AnyCall /\ call.id = id
    BY NewCall
  <2>2. TakeOut(c, call, dbQueue) /\ rows' = rows /\ owed' = owed \ {id}
    BY <1>4 DEF Delete
  <2> HIDE DEF call
  <2> QED
    BY <1>1, <2>1, <2>2, TakeOutFacts, TypeFrom
<1>5. ASSUME NEW c \in Calls, NEW id \in Ids, NEW config \in Configs, HotUpdate(c, id, config)
      PROVE  TypeOK'
  <2> DEFINE call == [op |-> "update", id |-> id, config |-> config, pc |-> "idle"]
  <2>1. call \in AnyCall /\ call.id = id /\ {"syncing", "saving"} \subseteq Stages
    BY NewCall DEF Stages
  <2>2. /\ devices' = [devices EXCEPT ![id] = config]
        /\ UNCHANGED <<rows, announced, owed>>
        /\ Awaits(c, call, "syncing", dbQueue) \/ Issues(c, call, "saving", dbQueue)
    BY <1>5 DEF HotUpdate
  <2> HIDE DEF call
  <2>3. CallsOK' /\ dbQueue' \in Seq(Calls)
    BY <1>1, <2>1, <2>2, AwaitsFacts, IssuesFacts
  <2> QED
    BY <1>1, <2>2, <2>3, TypeFrom
<1>6. ASSUME NEW c \in Calls, NEW id \in Ids, NEW config \in Configs,
             ChangeProtocol(c, id, config)
      PROVE  TypeOK'
  <2> DEFINE call == [op |-> "update", id |-> id, config |-> config, pc |-> "idle"]
  <2>1. call \in AnyCall /\ call.id = id /\ "stopping" \in Stages
    BY NewCall DEF Stages
  <2>2. /\ rows' = rows /\ owed' = owed
        /\ \/ TakeOut(c, call, dbQueue)
           \/ Awaits(c, call, "stopping", dbQueue) /\ UNCHANGED <<devices, announced>>
    BY <1>6 DEF ChangeProtocol
  <2> HIDE DEF call
  <2>3. CallsOK' /\ dbQueue' \in Seq(Calls) /\ announced' = announced
        /\ devices' \in [Ids -> Configs \cup {None}]
    BY <1>1, <2>1, <2>2, TakeOutFacts, AwaitsFacts
  <2> QED
    BY <1>1, <2>2, <2>3, TypeFrom
<1>7. ASSUME NEW c \in Calls, Registered(c) \/ Synced(c) \/ Unregistered(c)
      PROVE  TypeOK'
  <2>1. PICK pc \in {"saving", "erasing"} : Issues(c, calls[c], pc, dbQueue)
    BY <1>7 DEF Registered, Synced, Unregistered
  <2>2. calls[c].pc \in Stages /\ pc \in Stages
    BY <1>7 DEF Registered, Synced, Unregistered, Stages
  <2>3. CallsOK' /\ dbQueue' \in Seq(Calls)
    BY <1>1, <1>2, <2>1, <2>2, IssuesFacts
  <2>4. /\ devices' = devices /\ rows' = rows /\ owed' = owed
        /\ announced' \in {announced, announced \cup {calls[c].id}}
    BY <1>7 DEF Registered, Synced, Unregistered
  <2> QED
    BY <1>1, <1>2, <2>2, <2>3, <2>4, TypeFrom
<1>8. ASSUME NEW c \in Calls, Stopped(c)
      PROVE  TypeOK'
  <2>1. calls[c].pc \in Stages /\ rows' = rows /\ owed' = owed
    BY <1>8 DEF Stopped, Stages
  <2>2. CASE devices[calls[c].id] # None
    <3>1. TakeOut(c, calls[c], dbQueue)
      BY <1>8, <2>2 DEF Stopped
    <3> QED
      BY <1>1, <1>2, <2>1, <3>1, TakeOutFacts, TypeFrom
  <2>3. CASE devices[calls[c].id] = None
    <3>1. Recreate(c, calls[c], announced, dbQueue)
      BY <1>8, <2>3 DEF Stopped
    <3>2. AddTo(c, calls[c], announced, dbQueue)
      BY <1>1, <1>2, <2>1, <2>3, <3>1, RecreateFacts
    <3> QED
      BY <1>1, <1>2, <2>1, <3>2, AddToFacts, TypeFrom
  <2> QED
    BY <2>2, <2>3
<1>9. ASSUME NEW c \in Calls, SaveCreated(c)
      PROVE  TypeOK'
  <2>1. Tail(dbQueue) \in Seq(Calls) /\ calls[c].pc \in Stages
    BY <1>9, ExecutesFacts DEF SaveCreated, Stages
  <2>2. CASE /\ rows' = [rows EXCEPT ![calls[c].id] = calls[c].config]
             /\ owed' = owed \cup {calls[c].id}
             /\ Returns(c, Tail(dbQueue)) /\ UNCHANGED <<devices, announced>>
    BY <1>1, <1>2, <2>1, <2>2, ReturnsFacts, TypeFrom
  <2>3. CASE /\ UNCHANGED <<rows, owed>>
             /\ TakeOut(c, [calls[c] EXCEPT !.op = "rollback"], Tail(dbQueue))
    <3> DEFINE call == [calls[c] EXCEPT !.op = "rollback"]
    <3>1. call \in AnyCall /\ call.id = calls[c].id
      BY <1>2, <2>1 DEF AnyCall
    <3> HIDE DEF call
    <3> QED
      BY <1>1, <1>2, <2>1, <2>3, <3>1, TakeOutFacts, TypeFrom DEF call
  <2>4. CASE UNCHANGED <<rows, owed, devices, announced>> /\ Returns(c, Tail(dbQueue))
    BY <1>1, <2>1, <2>4, ReturnsFacts, TypeFrom
  <2> QED
    BY <1>9, <2>2, <2>3, <2>4 DEF SaveCreated
<1>10. ASSUME NEW c \in Calls, SaveUpdated(c) \/ EraseAgain(c)
       PROVE  TypeOK'
  <2>1. Tail(dbQueue) \in Seq(Calls) /\ calls[c].pc \in Stages
    BY <1>10, ExecutesFacts DEF SaveUpdated, EraseAgain, Stages
  <2>2. /\ Returns(c, Tail(dbQueue)) /\ UNCHANGED <<devices, announced, owed>>
        /\ rows' \in {rows, [rows EXCEPT ![calls[c].id] = calls[c].config],
                      [rows EXCEPT ![calls[c].id] = None]}
    BY <1>10 DEF SaveUpdated, EraseAgain
  <2>3. rows' \in [Ids -> Configs \cup {None}]
    BY <1>1, <1>2, <2>1, <2>2
  <2> QED
    BY <1>1, <2>1, <2>2, <2>3, ReturnsFacts, TypeFrom
<1>11. ASSUME NEW c \in Calls, Erase(c)
       PROVE  TypeOK'
  <2> DEFINE told == announced \ {calls[c].id}
  <2>1. Tail(dbQueue) \in Seq(Calls) /\ calls[c].pc \in Stages /\ "erasingAgain" \in Stages
        /\ told \in SUBSET Ids
    BY <1>1, <1>11, ExecutesFacts DEF Erase, Stages
  <2>2. rows' \in [Ids -> Configs \cup {None}] /\ owed' = owed
    BY <1>1, <1>2, <1>11, <2>1 DEF Erase
  <2>3. CASE announced' = told /\ Issues(c, calls[c], "erasingAgain", Tail(dbQueue))
             /\ devices' = devices
    BY <1>1, <1>2, <2>1, <2>2, <2>3, IssuesFacts, TypeFrom
  <2>4. CASE announced' = told /\ Returns(c, Tail(dbQueue)) /\ devices' = devices
    BY <1>1, <2>1, <2>2, <2>4, ReturnsFacts, TypeFrom
  <2>5. CASE Recreate(c, calls[c], told, Tail(dbQueue))
    <3> HIDE DEF told
    <3>1. CASE AddTo(c, calls[c], told, Tail(dbQueue))
      <4>1. /\ CallsOK' /\ dbQueue' \in Seq(Calls)
            /\ devices' = [devices EXCEPT ![calls[c].id] = calls[c].config]
            /\ announced' \in {told, told \cup {calls[c].id}}
        <5>1. calls[c] \in AnyCall /\ told \in SUBSET Ids /\ Tail(dbQueue) \in Seq(Calls)
          BY <1>2, <2>1
        <5>2. \/ calls'[c].pc = "registering" /\ announced' = told
              \/ calls'[c].pc = "saving" /\ announced' = told \cup {calls[c].id}
          BY <3>1, <5>1, AddToFacts
        <5>3. /\ CallsOK' /\ dbQueue' \in Seq(Calls)
              /\ devices' = [devices EXCEPT ![calls[c].id] = calls[c].config]
          BY <3>1, <5>1, AddToFacts
        <5> QED
          BY <5>2, <5>3
      <4>2. /\ devices' \in [Ids -> Configs \cup {None}] /\ announced' \subseteq Ids
        BY <1>1, <1>2, <2>1, <4>1
      <4> QED
        BY <1>1, <2>2, <4>1, <4>2, TypeFrom
    <3>2. CASE devices' = devices /\ announced' = told /\ CallsOK' /\ dbQueue' \in Seq(Calls)
      BY <1>1, <2>1, <2>2, <3>2, TypeFrom
    <3> QED
      BY <1>2, <2>1, <2>5, <3>1, <3>2, RecreateFacts
  <2>6. \/ announced' = told /\ Issues(c, calls[c], "erasingAgain", Tail(dbQueue))
             /\ devices' = devices
        \/ announced' = told /\ Returns(c, Tail(dbQueue)) /\ devices' = devices
        \/ Recreate(c, calls[c], told, Tail(dbQueue))
    BY <1>11, Zenon DEF Erase
  <2> QED
    BY <2>3, <2>4, <2>5, <2>6
<1>12. ASSUME Restart PROVE TypeOK'
  BY <1>1, <1>12 DEF Restart, TypeOK
<1>13. CASE UNCHANGED vars
  BY <1>13 DEF vars, TypeOK
<1> QED
  BY <1>3, <1>4, <1>5, <1>6, <1>7, <1>8, <1>9, <1>10, <1>11, <1>12, <1>13 DEF Next

\* Whatever clients, servers, the database and crashes do, the records of the
\* devices keep their types, and the database queue holds calls.
THEOREM TypeCorrect == Spec => []TypeOK
<1>1. Init => TypeOK
  BY DEF Init, TypeOK
<1> QED
  BY <1>1, NextType, PTL DEF Spec

-----------------------------------------------------------------------------
(* One call at a time for a device *)

\* Slots that name the same device are the same slot.
OneCall == \A c, d \in Calls : calls[c] # Idle /\ calls[d].id = calls[c].id => d = c

\* A slot that does not hold a call names no device, and others hold other ones.
OnlyCallOf(c, i) == /\ calls[c] = Idle \/ calls[c].id = i
                    /\ \A d \in Calls \ {c} : calls[d].id # i

\* The call that names a device is the only one.
LEMMA Alone ==
  ASSUME TypeOK, OneCall, NEW c \in Calls, calls[c].pc \in Stages
  PROVE  OnlyCallOf(c, calls[c].id)
BY InStage DEF OneCall, OnlyCallOf, TypeOK, CallsOK

\* A client that waits for its answers finds the device without calls.
LEMMA AloneAtFirst ==
  ASSUME TypeOK, OneCallPerId, NEW c \in Calls, NEW id \in Ids, NEW op, MayCall(c, op, id)
  PROVE  OnlyCallOf(c, id) /\ calls[c] = Idle /\ Quiet(id)
BY DEF MayCall, Quiet, OnlyCallOf

\* A step of the only call that names a device leaves one call at a time.
LEMMA OneCallKept ==
  ASSUME CallsOK, OneCall, NEW c \in Calls, NEW i \in Ids, OnlyCallOf(c, i),
         OthersStay(c), calls'[c] = Idle \/ calls'[c].id = i
  PROVE  OneCall'
<1> SUFFICES ASSUME NEW a \in Calls, NEW b \in Calls,
                    calls'[a] # Idle, calls'[b].id = calls'[a].id
             PROVE  b = a
  BY DEF OneCall
<1>1. \A d \in Calls \ {c} : calls'[d] = calls[d] /\ calls[d].id # i
  BY DEF OthersStay, OnlyCallOf
<1>2. CASE a # c /\ b # c
  BY <1>1, <1>2 DEF OneCall
<1>3. CASE a = c /\ b # c
  BY <1>1, <1>3
<1>4. CASE a # c /\ b = c
  <2>1. calls'[a].id \in Ids
    BY <1>1, <1>4, CallFacts DEF CallsOK
  <2>2. calls'[c] # Idle
    BY <1>4, <2>1, ConfigAssumption DEF Idle
  <2> QED
    BY <1>1, <1>4, <2>2
<1> QED
  BY <1>2, <1>3, <1>4

-----------------------------------------------------------------------------
(* Memory, database and announcements agree *)

\* What is known of the device a call is about, by the stage of the call.
StageOK(c) ==
  LET call == calls[c]
      id == call.id IN
  calls[c] # Idle =>
    /\ call.op \in {"create", "delete", "update"}
    /\ call.op \in {"create", "update"} => call.config \in Configs
    /\ call.pc \in {"registering", "syncing", "saving"} =>
         call.op \in {"create", "update"} /\ devices[id] = call.config
    /\ call.pc = "registering" => id \notin announced
    /\ call.pc \in {"syncing", "saving"} => id \in announced
    /\ call.pc = "stopping" => call.op = "update" /\ devices[id] # None
    /\ call.pc \in {"unregistering", "erasing"} =>
         call.op \in {"delete", "update"} /\ devices[id] = None
    /\ call.pc = "erasingAgain" =>
         call.op = "delete" /\ devices[id] = None /\ id \notin announced

Agreement == RowsMatch /\ AnnouncedMatch
AgreementInv == TypeOK /\ OneCall /\ Agreement /\ \A c \in Calls : StageOK(c)

\* What a step about device i may change.
OnlyAbout(i) ==
  \A j \in Ids \ {i} : /\ devices'[j] = devices[j]
                       /\ rows'[j] = rows[j]
                       /\ j \in announced' <=> j \in announced

\* A step of the only call about a device has to leave that device in order.
LEMMA AgreementKept ==
  ASSUME AgreementInv, TypeOK', NEW c \in Calls, NEW i \in Ids, OnlyCallOf(c, i),
         OthersStay(c), OnlyAbout(i), calls'[c] = Idle \/ calls'[c].id = i,
         StageOK(c)',
         calls'[c] = Idle => rows'[i] = devices'[i] /\ (i \in announced' <=> devices'[i] # None)
  PROVE  AgreementInv'
<1>1. CallsOK /\ CallsOK'
  BY DEF AgreementInv, TypeOK, CallsOK
<1>2. OneCall'
  BY <1>1, OneCallKept DEF AgreementInv
<1>3. ASSUME NEW d \in Calls PROVE StageOK(d)'
  <2>1. CASE d = c
    BY <2>1
  <2>2. CASE calls[d] = Idle /\ d # c
    BY <2>2 DEF StageOK, OthersStay
  <2>3. CASE calls[d] # Idle /\ d # c
    <3>1. calls'[d] = calls[d] /\ calls[d].id \in Ids \ {i}
      BY <1>1, <2>3, CallFacts DEF OthersStay, OnlyCallOf, CallsOK
    <3> QED
      BY <3>1 DEF AgreementInv, StageOK, OnlyAbout
  <2> QED
    BY <2>1, <2>2, <2>3
<1>4. ASSUME NEW j \in Ids, Quiet(j)'
      PROVE  rows'[j] = devices'[j] /\ (j \in announced' <=> devices'[j] # None)
  <2>1. CASE j = i
    BY <1>4, <2>1 DEF Quiet
  <2>2. CASE j # i
    <3>1. calls[c].id # j
      BY <2>2, ConfigAssumption DEF OnlyCallOf, Idle
    <3>2. Quiet(j)
      BY <1>4, <3>1 DEF Quiet, OthersStay
    <3> QED
      BY <2>2, <3>2 DEF AgreementInv, Agreement, RowsMatch, AnnouncedMatch, OnlyAbout
  <2> QED
    BY <2>1, <2>2
<1>5. Agreement'
  BY <1>4 DEF Agreement, RowsMatch, AnnouncedMatch
<1> QED
  BY <1>2, <1>3, <1>5 DEF AgreementInv

\* The device is in memory and known to the subscribers when its call returns.
LEMMA AgreementAfterAddTo ==
  ASSUME AgreementInv, TypeOK', NEW c \in Calls, NEW call \in AnyCall,
         call.op \in {"create", "update"}, call.config \in Configs,
         OnlyCallOf(c, call.id), NEW told \in SUBSET Ids, call.id \notin told,
         \A j \in Ids \ {call.id} :
            rows'[j] = rows[j] /\ (j \in told <=> j \in announced),
         NEW q \in Seq(Calls), AddTo(c, call, told, q)
  PROVE  AgreementInv'
<1> DEFINE i == call.id
<1>1. TypeOK /\ i \in Ids
  BY DEF AgreementInv, AnyCall
<1>2. /\ OthersStay(c) /\ devices' = [devices EXCEPT ![call.id] = call.config]
      /\ calls'[c].id = call.id /\ calls'[c].op = call.op
      /\ calls'[c].config = call.config /\ calls'[c] # Idle
      /\ \/ calls'[c].pc = "registering" /\ announced' = told
         \/ calls'[c].pc = "saving" /\ announced' = told \cup {call.id}
  BY <1>1, AddToFacts
<1>3. devices'[i] = call.config
  BY <1>1, <1>2 DEF TypeOK
<1>4. StageOK(c)'
  BY <1>2, <1>3 DEF StageOK
<1>5. OnlyAbout(i)
  BY <1>1, <1>2 DEF OnlyAbout, TypeOK
<1> QED
  BY <1>1, <1>2, <1>4, <1>5, AgreementKept

\* The device is nowhere in memory while its call takes it out.
LEMMA AgreementAfterTakeOut ==
  ASSUME AgreementInv, TypeOK', NEW c \in Calls, NEW call \in AnyCall,
         call.op \in {"delete", "update"}, call.op = "update" => call.config \in Configs,
         OnlyCallOf(c, call.id), rows' = rows,
         NEW q \in Seq(Calls), TakeOut(c, call, q)
  PROVE  AgreementInv'
<1> DEFINE i == call.id
<1>1. TypeOK /\ i \in Ids
  BY DEF AgreementInv, AnyCall
<1>2. /\ OthersStay(c) /\ announced' = announced
      /\ devices' = [devices EXCEPT ![call.id] = None]
      /\ calls'[c].id = call.id /\ calls'[c].op = call.op
      /\ calls'[c].config = call.config /\ calls'[c] # Idle
      /\ calls'[c].pc \in {"unregistering", "erasing"}
  BY <1>1, TakeOutFacts
<1>3. devices'[i] = None
  BY <1>1, <1>2 DEF TypeOK
<1>4. StageOK(c)'
  BY <1>2, <1>3 DEF StageOK
<1>5. OnlyAbout(i)
  BY <1>1, <1>2 DEF OnlyAbout, TypeOK
<1> QED
  BY <1>1, <1>2, <1>4, <1>5, AgreementKept

\* A call moves on and leaves memory as it is.
LEMMA AgreementAfterMove ==
  ASSUME AgreementInv, TypeOK', NEW c \in Calls, NEW i \in Ids, OnlyCallOf(c, i),
         OthersStay(c), calls'[c] = Idle \/ calls'[c].id = i, devices' = devices,
         rows' = rows \/ \E v \in Configs \cup {None} : rows' = [rows EXCEPT ![i] = v],
         announced' \in {announced, announced \cup {i}, announced \ {i}},
         StageOK(c)',
         calls'[c] = Idle => rows'[i] = devices'[i] /\ (i \in announced' <=> devices'[i] # None)
  PROVE  AgreementInv'
<1>1. TypeOK
  BY DEF AgreementInv
<1>2. OnlyAbout(i)
  BY <1>1 DEF OnlyAbout, TypeOK
<1> QED
  BY <1>2, AgreementKept

\* Every step of clients that wait for their answers keeps the records in
\* agreement when the database executes what it is given.
LEMMA AgreementStep ==
  ASSUME OneCallPerId, ~DbMayFail, AgreementInv, [Next]_vars
  PROVE  AgreementInv'
<1>1. TypeOK /\ TypeOK' /\ OneCall /\ CallsOK /\ dbQueue \in Seq(Calls)
      /\ announced \in SUBSET Ids /\ devices \in [Ids -> Configs \cup {None}]
      /\ rows \in [Ids -> Configs \cup {None}]
  BY NextType DEF AgreementInv, TypeOK, CallsOK
<1>2. \A c \in Calls : calls[c].pc \in Stages =>
         /\ calls[c] \in AnyCall /\ calls[c].id \in Ids /\ OnlyCallOf(c, calls[c].id)
         /\ calls[c] # Idle /\ StageOK(c)
  BY <1>1, InStage, CallFacts, Alone DEF AgreementInv
<1>3. ASSUME NEW id \in Ids, Quiet(id)
      PROVE  rows[id] = devices[id] /\ (id \in announced <=> devices[id] # None)
  BY <1>3 DEF AgreementInv, Agreement, RowsMatch, AnnouncedMatch
<1>4. ASSUME NEW c \in Calls, NEW id \in Ids, NEW config \in Configs, Create(c, id, config)
      PROVE  AgreementInv'
  <2> DEFINE call == [op |-> "create", id |-> id, config |-> config, pc |-> "idle"]
  <2>1. call \in AnyCall /\ call.id = id /\ call.config = config /\ call.op = "create"
    BY NewCall
  <2>2. AddTo(c, call, announced, dbQueue) /\ rows' = rows /\ devices[id] = None
        /\ MayCall(c, "create", id)
    BY <1>4 DEF Create
  <2> HIDE DEF call
  <2>3. OnlyCallOf(c, id) /\ id \notin announced
    BY <1>1, <1>3, <2>2, AloneAtFirst
  <2> QED
    BY <1>1, <2>1, <2>2, <2>3, AgreementAfterAddTo
<1>5. ASSUME NEW c \in Calls, NEW id \in Ids, Delete(c, id)
      PROVE  AgreementInv'
  <2> DEFINE call == [op |-> "delete", id |-> id, config |-> None, pc |-> "idle"]
  <2>1. call \in AnyCall /\ call.id = id /\ call.op = "delete"
    BY NewCall
  <2>2. TakeOut(c, call, dbQueue) /\ rows' = rows /\ MayCall(c, "delete", id)
    BY <1>5 DEF Delete
  <2> HIDE DEF call
  <2>3. OnlyCallOf(c, id)
    BY <1>1, <2>2, AloneAtFirst
  <2> QED
    BY <1>1, <2>1, <2>2, <2>3, AgreementAfterTakeOut
<1>6. ASSUME NEW c \in Calls, NEW id \in Ids, NEW config \in Configs, HotUpdate(c, id, config)
      PROVE  AgreementInv'
  <2> DEFINE call == [op |-> "update", id |-> id, config |-> config, pc |-> "idle"]
  <2>1. call \in AnyCall /\ call.id = id /\ call.config = config /\ call.op = "update"
        /\ {"syncing", "saving"} \subseteq Stages
    BY NewCall DEF Stages
  <2>2. /\ devices' = [devices EXCEPT ![id] = config] /\ devices[id] # None
        /\ rows' = rows /\ announced' = announced /\ MayCall(c, "update", id)
        /\ Awaits(c, call, "syncing", dbQueue) \/ Issues(c, call, "saving", dbQueue)
    BY <1>6 DEF HotUpdate
  <2> HIDE DEF call
  <2>3. OnlyCallOf(c, id) /\ id \in announced
    BY <1>1, <1>3, <2>2, AloneAtFirst
  <2>4. /\ OthersStay(c) /\ calls'[c].id = id /\ calls'[c].op = "update"
        /\ calls'[c].config = config /\ calls'[c] # Idle
        /\ calls'[c].pc \in {"syncing", "saving"}
    BY <1>1, <2>1, <2>2, AwaitsFacts, IssuesFacts
  <2>5. devices'[id] = config /\ OnlyAbout(id)
    BY <1>1, <2>2 DEF OnlyAbout
  <2>6. StageOK(c)'
    BY <2>2, <2>3, <2>4, <2>5 DEF StageOK
  <2> QED
    BY <1>1, <2>3, <2>4, <2>5, <2>6, AgreementKept
<1>7. ASSUME NEW c \in Calls, NEW id \in Ids, NEW config \in Configs,
             ChangeProtocol(c, id, config)
      PROVE  AgreementInv'
  <2> DEFINE call == [op |-> "update", id |-> id, config |-> config, pc |-> "idle"]
  <2>1. call \in AnyCall /\ call.id = id /\ call.config = config /\ call.op = "update"
        /\ "stopping" \in Stages
    BY NewCall DEF Stages
  <2>2. /\ rows' = rows /\ devices[id] # None /\ MayCall(c, "update", id)
        /\ \/ TakeOut(c, call, dbQueue)
           \/ Awaits(c, call, "stopping", dbQueue) /\ UNCHANGED <<devices, announced>>
    BY <1>7 DEF ChangeProtocol
  <2> HIDE DEF call
  <2>3. OnlyCallOf(c, id)
    BY <1>1, <2>2, AloneAtFirst
  <2>4. CASE TakeOut(c, call, dbQueue)
    BY <1>1, <2>1, <2>2, <2>3, <2>4, AgreementAfterTakeOut
  <2>5. CASE Awaits(c, call, "stopping", dbQueue) /\ UNCHANGED <<devices, announced>>
    <3>1. /\ OthersStay(c) /\ calls'[c].id = id /\ calls'[c].op = "update"
          /\ calls'[c].config = config /\ calls'[c] # Idle /\ calls'[c].pc = "stopping"
      BY <1>1, <2>1, <2>5, AwaitsFacts
    <3>2. StageOK(c)'
      BY <2>2, <2>5, <3>1 DEF StageOK
    <3> QED
      BY <1>1, <2>2, <2>3, <2>5, <3>1, <3>2, AgreementAfterMove
  <2> QED
    BY <2>2, <2>4, <2>5
<1>8. ASSUME NEW c \in Calls, Registered(c) \/ Synced(c) \/ Unregistered(c)
      PROVE  AgreementInv'
  <2> DEFINE i == calls[c].id
  <2>1. PICK pc \in {"saving", "erasing"} : Issues(c, calls[c], pc, dbQueue)
    BY <1>8 DEF Registered, Synced, Unregistered
  <2>2. /\ calls[c].pc \in Stages /\ pc \in Stages /\ devices' = devices /\ rows' = rows
        /\ \/ /\ calls[c].pc = "registering" /\ announced' = announced \cup {i}
           \/ /\ calls[c].pc \in {"syncing", "unregistering"} /\ announced' = announced
    BY <1>8 DEF Registered, Synced, Unregistered, Stages
  <2>3. pc = IF calls[c].pc = "unregistering" THEN "erasing" ELSE "saving"
    <3>1. calls'[c].pc = pc
      BY <1>1, <1>2, <2>1, <2>2, IssuesFacts
    <3>2. \E p \in Stages : /\ p = IF calls[c].pc = "unregistering" THEN "erasing" ELSE "saving"
                            /\ Issues(c, calls[c], p, dbQueue)
      BY <1>8 DEF Registered, Synced, Unregistered, Stages
    <3> QED
      BY <1>1, <1>2, <2>2, <3>1, <3>2, IssuesFacts
  <2>4. /\ OthersStay(c) /\ calls'[c].id = i /\ calls'[c].op = calls[c].op
        /\ calls'[c].config = calls[c].config /\ calls'[c].pc = pc /\ calls'[c] # Idle
    BY <1>1, <1>2, <2>1, <2>2, IssuesFacts
  <2>5. StageOK(c)'
    BY <1>2, <2>2, <2>3, <2>4 DEF StageOK
  <2> QED
    BY <1>1, <1>2, <2>2, <2>4, <2>5, AgreementAfterMove
<1>9. ASSUME NEW c \in Calls, Stopped(c)
      PROVE  AgreementInv'
  <2>1. calls[c].pc = "stopping" /\ calls[c].pc \in Stages /\ rows' = rows
    BY <1>9 DEF Stopped, Stages
  <2>2. /\ calls[c].op = "update" /\ calls[c].config \in Configs
        /\ devices[calls[c].id] # None
    BY <1>2, <2>1 DEF StageOK
  <2>3. TakeOut(c, calls[c], dbQueue)
    BY <1>9, <2>2 DEF Stopped
  <2> QED
    BY <1>1, <1>2, <2>1, <2>2, <2>3, AgreementAfterTakeOut
<1>10. ASSUME NEW c \in Calls, SaveCreated(c) \/ SaveUpdated(c)
       PROVE  AgreementInv'
  <2>1. Tail(dbQueue) \in Seq(Calls) /\ calls[c].pc = "saving" /\ calls[c].pc \in Stages
    BY <1>1, <1>10, ExecutesFacts DEF SaveCreated, SaveUpdated, Stages
  <2>2. /\ rows' = [rows EXCEPT ![calls[c].id] = calls[c].config]
        /\ Returns(c, Tail(dbQueue)) /\ UNCHANGED <<devices, announced>>
    BY <1>10 DEF SaveCreated, SaveUpdated, Outcomes
  <2>3. OthersStay(c) /\ calls'[c] = Idle
    BY <1>1, <2>1, <2>2, ReturnsFacts
  <2>4. /\ calls[c].config \in Configs /\ devices[calls[c].id] = calls[c].config
        /\ calls[c].id \in announced
    BY <1>2, <2>1 DEF StageOK
  <2>5. rows'[calls[c].id] = calls[c].config /\ calls[c].config # None
    BY <1>1, <1>2, <2>1, <2>2, <2>4, ConfigAssumption
  <2>6. StageOK(c)'
    BY <2>3 DEF StageOK
  <2> QED
    BY <1>1, <1>2, <2>1, <2>2, <2>3, <2>4, <2>5, <2>6, AgreementAfterMove
<1>11. ASSUME NEW c \in Calls, EraseAgain(c)
       PROVE  AgreementInv'
  <2>1. /\ Tail(dbQueue) \in Seq(Calls)
        /\ calls[c].pc = "erasingAgain" /\ calls[c].pc \in Stages
    BY <1>1, <1>11, ExecutesFacts DEF EraseAgain, Stages
  <2>2. /\ rows' = [rows EXCEPT ![calls[c].id] = None]
        /\ Returns(c, Tail(dbQueue)) /\ UNCHANGED <<devices, announced>>
    BY <1>11 DEF EraseAgain, Outcomes
  <2>3. OthersStay(c) /\ calls'[c] = Idle
    BY <1>1, <2>1, <2>2, ReturnsFacts
  <2>4. devices[calls[c].id] = None /\ calls[c].id \notin announced
    BY <1>2, <2>1 DEF StageOK
  <2>5. rows'[calls[c].id] = None
    BY <1>1, <1>2, <2>1, <2>2
  <2>6. StageOK(c)'
    BY <2>3 DEF StageOK
  <2> QED
    BY <1>1, <1>2, <2>1, <2>2, <2>3, <2>4, <2>5, <2>6, AgreementAfterMove
<1>12. ASSUME NEW c \in Calls, Erase(c)
       PROVE  AgreementInv'
  <2> DEFINE i == calls[c].id
             told == announced \ {calls[c].id}
  <2>1. /\ Tail(dbQueue) \in Seq(Calls) /\ calls[c].pc = "erasing"
        /\ calls[c].pc \in Stages /\ "erasingAgain" \in Stages
    BY <1>1, <1>12, ExecutesFacts DEF Erase, Stages
  <2>2. /\ calls[c].op \in {"delete", "update"} /\ devices[i] = None
        /\ calls[c].op = "update" => calls[c].config \in Configs
    BY <1>2, <2>1 DEF StageOK
  <2>3. rows' = [rows EXCEPT ![i] = None]
    BY <1>12 DEF Erase, Outcomes
  <2>4. CASE calls[c].op = "delete"
    <3>1. announced' = told /\ Issues(c, calls[c], "erasingAgain", Tail(dbQueue))
          /\ devices' = devices
      BY <1>12, <2>4 DEF Erase
    <3>2. /\ OthersStay(c) /\ calls'[c].id = i /\ calls'[c].op = "delete"
          /\ calls'[c].pc = "erasingAgain" /\ calls'[c] # Idle
      <4>1. calls[c] \in AnyCall
        BY <1>2, <2>1
      <4>2. Issues(c, calls[c], "erasingAgain", Tail(dbQueue))
        BY <3>1
      <4>3. /\ OthersStay(c) /\ calls'[c].id = i /\ calls'[c].op = calls[c].op
            /\ calls'[c].pc = "erasingAgain" /\ calls'[c] # Idle
        BY <1>1, <2>1, <4>1, <4>2, IssuesFacts, ZenonT(60)
      <4> QED
        BY <2>4, <4>3
    <3>3. StageOK(c)'
      BY <2>2, <3>1, <3>2 DEF StageOK
    <3> QED
      BY <1>1, <1>2, <2>1, <2>3, <3>1, <3>2, <3>3, AgreementAfterMove
  <2>5. CASE calls[c].op = "update"
    <3>1. AddTo(c, calls[c], told, Tail(dbQueue))
      BY <1>12, <2>2, <2>5 DEF Erase, Recreate
    <3>2. /\ told \in SUBSET Ids /\ i \notin told
          /\ \A j \in Ids \ {i} : rows'[j] = rows[j] /\ (j \in told <=> j \in announced)
      BY <1>1, <1>2, <2>1, <2>3
    <3> HIDE DEF told
    <3> QED
      BY <1>1, <1>2, <2>1, <2>2, <2>5, <3>1, <3>2, AgreementAfterAddTo
  <2> QED
    BY <2>2, <2>4, <2>5
<1>13. ASSUME Restart PROVE AgreementInv'
  <2>1. /\ devices' = rows /\ rows' = rows /\ announced' = {id \in Ids : rows[id] # None}
        /\ \A c \in Calls : calls'[c] = Idle
    BY <1>13 DEF Restart
  <2>2. OneCall' /\ \A c \in Calls : StageOK(c)'
    <3>1. \A c \in Calls : StageOK(c)'
      BY <2>1 DEF StageOK
    <3>2. OneCall'
      BY <2>1 DEF OneCall
    <3> QED
      BY <3>1, <3>2
  <2>3. Agreement'
    BY <2>1 DEF Agreement, RowsMatch, AnnouncedMatch
  <2> QED
    BY <1>1, <2>2, <2>3 DEF AgreementInv
<1>14. CASE UNCHANGED vars
  BY <1>14 DEF vars, AgreementInv, TypeOK, OneCall, Agreement, RowsMatch, AnnouncedMatch,
               Quiet, StageOK
<1> QED
  BY <1>4, <1>5, <1>6, <1>7, <1>8, <1>9, <1>10, <1>11, <1>12, <1>13, <1>14 DEF Next

\* The invariant holds before the first call.
LEMMA AgreementInit == Init => AgreementInv
BY DEF Init, AgreementInv, TypeOK, OneCall, Agreement, RowsMatch, AnnouncedMatch,
       Quiet, StageOK

\* The invariant of clients that wait, over a database that executes.
LEMMA AgreementAlways ==
  ASSUME OneCallPerId, ~DbMayFail
  PROVE  Spec => []AgreementInv
<1>1. AgreementInv /\ [Next]_vars => AgreementInv'
  BY AgreementStep
<1> QED
  BY <1>1, AgreementInit, PTL DEF Spec

\* While clients wait for their answers and statements succeed, memory and
\* database hold the same device whenever no call about it is in flight: slow
\* servers, changes of protocol and crashes at any point lose and revive nothing.
THEOREM MemoryIsDatabase ==
  ASSUME OneCallPerId, ~DbMayFail
  PROVE  Spec => []RowsMatch
<1>1. AgreementInv => RowsMatch
  BY DEF AgreementInv, Agreement
<1> QED
  BY <1>1, AgreementAlways, PTL

\* Under the same conditions the subscribers of DeviceCreated and DeviceRemoved
\* know exactly the devices that exist, between calls about them.
THEOREM SubscribersKnow ==
  ASSUME OneCallPerId, ~DbMayFail
  PROVE  Spec => []AnnouncedMatch
<1>1. AgreementInv => AnnouncedMatch
  BY DEF AgreementInv, Agreement
<1> QED
  BY <1>1, AgreementAlways, PTL

-----------------------------------------------------------------------------
(* Confirmed devices survive *)

\* A confirmed device is in memory and on disk, call or no call.
OwedKept == \A id \in owed : devices[id] # None /\ rows[id] # None

\* Only an update, and one that does not take the device out, is about a
\* confirmed device; a creation that waits for its row has its device in memory.
MildOK(c) ==
  LET call == calls[c] IN
  calls[c] # Idle =>
    /\ call.op \in {"create", "update"} => call.config \in Configs
    /\ call.op = "create" => /\ call.pc \in {"registering", "saving"}
                             /\ devices[call.id] # None
    /\ call.op = "update" => call.pc \in {"syncing", "saving"}
    /\ call.op \in {"delete", "rollback"} =>
         call.pc \in {"unregistering", "erasing", "erasingAgain"}
    /\ call.op # "update" => call.id \notin owed

DurableInv == TypeOK /\ OneCall /\ OwedKept /\ \A c \in Calls : MildOK(c)

\* Clients may only send configurations for one protocol.
OneProtocol == \A a, b \in Configs : Protocol[a] = Protocol[b]

\* A step of the only call about a device has to leave that device in order.
LEMMA DurableKept ==
  ASSUME DurableInv, TypeOK', NEW c \in Calls, NEW i \in Ids, OnlyCallOf(c, i),
         OthersStay(c), calls'[c] = Idle \/ calls'[c].id = i, MildOK(c)',
         \A j \in Ids \ {i} : /\ devices'[j] = devices[j] /\ rows'[j] = rows[j]
                              /\ j \in owed' <=> j \in owed,
         i \in owed' => devices'[i] # None /\ rows'[i] # None
  PROVE  DurableInv'
<1>1. CallsOK /\ CallsOK'
  BY DEF DurableInv, TypeOK, CallsOK
<1>2. OneCall'
  BY <1>1, OneCallKept DEF DurableInv
<1>3. ASSUME NEW d \in Calls PROVE MildOK(d)'
  <2>1. CASE d = c
    BY <2>1
  <2>2. CASE calls[d] = Idle /\ d # c
    BY <2>2 DEF MildOK, OthersStay
  <2>3. CASE calls[d] # Idle /\ d # c
    <3>1. calls'[d] = calls[d] /\ calls[d].id \in Ids \ {i}
      BY <1>1, <2>3, CallFacts DEF OthersStay, OnlyCallOf, CallsOK
    <3> QED
      BY <3>1 DEF DurableInv, MildOK
  <2> QED
    BY <2>1, <2>2, <2>3
<1>4. OwedKept'
  <2>1. owed' \subseteq Ids
    BY DEF TypeOK
  <2> QED
    BY <2>1 DEF DurableInv, OwedKept
<1> QED
  BY <1>2, <1>3, <1>4 DEF DurableInv

\* A step that takes a device out of memory is about one that is not confirmed.
LEMMA DurableAfterTakeOut ==
  ASSUME DurableInv, TypeOK', NEW c \in Calls, NEW call \in AnyCall,
         call.op \in {"delete", "rollback"}, OnlyCallOf(c, call.id), rows' = rows,
         owed' \in {owed, owed \ {call.id}}, call.id \notin owed',
         NEW q \in Seq(Calls), TakeOut(c, call, q)
  PROVE  DurableInv'
<1>1. TypeOK /\ call.id \in Ids
  BY DEF DurableInv, AnyCall
<1>2. /\ OthersStay(c) /\ devices' = [devices EXCEPT ![call.id] = None]
      /\ calls'[c].id = call.id /\ calls'[c].op = call.op /\ calls'[c] # Idle
      /\ calls'[c].pc \in {"unregistering", "erasing"}
  BY <1>1, TakeOutFacts
<1>3. MildOK(c)'
  BY <1>2 DEF MildOK
<1>4. \A j \in Ids \ {call.id} : /\ devices'[j] = devices[j] /\ rows'[j] = rows[j]
                                 /\ j \in owed' <=> j \in owed
  BY <1>1, <1>2 DEF TypeOK
<1> QED
  BY <1>1, <1>2, <1>3, <1>4, DurableKept

\* A call moves on and leaves memory as it is; the row it writes is a device, or
\* the device is not confirmed.
LEMMA DurableAfterMove ==
  ASSUME DurableInv, TypeOK', NEW c \in Calls, NEW i \in Ids, OnlyCallOf(c, i),
         OthersStay(c), calls'[c] = Idle \/ calls'[c].id = i, MildOK(c)',
         devices' = devices, owed' = owed,
         rows' = rows \/ \E v \in Configs \cup {None} :
                           /\ rows' = [rows EXCEPT ![i] = v]
                           /\ i \in owed => v # None
  PROVE  DurableInv'
<1>1. TypeOK
  BY DEF DurableInv
<1>2. \A j \in Ids \ {i} : devices'[j] = devices[j] /\ rows'[j] = rows[j]
  BY <1>1 DEF TypeOK
<1>3. i \in owed => devices'[i] # None /\ rows'[i] # None
  BY <1>1 DEF TypeOK, DurableInv, OwedKept
<1> QED
  BY <1>2, <1>3, DurableKept

\* No step takes a confirmed device away, whichever statements fail.
LEMMA DurableStep ==
  ASSUME OneCallPerId, OneProtocol, DurableInv, [Next]_vars
  PROVE  DurableInv'
<1>1. TypeOK /\ TypeOK' /\ OneCall /\ CallsOK /\ dbQueue \in Seq(Calls)
      /\ announced \in SUBSET Ids /\ devices \in [Ids -> Configs \cup {None}]
      /\ rows \in [Ids -> Configs \cup {None}] /\ owed \subseteq Ids
  BY NextType DEF DurableInv, TypeOK, CallsOK
<1>2. \A c \in Calls : calls[c].pc \in Stages =>
         /\ calls[c] \in AnyCall /\ calls[c].id \in Ids /\ OnlyCallOf(c, calls[c].id)
         /\ calls[c] # Idle /\ MildOK(c)
  BY <1>1, InStage, CallFacts, Alone DEF DurableInv
<1>3. \A id \in owed : devices[id] # None /\ rows[id] # None
  BY DEF DurableInv, OwedKept
<1>4. ASSUME NEW c \in Calls, NEW id \in Ids, NEW config \in Configs, Create(c, id, config)
      PROVE  DurableInv'
  <2> DEFINE call == [op |-> "create", id |-> id, config |-> config, pc |-> "idle"]
  <2>1. call \in AnyCall /\ call.id = id /\ call.config = config /\ call.op = "create"
    BY NewCall
  <2>2. AddTo(c, call, announced, dbQueue) /\ rows' = rows /\ owed' = owed
        /\ devices[id] = None /\ MayCall(c, "create", id)
    BY <1>4 DEF Create
  <2> HIDE DEF call
  <2>3. OnlyCallOf(c, id) /\ id \notin owed
    BY <1>1, <1>3, <2>2, AloneAtFirst
  <2>4. /\ OthersStay(c) /\ devices' = [devices EXCEPT ![call.id] = call.config]
        /\ calls'[c].id = call.id /\ calls'[c].op = call.op
        /\ calls'[c].config = call.config /\ calls'[c] # Idle
        /\ calls'[c].pc \in {"registering", "saving"}
    BY <1>1, <2>1, <2>2, AddToFacts
  <2>5. devices'[id] = config /\ config # None
        /\ \A j \in Ids \ {id} : devices'[j] = devices[j]
    BY <1>1, <2>1, <2>4, ConfigAssumption
  <2>6. MildOK(c)'
    BY <2>1, <2>2, <2>3, <2>4, <2>5 DEF MildOK
  <2> QED
    BY <1>1, <2>1, <2>2, <2>3, <2>4, <2>5, <2>6, DurableKept
<1>5. ASSUME NEW c \in Calls, NEW id \in Ids, Delete(c, id)
      PROVE  DurableInv'
  <2> DEFINE call == [op |-> "delete", id |-> id, config |-> None, pc |-> "idle"]
  <2>1. call \in AnyCall /\ call.id = id /\ call.op = "delete"
    BY NewCall
  <2>2. TakeOut(c, call, dbQueue) /\ rows' = rows /\ owed' = owed \ {id}
        /\ MayCall(c, "delete", id)
    BY <1>5 DEF Delete
  <2> HIDE DEF call
  <2>3. OnlyCallOf(c, id)
    BY <1>1, <2>2, AloneAtFirst
  <2> QED
    BY <1>1, <2>1, <2>2, <2>3, DurableAfterTakeOut
<1>6. ASSUME NEW c \in Calls, NEW id \in Ids, NEW config \in Configs, HotUpdate(c, id, config)
      PROVE  DurableInv'
  <2> DEFINE call == [op |-> "update", id |-> id, config |-> config, pc |-> "idle"]
  <2>1. call \in AnyCall /\ call.id = id /\ call.config = config /\ call.op = "update"
        /\ {"syncing", "saving"} \subseteq Stages
    BY NewCall DEF Stages
  <2>2. /\ devices' = [devices EXCEPT ![id] = config]
        /\ rows' = rows /\ owed' = owed /\ MayCall(c, "update", id)
        /\ Awaits(c, call, "syncing", dbQueue) \/ Issues(c, call, "saving", dbQueue)
    BY <1>6 DEF HotUpdate
  <2> HIDE DEF call
  <2>3. OnlyCallOf(c, id)
    BY <1>1, <2>2, AloneAtFirst
  <2>4. /\ OthersStay(c) /\ calls'[c].id = id /\ calls'[c].op = "update"
        /\ calls'[c].config = config /\ calls'[c] # Idle
        /\ calls'[c].pc \in {"syncing", "saving"}
    BY <1>1, <2>1, <2>2, AwaitsFacts, IssuesFacts
  <2>5. devices'[id] = config /\ config # None
        /\ \A j \in Ids \ {id} : devices'[j] = devices[j]
    BY <1>1, <2>2, ConfigAssumption
  <2>6. MildOK(c)'
    BY <2>4 DEF MildOK
  <2> QED
    BY <1>1, <1>3, <2>2, <2>3, <2>4, <2>5, <2>6, DurableKept
<1>7. ASSUME NEW c \in Calls, NEW id \in Ids, NEW config \in Configs,
             ChangeProtocol(c, id, config)
      PROVE  DurableInv'
  <2>1. devices[id] # None /\ Protocol[config] # Protocol[devices[id]]
    BY <1>7 DEF ChangeProtocol
  <2> QED
    BY <1>1, <2>1 DEF OneProtocol
<1>8. ASSUME NEW c \in Calls, Registered(c) \/ Synced(c) \/ Unregistered(c)
      PROVE  DurableInv'
  <2>1. PICK pc \in {"saving", "erasing"} :
           /\ Issues(c, calls[c], pc, dbQueue)
           /\ pc = IF calls[c].pc = "unregistering" THEN "erasing" ELSE "saving"
    BY <1>8 DEF Registered, Synced, Unregistered
  <2>2. /\ calls[c].pc \in Stages /\ pc \in Stages /\ devices' = devices /\ rows' = rows
        /\ calls[c].pc \in {"registering", "syncing", "unregistering"} /\ owed' = owed
    BY <1>8 DEF Registered, Synced, Unregistered, Stages
  <2>3. /\ OthersStay(c) /\ calls'[c].id = calls[c].id /\ calls'[c].op = calls[c].op
        /\ calls'[c].config = calls[c].config /\ calls'[c].pc = pc /\ calls'[c] # Idle
    BY <1>1, <1>2, <2>1, <2>2, IssuesFacts
  <2>4. MildOK(c)'
    BY <1>2, <2>1, <2>2, <2>3 DEF MildOK
  <2> QED
    BY <1>1, <1>2, <2>2, <2>3, <2>4, DurableAfterMove
<1>9. ASSUME NEW c \in Calls, Stopped(c)
      PROVE  DurableInv'
  <2>1. calls[c].pc = "stopping" /\ calls[c].pc \in Stages
    BY <1>9 DEF Stopped, Stages
  <2>2. calls[c].op \in {"create", "delete", "update", "rollback"}
    BY <1>2, <2>1 DEF AnyCall
  <2> QED
    BY <1>2, <2>1, <2>2 DEF MildOK
<1>10. ASSUME NEW c \in Calls, SaveCreated(c)
       PROVE  DurableInv'
  <2>1. /\ Tail(dbQueue) \in Seq(Calls) /\ calls[c].pc = "saving"
        /\ calls[c].pc \in Stages /\ calls[c].op = "create"
    BY <1>1, <1>10, ExecutesFacts DEF SaveCreated, Stages
  <2>2. /\ calls[c].config \in Configs /\ devices[calls[c].id] # None
        /\ calls[c].id \notin owed
    BY <1>2, <2>1 DEF MildOK
  <2>3. CASE /\ rows' = [rows EXCEPT ![calls[c].id] = calls[c].config]
             /\ owed' = owed \cup {calls[c].id}
             /\ Returns(c, Tail(dbQueue)) /\ UNCHANGED <<devices, announced>>
    <3>1. OthersStay(c) /\ calls'[c] = Idle
      BY <1>1, <2>1, <2>3, ReturnsFacts
    <3>2. MildOK(c)'
      BY <3>1 DEF MildOK
    <3>3. /\ rows'[calls[c].id] = calls[c].config /\ calls[c].config # None
          /\ \A j \in Ids \ {calls[c].id} : rows'[j] = rows[j] /\ (j \in owed' <=> j \in owed)
      BY <1>1, <1>2, <2>1, <2>2, <2>3, ConfigAssumption
    <3> QED
      BY <1>1, <1>2, <2>1, <2>2, <2>3, <3>1, <3>2, <3>3, DurableKept
  <2>4. CASE /\ UNCHANGED <<rows, owed>>
             /\ TakeOut(c, [calls[c] EXCEPT !.op = "rollback"], Tail(dbQueue))
    <3> DEFINE call == [calls[c] EXCEPT !.op = "rollback"]
    <3>1. call \in AnyCall /\ call.id = calls[c].id /\ call.op = "rollback"
      BY <1>2, <2>1 DEF AnyCall
    <3>2. TakeOut(c, call, Tail(dbQueue)) /\ rows' = rows /\ owed' = owed
      BY <2>4
    <3> HIDE DEF call
    <3> QED
      BY <1>1, <1>2, <2>1, <2>2, <3>1, <3>2, DurableAfterTakeOut
  <2>5. CASE UNCHANGED <<rows, owed, devices, announced>> /\ Returns(c, Tail(dbQueue))
    <3>1. OthersStay(c) /\ calls'[c] = Idle
      BY <1>1, <2>1, <2>5, ReturnsFacts
    <3>2. MildOK(c)'
      BY <3>1 DEF MildOK
    <3> QED
      BY <1>1, <1>2, <2>1, <2>5, <3>1, <3>2, DurableAfterMove
  <2> QED
    BY <1>10, <2>3, <2>4, <2>5 DEF SaveCreated
<1>11. ASSUME NEW c \in Calls, SaveUpdated(c)
       PROVE  DurableInv'
  <2>1. /\ Tail(dbQueue) \in Seq(Calls) /\ calls[c].pc = "saving"
        /\ calls[c].pc \in Stages /\ calls[c].op = "update"
    BY <1>1, <1>11, ExecutesFacts DEF SaveUpdated, Stages
  <2>2. /\ rows' \in {rows, [rows EXCEPT ![calls[c].id] = calls[c].config]}
        /\ Returns(c, Tail(dbQueue)) /\ UNCHANGED <<devices, announced, owed>>
    BY <1>11 DEF SaveUpdated
  <2>3. OthersStay(c) /\ calls'[c] = Idle
    BY <1>1, <2>1, <2>2, ReturnsFacts
  <2>4. calls[c].config \in Configs /\ calls[c].config # None
    BY <1>2, <2>1, ConfigAssumption DEF MildOK
  <2>5. MildOK(c)'
    BY <2>3 DEF MildOK
  <2> QED
    BY <1>1, <1>2, <2>1, <2>2, <2>3, <2>4, <2>5, DurableAfterMove
<1>12. ASSUME NEW c \in Calls, Erase(c) \/ EraseAgain(c)
       PROVE  DurableInv'
  <2>1. /\ Tail(dbQueue) \in Seq(Calls) /\ calls[c].pc \in {"erasing", "erasingAgain"}
        /\ calls[c].pc \in Stages /\ "erasingAgain" \in Stages
    BY <1>1, <1>12, ExecutesFacts DEF Erase, EraseAgain, Stages
  <2>2. calls[c].op \in {"create", "delete", "update", "rollback"}
    BY <1>2, <2>1 DEF AnyCall
  <2>3. calls[c].op \in {"delete", "rollback"} /\ calls[c].id \notin owed
    BY <1>2, <2>1, <2>2 DEF MildOK
  <2>4. /\ rows' \in {rows, [rows EXCEPT ![calls[c].id] = None]}
        /\ devices' = devices /\ owed' = owed
        /\ \/ Issues(c, calls[c], "erasingAgain", Tail(dbQueue))
           \/ Returns(c, Tail(dbQueue))
    BY <1>12, <2>3 DEF Erase, EraseAgain
  <2>5. CASE Issues(c, calls[c], "erasingAgain", Tail(dbQueue))
    <3>1. /\ OthersStay(c) /\ calls'[c].id = calls[c].id /\ calls'[c].op = calls[c].op
          /\ calls'[c].pc = "erasingAgain" /\ calls'[c] # Idle
      BY <1>1, <1>2, <2>1, <2>5, IssuesFacts, ZenonT(60)
    <3>2. MildOK(c)'
      BY <2>3, <2>4, <3>1 DEF MildOK
    <3> QED
      BY <1>1, <1>2, <2>1, <2>3, <2>4, <3>1, <3>2, DurableAfterMove
  <2>6. CASE Returns(c, Tail(dbQueue))
    <3>1. OthersStay(c) /\ calls'[c] = Idle
      BY <1>1, <2>1, <2>6, ReturnsFacts
    <3>2. MildOK(c)'
      BY <3>1 DEF MildOK
    <3> QED
      BY <1>1, <1>2, <2>1, <2>3, <2>4, <3>1, <3>2, DurableAfterMove
  <2> QED
    BY <2>4, <2>5, <2>6
<1>13. ASSUME Restart PROVE DurableInv'
  <2>1. /\ devices' = rows /\ rows' = rows /\ owed' = owed
        /\ \A c \in Calls : calls'[c] = Idle
    BY <1>13 DEF Restart
  <2>2. \A c \in Calls : MildOK(c)'
    BY <2>1 DEF MildOK
  <2>3. OneCall'
    BY <2>1 DEF OneCall
  <2>4. OwedKept'
    BY <1>3, <2>1 DEF OwedKept
  <2> QED
    BY <1>1, <2>2, <2>3, <2>4 DEF DurableInv
<1>14. CASE UNCHANGED vars
  BY <1>14 DEF vars, DurableInv, TypeOK, OneCall, OwedKept, MildOK
<1> QED
  BY <1>4, <1>5, <1>6, <1>7, <1>8, <1>9, <1>10, <1>11, <1>12, <1>13, <1>14 DEF Next

\* The invariant holds before the first call.
LEMMA DurableInit == Init => DurableInv
BY DEF Init, DurableInv, TypeOK, OneCall, OwedKept, MildOK

\* While clients wait for their answers and updates keep the protocol, a device
\* whose creation was confirmed stays in memory and on disk until someone asks
\* to delete it, whichever statements fail and whenever the process dies.
THEOREM ConfirmedSurvive ==
  ASSUME OneCallPerId, OneProtocol
  PROVE  Spec => []AcknowledgedSurvives
<1>1. DurableInv /\ [Next]_vars => DurableInv'
  BY DurableStep
<1>2. DurableInv => AcknowledgedSurvives
  BY DEF DurableInv, OwedKept, AcknowledgedSurvives
<1> QED
  BY <1>1, <1>2, DurableInit, PTL DEF Spec
=============================================================================
