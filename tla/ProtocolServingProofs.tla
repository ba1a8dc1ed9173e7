------------------------ MODULE ProtocolServingProofs ------------------------
(***************************************************************************)
(* Theorems about ProtocolServing, for any devices, calls in flight and    *)
(* number of attempts.                                                     *)
(***************************************************************************)
EXTENDS ProtocolServing, TLAPS

\* A start that waits to be tried again has an attempt left.
LegalStarts == {k \in StartTypes : k.pc = "retrying" => k.attempt < MaxAttempts}

TypeInv == ServingTypeOK /\ starts \in [Starts -> LegalStarts]

\* The empty slots of the two kinds of call.
LEMMA SlotFacts ==
  /\ NoCreate \in CreateTypes /\ NoCreate.id = Nobody /\ NoCreate.live = FALSE
  /\ NoStart \in LegalStarts /\ NoStart.pc = "idle"
BY ServingAssumption DEF NoCreate, CreateTypes, NoStart, StartTypes, LegalStarts

-----------------------------------------------------------------------------
(* Types *)

\* What the steps of start_protocol make of a call.
LEMMA StartFacts ==
  ASSUME NEW k \in LegalStarts, NEW S \in SUBSET Hosted
  PROVE  /\ [pc |-> "starting", attempt |-> 1, todo |-> {}] \in LegalStarts
         /\ [k EXCEPT !.pc = "settling"] \in LegalStarts
         /\ [k EXCEPT !.pc = "registering", !.todo = S] \in LegalStarts
         /\ [k EXCEPT !.todo = @ \ S] \in LegalStarts
         /\ k.attempt < MaxAttempts => [k EXCEPT !.pc = "retrying"] \in LegalStarts
         /\ k.pc = "retrying" =>
              [k EXCEPT !.pc = "starting", !.attempt = @ + 1] \in LegalStarts
<1> USE ServingAssumption DEF LegalStarts, StartTypes
<1>1. [pc |-> "starting", attempt |-> 1, todo |-> {}] \in LegalStarts
  OBVIOUS
<1>2. /\ [k EXCEPT !.pc = "settling"] \in LegalStarts
      /\ [k EXCEPT !.pc = "registering", !.todo = S] \in LegalStarts
  OBVIOUS
<1>3. [k EXCEPT !.todo = @ \ S] \in LegalStarts
  OBVIOUS
<1>4. k.attempt < MaxAttempts => [k EXCEPT !.pc = "retrying"] \in LegalStarts
  OBVIOUS
<1>5. k.pc = "retrying" =>
        [k EXCEPT !.pc = "starting", !.attempt = @ + 1] \in LegalStarts
  <2> SUFFICES ASSUME k.pc = "retrying"
               PROVE  [k EXCEPT !.pc = "starting", !.attempt = @ + 1] \in LegalStarts
    OBVIOUS
  <2>1. k.attempt + 1 \in 0..MaxAttempts
    OBVIOUS
  <2>2. ASSUME NEW n \in 0..MaxAttempts
        PROVE  [k EXCEPT !.pc = "starting", !.attempt = n] \in LegalStarts
    OBVIOUS
  <2>3. [k EXCEPT !.pc = "starting", !.attempt = k.attempt + 1] \in LegalStarts
    <3> HIDE DEF LegalStarts, StartTypes
    <3> QED
      BY <2>1, <2>2
  <2> QED
    BY <2>3, Zenon
<1> QED
  BY <1>1, <1>2, <1>3, <1>4, <1>5

\* A step of one call of start_protocol keeps the types of all.
LEMMA ProceedType ==
  ASSUME TypeInv, NEW c \in Starts, NEW k \in LegalStarts, Proceed(c, k)
  PROVE  /\ starts' \in [Starts -> LegalStarts] /\ starts' \in [Starts -> StartTypes]
         /\ starts'[c] = k /\ \A d \in Starts \ {c} : starts'[d] = starts[d]
BY DEF TypeInv, Proceed, LegalStarts

\* Registering adds some of the devices that are left to do.
LEMMA ReregisterFacts ==
  ASSUME TypeInv, NEW c \in Starts, Reregister(c)
  PROVE  /\ starts[c].pc = "registering" /\ starts[c] \in LegalStarts
         /\ UNCHANGED <<held, state, server, creates, asked>>
         /\ \/ starts[c].todo = {} /\ Proceed(c, NoStart) /\ UNCHANGED <<served, refused>>
            \/ \E S \in SUBSET Hosted : /\ Offered(S)
                                     /\ Proceed(c, [starts[c] EXCEPT !.todo = @ \ S])
<1>1. starts[c] \in LegalStarts /\ starts[c].todo \subseteq Hosted
  BY DEF TypeInv, LegalStarts, StartTypes
<1> QED
  BY <1>1 DEF Reregister

\* Every step keeps the types.
LEMMA NextType ==
  ASSUME TypeInv, [ServingNext]_servingVars
  PROVE  TypeInv'
<1> DEFINE Used == {"STOP", "STARTING", "RUN", "STOPPING", "ERROR"}
<1>1. ASSUME NEW c \in Creates, NEW id \in Hosted, CreateDevice(c, id)
      PROVE  TypeInv'
  <2>1. creates' \in [Creates -> CreateTypes]
    <3>1. [id |-> id, live |-> TRUE] \in CreateTypes
      BY DEF CreateTypes
    <3>2. \/ creates' = creates
          \/ creates' = [creates EXCEPT ![c] = [id |-> id, live |-> TRUE]]
      BY <1>1 DEF CreateDevice
    <3> QED
      BY <3>1, <3>2 DEF TypeInv, ServingTypeOK
  <2>2. state' \in [Hosted -> Used]
    BY <1>1 DEF CreateDevice, TypeInv, ServingTypeOK, Move
  <2>3. /\ held' \subseteq Hosted /\ served' \subseteq Hosted /\ refused' \subseteq Hosted
        /\ asked' \in [Hosted -> {"nothing", "start", "stop"}]
        /\ server' = server /\ starts' = starts
    BY <1>1 DEF CreateDevice, TypeInv, ServingTypeOK
  <2> QED
    BY <2>1, <2>2, <2>3 DEF TypeInv, ServingTypeOK
<1>2. ASSUME NEW c \in Creates, Created(c)
      PROVE  TypeInv'
  <2>1. creates' \in [Creates -> CreateTypes]
    BY <1>2, SlotFacts DEF Created, TypeInv, ServingTypeOK
  <2>2. state' \in [Hosted -> Used]
    BY <1>2 DEF Created, TypeInv, ServingTypeOK, Move
  <2> QED
    BY <1>2, <2>1, <2>2 DEF Created, TypeInv, ServingTypeOK
<1>3. ASSUME NEW id \in Hosted, RemoveDevice(id)
      PROVE  TypeInv'
  <2>1. creates' \in [Creates -> CreateTypes]
    BY <1>3 DEF RemoveDevice, TypeInv, ServingTypeOK, CreateTypes
  <2> QED
    BY <1>3, <2>1 DEF RemoveDevice, TypeInv, ServingTypeOK, Move
<1>4. ASSUME NEW id \in Hosted, StartDevice(id)
      PROVE  TypeInv'
  <2>1. served' \subseteq Hosted /\ refused' \subseteq Hosted
    BY <1>4 DEF StartDevice, Offered, TypeInv, ServingTypeOK
  <2> QED
    BY <1>4, <2>1 DEF StartDevice, TypeInv, ServingTypeOK, Move
<1>5. ASSUME NEW id \in Hosted, StopDevice(id)
      PROVE  TypeInv'
  BY <1>5 DEF StopDevice, TypeInv, ServingTypeOK, Move
<1>6. ASSUME NEW id \in Hosted, TickDevice(id) \/ FaultDevice(id)
      PROVE  TypeInv'
  BY <1>6 DEF TickDevice, FaultDevice, TypeInv, ServingTypeOK, Move
<1>7. ASSUME NEW c \in Starts, StartProtocol(c) \/ ServerStarts(c) \/ ServerStartFails(c)
      PROVE  TypeInv'
  <2>1. starts[c] \in LegalStarts /\ {} \in SUBSET Hosted
    BY DEF TypeInv
  <2>2. /\ UNCHANGED <<held, state, served, creates, asked, refused>>
        /\ server' \in {"starting", "running", "error"}
        /\ \E k \in LegalStarts : Proceed(c, k)
    BY <1>7, <2>1, StartFacts, SlotFacts DEF StartProtocol, ServerStarts, ServerStartFails
  <2> QED
    BY <2>2, ProceedType DEF TypeInv, ServingTypeOK
<1>8. ASSUME NEW c \in Starts, RetryStart(c) \/ Settled(c)
      PROVE  TypeInv'
  <2>1. starts[c] \in LegalStarts /\ held \in SUBSET Hosted
    BY DEF TypeInv, ServingTypeOK
  <2>2. /\ UNCHANGED <<held, state, served, creates, asked, refused>>
        /\ server' \in {"starting", "stopped", server}
        /\ \E k \in LegalStarts : Proceed(c, k)
    BY <1>8, <2>1, StartFacts, SlotFacts DEF RetryStart, Settled
  <2> QED
    BY <2>2, ProceedType DEF TypeInv, ServingTypeOK
<1>9. ASSUME NEW c \in Starts, Reregister(c)
      PROVE  TypeInv'
  <2>1. /\ UNCHANGED <<held, state, server, creates, asked>>
        /\ served' \subseteq Hosted /\ refused' \subseteq Hosted
    BY <1>9, ReregisterFacts DEF Offered, TypeInv, ServingTypeOK
  <2>2. \E k \in LegalStarts : Proceed(c, k)
    BY <1>9, ReregisterFacts, StartFacts, SlotFacts
  <2> QED
    BY <2>1, <2>2, ProceedType DEF TypeInv, ServingTypeOK
<1>10. ASSUME ServerBreaks \/ StopProtocol PROVE TypeInv'
  BY <1>10 DEF ServerBreaks, StopProtocol, TypeInv, ServingTypeOK
<1>11. CASE UNCHANGED servingVars
  BY <1>11 DEF servingVars, TypeInv, ServingTypeOK
<1> QED
  BY <1>1, <1>2, <1>3, <1>4, <1>5, <1>6, <1>7, <1>8, <1>9, <1>10, <1>11 DEF ServingNext

\* The variables start with their types.
LEMMA InitType == ServingInit => TypeInv
BY SlotFacts DEF ServingInit, TypeInv, ServingTypeOK, LegalStarts

\* Whatever clients and the server do, the variables keep their types; in
\* particular no start of a protocol is tried more than MaxAttempts times.
THEOREM TypeCorrect == ServingSpec => []ServingTypeOK
<1>1. TypeInv /\ [ServingNext]_servingVars => TypeInv'
  BY NextType
<1>2. TypeInv => ServingTypeOK
  BY DEF TypeInv
<1> QED
  BY <1>1, <1>2, InitType, PTL DEF ServingSpec

-----------------------------------------------------------------------------
(* Started devices are served *)

Started(id) == id \in held /\ state[id] \in {"STARTING", "RUN"}

\* The devices the server was given: it took them or refused them.
Given == served \cup refused

\* A start of the protocol has still to come to a device.
WillRegister(c, id) ==
  \/ starts[c].pc = "settling"
  \/ starts[c].pc = "registering" /\ id \in starts[c].todo

\* The engine knows no state of a device it does not hold.
DroppedIsStopped == \A id \in Hosted \ held : state[id] = "STOP"

\* A device that is being created was registered, and nobody may take it off.
CreatedIsServed ==
  \A c \in Creates : creates[c].live => creates[c].id \in held \cap served

\* With the server running, a started device is served, was refused, or is about to
\* be registered.
ServedOrSoon ==
  server = "running" =>
    \A id \in Hosted : Started(id) =>
      id \in Given \/ \E c \in Starts : WillRegister(c, id)

ServedInv == TypeInv /\ DroppedIsStopped /\ CreatedIsServed /\ ServedOrSoon

\* A step of the devices that starts no unserved device, and takes no started
\* one off its server, keeps the last part of the invariant.
LEMMA DevicesKeepServed ==
  ASSUME ServedOrSoon, starts' = starts, server' = server,
         \A id \in Hosted : Started(id)' =>
            id \in Given' \/ (Started(id) /\ id \notin Given)
  PROVE  ServedOrSoon'
BY DEF ServedOrSoon, WillRegister

\* A step of one start of the protocol: what it had still to do is done, or
\* still has to be done.
LEMMA StartKeepsServed ==
  ASSUME ServedOrSoon, TypeInv, NEW c \in Starts, NEW k \in LegalStarts, Proceed(c, k),
         UNCHANGED <<held, state>>, server = "running",
         Given \subseteq Given',
         \A id \in held : WillRegister(c, id) =>
            \/ id \in Given'
            \/ k.pc = "registering" /\ id \in k.todo
  PROVE  ServedOrSoon'
<1>1. starts'[c] = k /\ \A d \in Starts \ {c} : starts'[d] = starts[d]
  BY ProceedType
<1>2. ASSUME NEW id \in Hosted, Started(id)'
      PROVE  id \in Given' \/ \E d \in Starts : WillRegister(d, id)'
  <2>1. Started(id) /\ id \in held
    BY <1>2 DEF Started
  <2>2. CASE id \in Given
    BY <2>2
  <2>3. CASE \E d \in Starts : WillRegister(d, id)
    <3>1. PICK d \in Starts : WillRegister(d, id)
      BY <2>3
    <3>2. CASE d = c
      BY <1>1, <2>1, <3>1, <3>2 DEF WillRegister
    <3>3. CASE d # c
      BY <1>1, <3>1, <3>3 DEF WillRegister
    <3> QED
      BY <3>2, <3>3
  <2> QED
    BY <2>1, <2>2, <2>3 DEF ServedOrSoon
<1> QED
  BY <1>2 DEF ServedOrSoon

\* Every step keeps started devices served.
LEMMA ServedStep ==
  ASSUME CallsTakeTurns, ServedInv, [ServingNext]_servingVars
  PROVE  ServedInv'
<1> USE DEF ServedInv
<1>1. /\ TypeInv' /\ held \subseteq Hosted /\ served \subseteq Hosted
      /\ creates \in [Creates -> CreateTypes]
      /\ state \in [Hosted -> {"STOP", "STARTING", "RUN", "STOPPING", "ERROR"}]
  BY NextType DEF TypeInv, ServingTypeOK
<1>2. \A c \in Starts : starts[c] \in LegalStarts
  BY DEF TypeInv
<1>3. ASSUME NEW c \in Creates, NEW id \in Hosted, CreateDevice(c, id)
      PROVE  ServedInv'
  <2>1. /\ held' = held \cup {id} /\ starts' = starts /\ server' = server
        /\ \A i \in Hosted : i # id => state'[i] = state[i]
        /\ served \subseteq served' /\ refused \ {id} \subseteq refused'
    BY <1>1, <1>3 DEF CreateDevice, Move
  <2>2. state[id] = "STOP" /\ id \notin held
    BY <1>3 DEF CreateDevice, DroppedIsStopped
  <2>3. DroppedIsStopped'
    BY <2>1 DEF DroppedIsStopped
  <2>4. CreatedIsServed'
    <3>1. CASE creates' = creates
      BY <2>1, <3>1 DEF CreatedIsServed
    <3>2. CASE /\ creates' = [creates EXCEPT ![c] = [id |-> id, live |-> TRUE]]
               /\ served' = served \cup {id}
      BY <1>1, <2>1, <3>2 DEF CreatedIsServed
    <3> QED
      BY <1>3, <3>1, <3>2 DEF CreateDevice
  <2>5. ServedOrSoon'
    <3>1. \/ state'[id] = "STOP"
          \/ id \in served'
      BY <1>3, <2>2 DEF CreateDevice
    <3>2. \A i \in Hosted : Started(i)' => i \in Given' \/ (Started(i) /\ i \notin Given)
      BY <2>1, <3>1 DEF Started, Given
    <3> QED
      BY <2>1, <3>2, DevicesKeepServed
  <2> QED
    BY <1>1, <2>3, <2>4, <2>5
<1>4. ASSUME NEW c \in Creates, Created(c)
      PROVE  ServedInv'
  <2>1. /\ creates' = [creates EXCEPT ![c] = NoCreate]
        /\ UNCHANGED <<held, server, served, starts, refused>>
        /\ \/ state' = state
           \/ creates[c].live /\ state' = [state EXCEPT ![creates[c].id] = "STARTING"]
    BY <1>4 DEF Created, Move
  <2>2. CreatedIsServed'
    BY <1>1, <2>1, SlotFacts DEF CreatedIsServed
  <2>3. \A id \in Hosted : state'[id] # state[id] => id \in held \cap served
    BY <1>1, <2>1 DEF CreatedIsServed
  <2>4. DroppedIsStopped'
    BY <2>1, <2>3 DEF DroppedIsStopped
  <2>5. ServedOrSoon'
    <3>1. \A i \in Hosted : Started(i)' => i \in Given' \/ (Started(i) /\ i \notin Given)
      BY <2>1, <2>3 DEF Started, Given
    <3> QED
      BY <2>1, <3>1, DevicesKeepServed
  <2> QED
    BY <1>1, <2>2, <2>4, <2>5
<1>5. ASSUME NEW id \in Hosted, RemoveDevice(id)
      PROVE  ServedInv'
  <2>1. /\ held' = held \ {id} /\ state' = [state EXCEPT ![id] = "STOP"]
        /\ starts' = starts /\ server' = server
        /\ served \ {id} \subseteq served' /\ refused \ {id} \subseteq refused'
        /\ \A c \in Creates : creates'[c].live =>
              creates[c].live /\ creates'[c].id = creates[c].id /\ creates[c].id # id
    <3>1. \A c \in Creates : creates'[c] = IF creates[c].id = id
                                            THEN [creates[c] EXCEPT !.live = FALSE]
                                            ELSE creates[c]
      BY <1>5 DEF RemoveDevice
    <3>2. \A c \in Creates : [creates[c] EXCEPT !.live = FALSE].live = FALSE
      BY <1>1 DEF CreateTypes
    <3> QED
      BY <1>5, <3>1, <3>2 DEF RemoveDevice, Move
  <2>2. DroppedIsStopped'
    BY <1>1, <2>1 DEF DroppedIsStopped
  <2>3. CreatedIsServed'
    BY <2>1 DEF CreatedIsServed
  <2>4. ServedOrSoon'
    <3>1. \A i \in Hosted : Started(i)' => i \in Given' \/ (Started(i) /\ i \notin Given)
      BY <1>1, <2>1 DEF Started, Given
    <3> QED
      BY <2>1, <3>1, DevicesKeepServed
  <2> QED
    BY <1>1, <2>2, <2>3, <2>4
<1>6. ASSUME NEW id \in Hosted, StartDevice(id)
      PROVE  ServedInv'
  <2>1. /\ UNCHANGED <<held, server, creates, starts>>
        /\ served \subseteq served' /\ Given \subseteq Given'
        /\ id \in held /\ \A i \in Hosted : i # id => state'[i] = state[i]
        /\ \/ state' = state
           \/ server # "running"
           \/ id \in Given'
    BY <1>1, <1>6 DEF StartDevice, MayCommand, Move, Offered, Given
  <2>2. DroppedIsStopped' /\ CreatedIsServed'
    BY <2>1 DEF DroppedIsStopped, CreatedIsServed
  <2>3. ServedOrSoon'
    <3>1. CASE server # "running"
      BY <2>1, <3>1 DEF ServedOrSoon
    <3>2. CASE server = "running"
      <4>1. \A i \in Hosted : Started(i)' => i \in Given' \/ (Started(i) /\ i \notin Given)
        BY <2>1, <3>2 DEF Started
      <4> QED
        BY <2>1, <4>1, DevicesKeepServed
    <3> QED
      BY <3>1, <3>2
  <2> QED
    BY <1>1, <2>2, <2>3
<1>7. ASSUME NEW id \in Hosted, StopDevice(id)
      PROVE  ServedInv'
  <2>1. /\ UNCHANGED <<held, server, creates, starts, refused>>
        /\ served \ {id} \subseteq served'
        /\ id \in held /\ \A i \in Hosted : i # id => state'[i] = state[i]
        /\ \/ state' = state /\ served' = served
           \/ state'[id] \in {"STOP", "STOPPING"}
    BY <1>1, <1>7 DEF StopDevice, MayCommand, Move
  <2>2. ~BeingCreated(id)
    BY <1>7 DEF StopDevice, MayCommand
  <2>3. DroppedIsStopped' /\ CreatedIsServed'
    BY <2>1, <2>2 DEF DroppedIsStopped, CreatedIsServed, BeingCreated
  <2>4. ServedOrSoon'
    <3>1. \A i \in Hosted : Started(i)' => i \in Given' \/ (Started(i) /\ i \notin Given)
      BY <2>1 DEF Started, Given
    <3> QED
      BY <2>1, <3>1, DevicesKeepServed
  <2> QED
    BY <1>1, <2>3, <2>4
<1>8. ASSUME NEW id \in Hosted, TickDevice(id) \/ FaultDevice(id)
      PROVE  ServedInv'
  <2>1. /\ UNCHANGED <<held, server, served, creates, starts, refused>> /\ id \in held
        /\ \A i \in Hosted : i # id => state'[i] = state[i]
        /\ \/ state[id] = "STARTING"
           \/ state'[id] \in {"STOP", "ERROR"}
    BY <1>1, <1>8 DEF TickDevice, FaultDevice, Move
  <2>2. DroppedIsStopped' /\ CreatedIsServed'
    BY <2>1 DEF DroppedIsStopped, CreatedIsServed
  <2>3. ServedOrSoon'
    <3>1. \A i \in Hosted : Started(i)' => i \in Given' \/ (Started(i) /\ i \notin Given)
      BY <2>1 DEF Started, Given
    <3> QED
      BY <2>1, <3>1, DevicesKeepServed
  <2> QED
    BY <1>1, <2>2, <2>3
<1>9. ASSUME NEW c \in Starts, ServerStarts(c)
      PROVE  ServedInv'
  <2>1. /\ UNCHANGED <<held, state, served, creates>>
        /\ Proceed(c, [starts[c] EXCEPT !.pc = "settling"])
    BY <1>9 DEF ServerStarts
  <2>2. starts'[c].pc = "settling"
    BY <1>2, <2>1 DEF Proceed, LegalStarts, StartTypes, TypeInv
  <2>3. ServedOrSoon'
    BY <2>2 DEF ServedOrSoon, WillRegister
  <2> QED
    BY <1>1, <2>1, <2>3 DEF DroppedIsStopped, CreatedIsServed
<1>10. ASSUME NEW c \in Starts, StartProtocol(c) \/ ServerStartFails(c) \/ RetryStart(c)
       PROVE  ServedInv'
  <2>1. UNCHANGED <<held, state, served, creates>> /\ server' # "running"
    BY <1>10 DEF StartProtocol, ServerStartFails, RetryStart
  <2> QED
    BY <1>1, <2>1 DEF DroppedIsStopped, CreatedIsServed, ServedOrSoon
<1>11. ASSUME NEW c \in Starts, Settled(c)
       PROVE  ServedInv'
  <2>1. UNCHANGED <<held, state, served, creates, refused>>
    BY <1>11 DEF Settled
  <2>2. CASE server # "running"
    <3>1. server' # "running"
      BY <1>11, <2>2 DEF Settled
    <3> QED
      BY <1>1, <2>1, <3>1 DEF DroppedIsStopped, CreatedIsServed, ServedOrSoon
  <2>3. CASE server = "running"
    <3> DEFINE k == [starts[c] EXCEPT !.pc = "registering", !.todo = held]
    <3>1. Proceed(c, k)
      BY <1>11, <2>3 DEF Settled
    <3>2. k \in LegalStarts /\ k.pc = "registering" /\ k.todo = held
      BY <1>1, <1>2 DEF LegalStarts, StartTypes
    <3> HIDE DEF k
    <3>3. ServedOrSoon'
      BY <2>1, <2>3, <3>1, <3>2, StartKeepsServed DEF Given
    <3> QED
      BY <1>1, <2>1, <3>3 DEF DroppedIsStopped, CreatedIsServed
  <2> QED
    BY <2>2, <2>3
<1>12. ASSUME NEW c \in Starts, Reregister(c)
       PROVE  ServedInv'
  <2>1. /\ UNCHANGED <<held, state, server, creates>> /\ starts[c].pc = "registering"
        /\ served \subseteq served' /\ Given \subseteq Given'
    BY <1>12, ReregisterFacts DEF Offered, Given
  <2>2. DroppedIsStopped' /\ CreatedIsServed'
    BY <2>1 DEF DroppedIsStopped, CreatedIsServed
  <2>3. CASE server # "running"
    BY <1>1, <2>1, <2>2, <2>3 DEF ServedOrSoon
  <2>4. CASE server = "running"
    <3>1. CASE starts[c].todo = {} /\ Proceed(c, NoStart)
      BY <1>1, <2>1, <2>2, <2>4, <3>1, StartKeepsServed, SlotFacts DEF WillRegister
    <3>2. CASE \E S \in SUBSET Hosted : /\ Offered(S)
                                     /\ Proceed(c, [starts[c] EXCEPT !.todo = @ \ S])
      <4>1. PICK S \in SUBSET Hosted : /\ Offered(S)
                                    /\ Proceed(c, [starts[c] EXCEPT !.todo = @ \ S])
        BY <3>2
      <4> DEFINE k == [starts[c] EXCEPT !.todo = @ \ S]
      <4>2. k \in LegalStarts /\ k.pc = "registering" /\ k.todo = starts[c].todo \ S
        BY <1>2, <2>1 DEF LegalStarts, StartTypes
      <4>3. Proceed(c, k)
        BY <4>1
      <4> HIDE DEF k
      <4>4. S \subseteq Given'
        BY <4>1 DEF Offered, Given
      <4>5. \A id \in held : WillRegister(c, id) =>
               id \in Given' \/ (k.pc = "registering" /\ id \in k.todo)
        BY <2>1, <4>2, <4>4 DEF WillRegister
      <4> QED
        BY <1>1, <2>1, <2>2, <2>4, <4>2, <4>3, <4>5, StartKeepsServed
    <3> QED
      BY <1>12, <3>1, <3>2, ReregisterFacts
  <2> QED
    BY <2>3, <2>4
<1>13. ASSUME ServerBreaks \/ StopProtocol PROVE ServedInv'
  <2>1. UNCHANGED <<held, state, served, creates>> /\ server' # "running"
    BY <1>13 DEF ServerBreaks, StopProtocol
  <2> QED
    BY <1>1, <2>1 DEF DroppedIsStopped, CreatedIsServed, ServedOrSoon
<1>14. CASE UNCHANGED servingVars
  BY <1>1, <1>14 DEF servingVars, DroppedIsStopped, CreatedIsServed, ServedOrSoon, Started, Given, WillRegister
<1> QED
  BY <1>3, <1>4, <1>5, <1>6, <1>7, <1>8, <1>9, <1>10, <1>11, <1>12, <1>13, <1>14 DEF ServingNext

\* If clients do not name a device that is still being created, then with the
\* server up and every start_protocol done, each started device is registered,
\* unless the server refused it when it was last given the device, for any number
\* of devices, creations and overlapping starts.
THEOREM StartedDevicesAreServed ==
  ASSUME CallsTakeTurns
  PROVE  ServingSpec => []StartedIsServed
<1>1. ServingInit => ServedInv
  BY InitType, SlotFacts
     DEF ServingInit, ServedInv, DroppedIsStopped, CreatedIsServed, ServedOrSoon
<1>2. ServedInv /\ [ServingNext]_servingVars => ServedInv'
  BY ServedStep
<1>3. ServedInv => StartedIsServed
  BY SlotFacts DEF ServedInv, ServedOrSoon, Started, Given, WillRegister, StartedIsServed,
                   TypeInv, ServingTypeOK
<1> QED
  BY <1>1, <1>2, <1>3, PTL DEF ServingSpec
=============================================================================
