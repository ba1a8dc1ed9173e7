------------------------ MODULE CatalogueMirrorProofs ------------------------
(***************************************************************************)
(* Theorems about the overlapping updates of DeviceCatalogue, about        *)
(* SharedConnection, for any number of calls and of imported rows, and     *)
(* about RequestLimit, for any limits and clients; and what holds of all   *)
(* parts of MCCatalogueMirror together.                                    *)
(***************************************************************************)
EXTENDS MCCatalogueMirror, ProtocolServingProofs, EdgeLitePushProofs, SequenceTheorems,
        WellFoundedInduction

-----------------------------------------------------------------------------
(* Overlapping updates of a device *)

Fast(config) == ~Updates!Slow(config)
SameProtocol(a, b) == ProtocolOfAll[a] = ProtocolOfAll[b]

\* A call of a client under way, and one that has reached the database.
Pending ==
  {call \in [op : {"create", "update"}, id : Ids, config : AllConfigs,
             pc : {"registering", "syncing", "saving"}] :
     call.pc = "saving" \/ ~Fast(call.config)}
Saving == {call \in Pending : call.pc = "saving"}

\* The last of the statements that wait is the one of place i, of those about id.
LastAbout(q, made, id, i) ==
  made[q[i]].id = id /\ \A j \in 1..Len(q) : j > i => made[q[j]].id # id

NoneAbout(q, made, id) == \A i \in 1..Len(q) : made[q[i]].id # id

\* Every statement that waits is that of a call of its own.
QueueOK(q, made) ==
  /\ q \in Seq(Calls) /\ made \in [Calls -> Pending \cup {Idle}]
  /\ \A i \in 1..Len(q) : made[q[i]] \in Saving
  /\ \A i, j \in 1..Len(q) : q[i] = q[j] => i = j

\* The row of a device is, or will be when the statements that wait are executed, what the
\* engine has.
RowFollows(q, made, id, row, config) ==
  \/ NoneAbout(q, made, id) /\ row = config
  \/ \E i \in 1..Len(q) : LastAbout(q, made, id, i) /\ made[q[i]].config = config

\* A device is on disk, or a call about it has yet to save it; and everything about it is
\* for one protocol.
Recorded(id, config, row, made) ==
  /\ config = None => row = None /\ \A c \in Calls : made[c].id # id
  /\ row = None => config = None \/ \E c \in Calls : made[c].id = id
  /\ row # None => SameProtocol(row, config)
  /\ \A c \in Calls : made[c].id = id => SameProtocol(made[c].config, config)

UpdatesInv ==
  /\ QueueOK(dbQueue, calls)
  /\ devices \in [Ids -> AllConfigs \cup {None}] /\ rows \in [Ids -> AllConfigs \cup {None}]
  /\ \A id \in Ids :
       /\ Recorded(id, devices[id], rows[id], calls)
       /\ devices[id] = None \/ Fast(devices[id])
            => RowFollows(dbQueue, calls, id, rows[id], devices[id])

\* A slot without a call is about no device.
LEMMA IdleIsNotPending == Idle \notin Pending /\ Idle.id \notin Ids
<1>1. Idle.id = None /\ Idle.pc = "idle"
  BY DEF Idle
<1> QED
  BY <1>1, ConfigAssumption DEF Pending

\* A call that joins the queue.
LEMMA JoinsQueue ==
  ASSUME NEW q, NEW made, QueueOK(q, made), NEW c \in Calls, made[c] \notin Saving,
         NEW call \in Saving,
         NEW q2, NEW made2, q2 = Append(q, c), made2 = [made EXCEPT ![c] = call],
         NEW row
  PROVE  /\ QueueOK(q2, made2)
         /\ RowFollows(q2, made2, call.id, row, call.config)
         /\ \A id, config : id # call.id /\ RowFollows(q, made, id, row, config)
                              => RowFollows(q2, made2, id, row, config)
<1>1. /\ q \in Seq(Calls) /\ Len(q) \in Nat /\ q2 \in Seq(Calls) /\ Len(q2) = Len(q) + 1
      /\ q2[Len(q) + 1] = c /\ \A i \in 1..Len(q) : q2[i] = q[i]
  BY AppendProperties DEF QueueOK
<1>2. \A i \in 1..Len(q) : q[i] # c /\ q[i] \in Calls
  BY <1>1, ElementOfSeq DEF QueueOK
<1>3. made2 \in [Calls -> Pending \cup {Idle}] /\ made2[c] = call
      /\ \A i \in 1..Len(q) : made2[q2[i]] = made[q[i]]
  BY <1>1, <1>2 DEF QueueOK, Saving
<1>4. \A i \in 1..Len(q2) : i \in 1..Len(q) \/ i = Len(q) + 1
  BY <1>1
<1>5. QueueOK(q2, made2)
  BY <1>1, <1>2, <1>3, <1>4 DEF QueueOK
<1>6. RowFollows(q2, made2, call.id, row, call.config)
  <2>1. Len(q) + 1 \in 1..Len(q2) /\ LastAbout(q2, made2, call.id, Len(q) + 1)
    BY <1>1, <1>3 DEF LastAbout
  <2> QED BY <1>1, <1>3, <2>1 DEF RowFollows
<1>7. ASSUME NEW id, NEW config, id # call.id, RowFollows(q, made, id, row, config)
      PROVE  RowFollows(q2, made2, id, row, config)
  <2>1. CASE NoneAbout(q, made, id) /\ row = config
    BY <1>1, <1>3, <1>4, <1>7, <2>1 DEF NoneAbout, RowFollows
  <2>2. ASSUME NEW i \in 1..Len(q), LastAbout(q, made, id, i), made[q[i]].config = config
        PROVE  RowFollows(q2, made2, id, row, config)
    <3>1. i \in 1..Len(q2) /\ LastAbout(q2, made2, id, i)
      BY <1>1, <1>3, <1>4, <1>7, <2>2 DEF LastAbout
    <3> QED BY <1>3, <2>2, <3>1 DEF RowFollows
  <2> QED BY <1>7, <2>1, <2>2 DEF RowFollows
<1> QED BY <1>5, <1>6, <1>7

\* A call that its server suspends changes nothing for those that wait for the database.
LEMMA StaysOutOfQueue ==
  ASSUME NEW q, NEW made, QueueOK(q, made), NEW c \in Calls, made[c] = Idle,
         NEW call \in Pending, NEW made2, made2 = [made EXCEPT ![c] = call]
  PROVE  /\ QueueOK(q, made2)
         /\ \A id, row, config : RowFollows(q, made, id, row, config)
                                   => RowFollows(q, made2, id, row, config)
<1>1. \A i \in 1..Len(q) : q[i] \in Calls /\ q[i] # c
  BY IdleIsNotPending, ElementOfSeq DEF QueueOK, Saving
<1>2. made2 \in [Calls -> Pending \cup {Idle}] /\ \A i \in 1..Len(q) : made2[q[i]] = made[q[i]]
  BY <1>1 DEF QueueOK
<1>3. QueueOK(q, made2)
  BY <1>2 DEF QueueOK
<1> QED BY <1>2, <1>3 DEF RowFollows, NoneAbout, LastAbout

\* The call at the head of the queue returns.
LEMMA LeavesQueue ==
  ASSUME NEW q, NEW made, QueueOK(q, made), q # <<>>, NEW c, c = Head(q),
         NEW q2, NEW made2, q2 = Tail(q), made2 = [made EXCEPT ![c] = Idle]
  PROVE  /\ QueueOK(q2, made2) /\ made[c] \in Saving
         /\ \A id, row, config : RowFollows(q, made, id, row, config)
              => RowFollows(q2, made2, id, IF id = made[c].id THEN made[c].config ELSE row, config)
<1>1. /\ q \in Seq(Calls) /\ Len(q) \in Nat \ {0} /\ q2 \in Seq(Calls) /\ Len(q2) = Len(q) - 1
      /\ q[1] = c /\ c \in Calls /\ \A i \in 1..Len(q2) : q2[i] = q[i + 1]
  BY HeadTailProperties DEF QueueOK
<1>2. made[c] \in Saving
  BY <1>1 DEF QueueOK
<1>3. \A i \in 1..Len(q2) : i + 1 \in 1..Len(q) /\ q[i + 1] # c /\ q[i + 1] \in Calls
  <2>1. ASSUME NEW i \in 1..Len(q2)
        PROVE  i + 1 \in 1..Len(q) /\ 1 \in 1..Len(q) /\ i + 1 # 1
    BY <1>1
  <2> QED BY <1>1, <2>1, ElementOfSeq DEF QueueOK
<1>4. made2 \in [Calls -> Pending \cup {Idle}] /\ \A i \in 1..Len(q2) : made2[q2[i]] = made[q[i + 1]]
  BY <1>1, <1>3 DEF QueueOK
<1>5. QueueOK(q2, made2)
  <2>1. \A i, j \in 1..Len(q2) : q2[i] = q2[j] => i = j
    <3>1. ASSUME NEW i \in 1..Len(q2), NEW j \in 1..Len(q2), q2[i] = q2[j]
          PROVE  i = j
      <4>1. i + 1 = j + 1
        BY <1>1, <1>3, <3>1 DEF QueueOK
      <4> QED BY <1>1, <4>1
    <3> QED BY <3>1
  <2> QED BY <1>1, <1>3, <1>4, <2>1 DEF QueueOK
<1>6. ASSUME NEW id, NEW row, NEW config, RowFollows(q, made, id, row, config)
      PROVE  RowFollows(q2, made2, id, IF id = made[c].id THEN made[c].config ELSE row, config)
  <2>1. CASE NoneAbout(q, made, id) /\ row = config
    <3>1. id # made[c].id
      BY <1>1, <2>1 DEF NoneAbout
    <3>2. NoneAbout(q2, made2, id)
      BY <1>3, <1>4, <2>1 DEF NoneAbout
    <3> QED BY <2>1, <3>1, <3>2 DEF RowFollows
  <2>2. ASSUME NEW i \in 1..Len(q), LastAbout(q, made, id, i), made[q[i]].config = config
        PROVE  RowFollows(q2, made2, id, IF id = made[c].id THEN made[c].config ELSE row, config)
    <3>1. CASE i = 1
      <4>1. id = made[c].id /\ config = made[c].config
        BY <1>1, <2>2, <3>1 DEF LastAbout
      <4>2. \A j \in 1..Len(q2) : j + 1 > i
        BY <1>1, <3>1
      <4>3. NoneAbout(q2, made2, id)
        BY <1>3, <1>4, <2>2, <4>2 DEF LastAbout, NoneAbout
      <4> QED BY <4>1, <4>3 DEF RowFollows
    <3>2. CASE i # 1
      <4>1. i - 1 \in 1..Len(q2) /\ (i - 1) + 1 = i
        BY <1>1, <3>2
      <4>2. \A j \in 1..Len(q2) : j > i - 1 => j + 1 > i
        BY <1>1
      <4>3. LastAbout(q2, made2, id, i - 1)
        BY <1>3, <1>4, <2>2, <4>1, <4>2, SMTT(60) DEF LastAbout
      <4>4. made2[q2[i - 1]].config = config
        BY <1>4, <2>2, <4>1
      <4> QED BY <4>1, <4>3, <4>4 DEF RowFollows
    <3> QED BY <3>1, <3>2
  <2> QED BY <1>6, <2>1, <2>2 DEF RowFollows
<1> QED BY <1>2, <1>5, <1>6

\* What a call about one device does to the records of it, and leaves of those of others.
LEMMA CallMade ==
  ASSUME UpdatesInv, NEW id \in Ids, NEW config \in AllConfigs, NEW c \in Calls,
         calls[c] = Idle, NEW call \in Pending, call.id = id, call.config = config,
         devices[id] = None \/ SameProtocol(config, devices[id]),
         devices' = [devices EXCEPT ![id] = config], rows' = rows,
         calls' = [calls EXCEPT ![c] = call]
  PROVE  /\ devices' \in [Ids -> AllConfigs \cup {None}] /\ devices'[id] = config
         /\ \A other \in Ids : other # id => devices'[other] = devices[other]
         /\ \A other \in Ids : Recorded(other, devices'[other], rows'[other], calls')
<1>1. /\ devices' \in [Ids -> AllConfigs \cup {None}] /\ devices'[id] = config
      /\ \A other \in Ids : other # id => devices'[other] = devices[other]
  BY DEF UpdatesInv
<1>2. calls \in [Calls -> Pending \cup {Idle}]
  BY DEF UpdatesInv, QueueOK
<1>3. \A d \in Calls : calls'[d] = IF d = c THEN call ELSE calls[d]
  BY <1>2
<1>4. config # None
  BY VersionAssumption
<1>5. ASSUME NEW other \in Ids
      PROVE  Recorded(other, devices'[other], rows'[other], calls')
  <2>1. Recorded(other, devices[other], rows[other], calls)
    BY DEF UpdatesInv
  <2>2. CASE other # id
    <3>1. \A d \in Calls : calls'[d].id = other <=> calls[d].id = other
      BY <1>3, <2>2, IdleIsNotPending
    <3>2. \A d \in Calls : calls'[d].id = other => calls'[d] = calls[d]
      BY <1>3, <2>2
    <3> QED BY <1>1, <2>1, <2>2, <3>1, <3>2 DEF Recorded
  <2>3. CASE other = id
    <3>1. devices'[other] = config /\ rows'[other] = rows[other] /\ calls'[c].id = other
      BY <1>1, <1>3, <2>3
    <3>2. rows[other] # None => SameProtocol(rows[other], config)
      BY <2>1, <2>3 DEF Recorded, SameProtocol
    <3>3. \A d \in Calls : calls'[d].id = other => SameProtocol(calls'[d].config, config)
      BY <1>3, <2>1, <2>3 DEF Recorded, SameProtocol
    <3> QED BY <1>4, <3>1, <3>2, <3>3 DEF Recorded
  <2> QED BY <2>2, <2>3
<1> QED BY <1>1, <1>5

\* Every step keeps it: a call only adds its statement behind the others, the connection
\* executes the first, and a restart forgets the queue together with the engine's devices.
LEMMA UpdatesKept ==
  ASSUME UpdatesInv, UpdatesNext
  PROVE  UpdatesInv'
<1>1. PICK c \in Calls :
        \/ \E id \in Ids, config \in AllConfigs :
             Updates!Create(c, id, config) \/ Updates!HotUpdate(c, id, config)
        \/ Updates!Registered(c) \/ Updates!Synced(c)
        \/ Updates!SaveCreated(c) \/ Updates!SaveUpdated(c)
        \/ Updates!Restart
  BY DEF UpdatesNext
<1>2. ASSUME NEW id \in Ids, NEW config \in AllConfigs, NEW op \in {"create", "update"},
             NEW pc \in {"registering", "syncing", "saving"},
             calls[c] = Idle, devices[id] = None \/ SameProtocol(config, devices[id]),
             devices' = [devices EXCEPT ![id] = config], rows' = rows,
             dbQueue' = IF pc = "saving" THEN Append(dbQueue, c) ELSE dbQueue,
             pc # "saving" => ~Fast(config),
             calls' = [calls EXCEPT ![c] = [op |-> op, id |-> id, config |-> config, pc |-> pc]]
      PROVE  UpdatesInv'
  <2> DEFINE call == [op |-> op, id |-> id, config |-> config, pc |-> pc]
  <2>1. call \in Pending /\ call.id = id /\ call.config = config /\ call.pc = pc
    BY <1>2 DEF Pending
  <2>2. QueueOK(dbQueue, calls) /\ calls' = [calls EXCEPT ![c] = call] /\ calls[c] \notin Saving
    BY <1>2, IdleIsNotPending DEF UpdatesInv, Saving
  <2> HIDE DEF call
  <2>3. /\ devices' \in [Ids -> AllConfigs \cup {None}] /\ devices'[id] = config
        /\ \A other \in Ids : other # id => devices'[other] = devices[other]
        /\ \A other \in Ids : Recorded(other, devices'[other], rows'[other], calls')
    <3>1. /\ devices[id] = None \/ SameProtocol(config, devices[id])
          /\ devices' = [devices EXCEPT ![id] = config] /\ rows' = rows /\ calls[c] = Idle
      BY <1>2
    <3>2. call \in Pending /\ call.id = id /\ call.config = config
      BY <2>1
    <3>3. calls' = [calls EXCEPT ![c] = call]
      BY <2>2
    <3> QED BY <3>1, <3>2, <3>3, CallMade
  <2>4. CASE pc = "saving"
    <3>1. call \in Saving
      BY <2>1, <2>4 DEF Saving
    <3>2. /\ QueueOK(dbQueue', calls')
          /\ \A row : RowFollows(dbQueue', calls', id, row, config)
          /\ \A row, other, kept : other # id /\ RowFollows(dbQueue, calls, other, row, kept)
                                     => RowFollows(dbQueue', calls', other, row, kept)
      BY <1>2, <2>1, <2>2, <2>4, <3>1, JoinsQueue
    <3>3. ASSUME NEW other \in Ids, devices'[other] = None \/ Fast(devices'[other])
          PROVE  RowFollows(dbQueue', calls', other, rows'[other], devices'[other])
      BY <1>2, <2>3, <3>2, <3>3 DEF UpdatesInv
    <3> QED BY <1>2, <2>3, <3>2, <3>3 DEF UpdatesInv
  <2>5. CASE pc # "saving"
    <3>1. /\ QueueOK(dbQueue', calls')
          /\ \A other, row, kept : RowFollows(dbQueue, calls, other, row, kept)
                                     => RowFollows(dbQueue', calls', other, row, kept)
      BY <1>2, <2>1, <2>2, <2>5, StaysOutOfQueue
    <3>2. config # None
      BY VersionAssumption
    <3>3. ASSUME NEW other \in Ids, devices'[other] = None \/ Fast(devices'[other])
          PROVE  RowFollows(dbQueue', calls', other, rows'[other], devices'[other])
      BY <1>2, <2>3, <2>5, <3>1, <3>2, <3>3 DEF UpdatesInv
    <3> QED BY <1>2, <2>3, <3>1, <3>3 DEF UpdatesInv
  <2> QED BY <2>4, <2>5
<1>3. ASSUME NEW id \in Ids, NEW config \in AllConfigs, Updates!Create(c, id, config)
      PROVE  UpdatesInv'
  <2>1. calls[c] = Idle /\ devices' = [devices EXCEPT ![id] = config] /\ rows' = rows
        /\ devices[id] = None
    BY <1>3 DEF Updates!Create, Updates!MayCall, Updates!AddTo, Updates!Idle, Idle
  <2>2. CASE Fast(config)
    <3>1. /\ dbQueue' = Append(dbQueue, c)
          /\ calls' = [calls EXCEPT ![c] = [op |-> "create", id |-> id, config |-> config,
                                            pc |-> "saving"]]
      BY <1>3, <2>2 DEF Updates!Create, Updates!AddTo, Updates!Issues, Updates!At, Fast
    <3> QED BY <1>2, <2>1, <3>1
  <2>3. CASE ~Fast(config)
    <3>1. /\ dbQueue' = dbQueue
          /\ calls' = [calls EXCEPT ![c] = [op |-> "create", id |-> id, config |-> config,
                                            pc |-> "registering"]]
      BY <1>3, <2>3 DEF Updates!Create, Updates!AddTo, Updates!Awaits, Updates!At, Fast
    <3> QED BY <1>2, <2>1, <2>3, <3>1
  <2> QED BY <2>2, <2>3
<1>4. ASSUME NEW id \in Ids, NEW config \in AllConfigs, Updates!HotUpdate(c, id, config)
      PROVE  UpdatesInv'
  <2>1. calls[c] = Idle /\ devices' = [devices EXCEPT ![id] = config] /\ rows' = rows
        /\ SameProtocol(config, devices[id])
    BY <1>4 DEF Updates!HotUpdate, Updates!MayCall, Updates!Idle, Idle, SameProtocol
  <2>2. CASE Fast(config)
    <3>1. /\ dbQueue' = Append(dbQueue, c)
          /\ calls' = [calls EXCEPT ![c] = [op |-> "update", id |-> id, config |-> config,
                                            pc |-> "saving"]]
      BY <1>4, <2>2 DEF Updates!HotUpdate, Updates!Issues, Updates!At, Fast
    <3> QED BY <1>2, <2>1, <3>1
  <2>3. CASE ~Fast(config)
    <3>1. /\ dbQueue' = dbQueue
          /\ calls' = [calls EXCEPT ![c] = [op |-> "update", id |-> id, config |-> config,
                                            pc |-> "syncing"]]
      BY <1>4, <2>3 DEF Updates!HotUpdate, Updates!Awaits, Updates!At, Fast
    <3> QED BY <1>2, <2>1, <2>3, <3>1
  <2> QED BY <2>2, <2>3
\* The device of a call that its server lets go on is one whose row may be any.
<1>5. ASSUME Updates!Registered(c) \/ Updates!Synced(c)
      PROVE  UpdatesInv'
  <2> DEFINE call == [calls[c] EXCEPT !.pc = "saving"]
  <2>1. /\ calls[c].pc \in {"registering", "syncing"} /\ devices' = devices /\ rows' = rows
        /\ dbQueue' = Append(dbQueue, c) /\ calls' = [calls EXCEPT ![c] = call]
    BY <1>5 DEF Updates!Registered, Updates!Synced, Updates!Issues, Updates!At
  <2>2. QueueOK(dbQueue, calls) /\ calls[c] \in Pending /\ calls[c] \notin Saving
    <3>1. QueueOK(dbQueue, calls) /\ calls[c] \in Pending \cup {Idle}
      BY DEF UpdatesInv, QueueOK
    <3>2. Idle.pc = "idle"
      BY DEF Idle
    <3> QED BY <2>1, <3>1, <3>2 DEF Saving
  <2>3. /\ call \in Saving /\ call.id = calls[c].id /\ call.config = calls[c].config
        /\ call.id \in Ids
    BY <2>2 DEF Pending, Saving
  <2> HIDE DEF call
  <2>4. /\ QueueOK(dbQueue', calls')
        /\ \A row : RowFollows(dbQueue', calls', call.id, row, call.config)
        /\ \A row, other, kept : other # call.id /\ RowFollows(dbQueue, calls, other, row, kept)
                                   => RowFollows(dbQueue', calls', other, row, kept)
    BY <2>1, <2>2, <2>3, JoinsQueue
  <2>5. ASSUME NEW other \in Ids
        PROVE  Recorded(other, devices'[other], rows'[other], calls')
    <3>1. \A d \in Calls : calls'[d].id = calls[d].id /\ calls'[d].config = calls[d].config
      BY <2>1, <2>2, <2>3 DEF QueueOK
    <3>2. Recorded(other, devices[other], rows[other], calls)
      BY DEF UpdatesInv
    <3> QED BY <2>1, <3>1, <3>2 DEF Recorded
  <2>6. ~Fast(devices[call.id]) /\ devices[call.id] # None
    <3>1. ~Fast(calls[c].config)
      BY <2>1, <2>2 DEF Pending
    <3>2. SameProtocol(calls[c].config, devices[call.id]) /\ devices[call.id] # None
      BY <2>3 DEF UpdatesInv, Recorded
    <3> QED BY <3>1, <3>2 DEF Fast, SameProtocol, Updates!Slow
  <2>7. ASSUME NEW other \in Ids, devices[other] = None \/ Fast(devices[other])
        PROVE  RowFollows(dbQueue', calls', other, rows'[other], devices'[other])
    <3>1. other # call.id
      BY <2>6, <2>7
    <3> QED BY <2>1, <2>4, <2>7, <3>1 DEF UpdatesInv
  <2> QED BY <2>1, <2>4, <2>5, <2>7 DEF UpdatesInv
<1>6. ASSUME Updates!SaveCreated(c) \/ Updates!SaveUpdated(c)
      PROVE  UpdatesInv'
  <2>1. /\ dbQueue # <<>> /\ c = Head(dbQueue) /\ devices' = devices
        /\ rows' = [rows EXCEPT ![calls[c].id] = calls[c].config]
        /\ dbQueue' = Tail(dbQueue) /\ calls' = [calls EXCEPT ![c] = Idle]
    BY <1>6 DEF Updates!SaveCreated, Updates!SaveUpdated, Updates!Executes, Updates!Returns,
                Updates!Outcomes, Updates!Idle, Idle
  <2>2. QueueOK(dbQueue, calls)
    BY DEF UpdatesInv
  <2>3. /\ QueueOK(dbQueue', calls') /\ calls[c] \in Saving
        /\ \A id, row, config : RowFollows(dbQueue, calls, id, row, config)
             => RowFollows(dbQueue', calls', id,
                           IF id = calls[c].id THEN calls[c].config ELSE row, config)
    BY <2>1, <2>2, LeavesQueue
  <2>4. calls[c].id \in Ids /\ calls[c].config \in AllConfigs
    BY <2>3 DEF Saving, Pending
  <2>5. rows' \in [Ids -> AllConfigs \cup {None}]
        /\ \A id \in Ids : rows'[id] = IF id = calls[c].id THEN calls[c].config ELSE rows[id]
    BY <2>1, <2>4 DEF UpdatesInv
  <2>6. ASSUME NEW id \in Ids, devices[id] = None \/ Fast(devices[id])
        PROVE  RowFollows(dbQueue', calls', id, rows'[id], devices'[id])
    <3>1. RowFollows(dbQueue, calls, id, rows[id], devices[id])
      BY <2>6 DEF UpdatesInv
    <3> QED BY <2>1, <2>3, <2>5, <3>1
  <2>7. ASSUME NEW id \in Ids
        PROVE  Recorded(id, devices'[id], rows'[id], calls')
    <3>1. Recorded(id, devices[id], rows[id], calls)
      BY DEF UpdatesInv
    <3>2. \A d \in Calls : calls'[d] = IF d = c THEN Idle ELSE calls[d]
      BY <2>1, <2>2 DEF QueueOK
    <3>3. Idle.id # id
      BY IdleIsNotPending
    <3>4. c \in Calls
      OBVIOUS
    <3>5. CASE id = calls[c].id
      <4>1. rows'[id] # None /\ rows'[id] = calls[c].config
        BY <2>4, <2>5, <3>5, VersionAssumption
      <4>2. devices[id] # None /\ SameProtocol(calls[c].config, devices[id])
        BY <3>1, <3>4, <3>5 DEF Recorded
      <4> QED BY <2>1, <3>1, <3>2, <3>3, <4>1, <4>2 DEF Recorded
    <3>6. CASE id # calls[c].id
      <4>1. rows'[id] = rows[id] /\ devices'[id] = devices[id]
        BY <2>1, <2>5, <3>6
      <4>2. \A d \in Calls : calls'[d].id = id <=> calls[d].id = id
        BY <3>2, <3>3, <3>6
      <4>3. \A d \in Calls : calls'[d].id = id => calls'[d] = calls[d]
        BY <3>2, <3>3
      <4> QED BY <3>1, <4>1, <4>2, <4>3 DEF Recorded
    <3> QED BY <3>5, <3>6
  <2> QED BY <2>1, <2>3, <2>5, <2>6, <2>7 DEF UpdatesInv
<1>7. ASSUME Updates!Restart
      PROVE  UpdatesInv'
  <2>1. devices' = rows /\ rows' = rows /\ dbQueue' = <<>> /\ calls' = [d \in Calls |-> Idle]
    BY <1>7 DEF Updates!Restart, Updates!Idle, Idle
  <2>2. QueueOK(dbQueue', calls') /\ \A id : NoneAbout(dbQueue', calls', id)
    BY <2>1 DEF QueueOK, NoneAbout
  <2>3. ASSUME NEW id \in Ids
        PROVE  Recorded(id, rows[id], rows[id], calls')
    <3>1. \A d \in Calls : calls'[d].id # id
      BY <2>1, IdleIsNotPending
    <3> QED BY <3>1 DEF Recorded, SameProtocol
  <2> QED BY <2>1, <2>2, <2>3 DEF UpdatesInv, RowFollows
<1> QED BY <1>1, <1>3, <1>4, <1>5, <1>6, <1>7

\* However updates that keep the protocol of a device overlap, it is on disk exactly if it
\* is in memory, as soon as no call about it is under way, and for the same protocol: calls
\* that change the engine save the device sooner or later, and a restart brings back what
\* is saved. When its server does not suspend them, the row is what the engine has: the
\* statements are executed in the order in which the engine was changed.
THEOREM OverlappingUpdates == AllSpec => []UpdatesMatch
<1>1. AllInit => (part = "updates" => UpdatesInv)
  <2>1. Init => QueueOK(dbQueue, calls) /\ \A id : NoneAbout(dbQueue, calls, id)
    BY DEF Init, QueueOK, NoneAbout
  <2>2. ASSUME Init, NEW id \in Ids
        PROVE  Recorded(id, devices[id], rows[id], calls)
    <3>1. \A d \in Calls : calls[d].id # id
      BY <2>2, IdleIsNotPending DEF Init
    <3> QED BY <2>2, <3>1 DEF Init, Recorded
  <2>3. Init => UpdatesInv
    BY <2>1, <2>2 DEF Init, UpdatesInv, RowFollows
  <2> QED BY <2>3 DEF AllInit
<1>2. (part = "updates" => UpdatesInv) /\ [AllNext]_allVars => (part = "updates" => UpdatesInv)'
  <2> SUFFICES ASSUME part = "updates" => UpdatesInv, [AllNext]_allVars, part' = "updates"
               PROVE  UpdatesInv'
    OBVIOUS
  <2>1. part = "updates" /\ (UpdatesNext \/ UNCHANGED catalogueVars)
    BY DEF AllNext, OfCatalogue, OfUpdates, OfServers, OfMirror, OfConnection, OfLimit, allVars
  <2>2. CASE UNCHANGED catalogueVars
    BY <2>1, <2>2 DEF catalogueVars, UpdatesInv
  <2> QED BY <2>1, <2>2, UpdatesKept
<1>3. ASSUME UpdatesInv, NEW id \in Ids, Quiet(id)
      PROVE  /\ rows[id] = None <=> devices[id] = None
             /\ devices[id] # None => /\ ProtocolOfAll[rows[id]] = ProtocolOfAll[devices[id]]
                                      /\ Updates!Slow(devices[id]) \/ rows[id] = devices[id]
  <2>1. \A i \in 1..Len(dbQueue) : calls[dbQueue[i]].id # id
    BY <1>3, ElementOfSeq DEF UpdatesInv, QueueOK, Quiet
  <2>2. Recorded(id, devices[id], rows[id], calls) /\ \A c \in Calls : calls[c].id # id
    BY <1>3 DEF UpdatesInv, Quiet
  <2>3. (rows[id] = None <=> devices[id] = None)
        /\ (devices[id] # None => SameProtocol(rows[id], devices[id]))
    BY <2>2 DEF Recorded
  <2>4. Fast(devices[id]) => rows[id] = devices[id]
    BY <1>3, <2>1 DEF UpdatesInv, RowFollows, LastAbout
  <2> QED BY <2>3, <2>4 DEF SameProtocol, Fast
<1>4. (part = "updates" => UpdatesInv) => UpdatesMatch
  BY <1>3 DEF UpdatesMatch
<1> QED BY <1>1, <1>2, <1>4, PTL DEF AllSpec

-----------------------------------------------------------------------------
(* What is in a queue *)

Within(queue) == {queue[i] : i \in DOMAIN queue}

\* A job or an answer put into the queue is in it, besides what was there before.
LEMMA PutIntoQueue ==
  ASSUME NEW S, NEW queue \in Seq(S), NEW x \in S
  PROVE  /\ Append(queue, x) \in Seq(S)
         /\ Within(Append(queue, x)) = Within(queue) \cup {x}
<1> DEFINE longer == Append(queue, x)
<1>1. longer \in Seq(S) /\ Len(longer) = Len(queue) + 1 /\ Len(queue) \in Nat
      /\ DOMAIN longer = 1..Len(longer) /\ DOMAIN queue = 1..Len(queue)
  OBVIOUS
<1>2. longer[Len(queue) + 1] = x /\ \A i \in 1..Len(queue) : longer[i] = queue[i]
  OBVIOUS
<1> HIDE DEF longer
<1>3. Within(longer) \subseteq Within(queue) \cup {x}
  BY <1>1, <1>2 DEF Within
<1>4. Within(queue) \cup {x} \subseteq Within(longer)
  BY <1>1, <1>2 DEF Within
<1> QED BY <1>1, <1>3, <1>4 DEF longer

\* The tasks of a queue, by what is in it.
LEMMA TasksAreThoseWithin ==
  ASSUME NEW queue PROVE TasksOf(queue) = {e.task : e \in Within(queue)}
  BY DEF TasksOf, Within

\* No two entries of such a queue are of the same task.
LEMMA DistinctWithin ==
  ASSUME NEW queue, Distinct(queue)
  PROVE  \A e, f \in Within(queue) : e.task = f.task => e = f
  BY DEF Distinct, Within

\* A call that has nothing in the queue may put something into it.
LEMMA PutDistinct ==
  ASSUME NEW S, NEW queue \in Seq(S), NEW x \in S, Distinct(queue), x.task \notin TasksOf(queue)
  PROVE  Distinct(Append(queue, x))
<1> DEFINE longer == Append(queue, x)
<1>1. longer \in Seq(S) /\ Len(longer) = Len(queue) + 1 /\ Len(queue) \in Nat
      /\ DOMAIN longer = 1..Len(longer) /\ DOMAIN queue = 1..Len(queue)
  OBVIOUS
<1>2. longer[Len(queue) + 1] = x /\ \A i \in 1..Len(queue) : longer[i] = queue[i]
  OBVIOUS
<1> HIDE DEF longer
<1>3. SUFFICES ASSUME NEW i \in DOMAIN longer, NEW j \in DOMAIN longer,
                      longer[i].task = longer[j].task
               PROVE  i = j
  BY DEF Distinct, longer
<1>4. \A k \in 1..Len(queue) : longer[k].task # x.task
  BY <1>1, <1>2 DEF TasksOf
<1>5. CASE i \in 1..Len(queue) /\ j \in 1..Len(queue)
  BY <1>1, <1>2, <1>3, <1>5 DEF Distinct
<1>6. CASE i = Len(queue) + 1 \/ j = Len(queue) + 1
  BY <1>1, <1>2, <1>3, <1>4, <1>6
<1> QED BY <1>1, <1>3, <1>5, <1>6

\* Taking the first out of a queue takes out all there is of its task.
LEMMA TakeFromQueue ==
  ASSUME NEW S, NEW queue \in Seq(S), queue # <<>>, Distinct(queue)
  PROVE  /\ Head(queue) \in Within(queue) /\ Head(queue) \in S
         /\ Tail(queue) \in Seq(S) /\ Distinct(Tail(queue))
         /\ Within(Tail(queue)) = {e \in Within(queue) : e.task # Head(queue).task}
<1> DEFINE rest == Tail(queue)
<1>1. /\ rest \in Seq(S) /\ Len(rest) = Len(queue) - 1 /\ Len(queue) \in Nat \ {0}
      /\ DOMAIN rest = 1..Len(rest) /\ DOMAIN queue = 1..Len(queue)
  OBVIOUS
<1>2. Head(queue) = queue[1] /\ \A i \in 1..Len(rest) : rest[i] = queue[i + 1]
  OBVIOUS
<1> HIDE DEF rest
<1>3. Head(queue) \in Within(queue) /\ Head(queue) \in S
  BY <1>1, <1>2 DEF Within
<1>4. Distinct(rest)
  <2> SUFFICES ASSUME NEW i \in DOMAIN rest, NEW j \in DOMAIN rest, rest[i].task = rest[j].task
               PROVE  i = j
    BY DEF Distinct
  <2>1. i \in Nat /\ j \in Nat /\ i + 1 \in DOMAIN queue /\ j + 1 \in DOMAIN queue
    BY <1>1
  <2>2. queue[i + 1].task = queue[j + 1].task
    BY <1>1, <1>2
  <2>3. i + 1 = j + 1
    BY <2>1, <2>2 DEF Distinct
  <2> QED BY <2>1, <2>3
<1>5. \A i \in DOMAIN queue : queue[i].task # Head(queue).task <=> i # 1
  <2> TAKE i \in DOMAIN queue
  <2>1. 1 \in DOMAIN queue
    BY <1>1
  <2> QED BY <1>2, <2>1 DEF Distinct
<1>6. Within(rest) \subseteq {e \in Within(queue) : e.task # Head(queue).task}
  <2> SUFFICES ASSUME NEW i \in DOMAIN rest
               PROVE  rest[i] \in Within(queue) /\ rest[i].task # Head(queue).task
    BY DEF Within
  <2>1. i \in Nat /\ i # 0 /\ i + 1 \in DOMAIN queue /\ i + 1 # 1 /\ rest[i] = queue[i + 1]
    BY <1>1, <1>2
  <2> QED BY <1>5, <2>1 DEF Within
<1>7. {e \in Within(queue) : e.task # Head(queue).task} \subseteq Within(rest)
  <2> SUFFICES ASSUME NEW i \in DOMAIN queue, queue[i].task # Head(queue).task
               PROVE  queue[i] \in Within(rest)
    BY DEF Within
  <2>1. i # 1
    BY <1>5
  <2>2. i - 1 \in DOMAIN rest /\ (i - 1) + 1 = i
    BY <1>1, <2>1
  <2>3. rest[i - 1] = queue[i]
    BY <1>1, <1>2, <2>2
  <2> QED BY <2>2, <2>3 DEF Within
<1> QED BY <1>1, <1>3, <1>4, <1>6, <1>7 DEF rest

-----------------------------------------------------------------------------
(* What a call waits for *)

Kinds == {"begin", "write", "commit", "rollback"}
JobIn(queue, t, does) == \E j \in Within(queue) : j.task = t /\ j.does = does
ResultIn(queue, t, ok) == \E a \in Within(queue) : a.task = t /\ a.ok = ok

Job(t, does) == JobIn(jobs, t, does)
Result(t, ok) == ResultIn(answers, t, ok)

\* A call under way waits for one thing, a job to be done or an answer to be given.
LEMMA OneThing ==
  ASSUME ConnectionTypeOK, NEW t \in Tasks
  PROVE  /\ t \in UnderWay <=> (\E d \in Kinds : Job(t, d)) \/ (\E ok \in BOOLEAN : Result(t, ok))
         /\ \A d, e \in Kinds : Job(t, d) /\ Job(t, e) => d = e
         /\ \A d \in Kinds, ok \in BOOLEAN : ~(Job(t, d) /\ Result(t, ok))
         /\ ~(Result(t, TRUE) /\ Result(t, FALSE))
<1>1. Within(jobs) \subseteq Jobs /\ Within(answers) \subseteq Answers
  BY DEF Within, ConnectionTypeOK
<1>2. /\ TasksOf(jobs) = {e.task : e \in Within(jobs)}
      /\ TasksOf(answers) = {e.task : e \in Within(answers)}
  BY TasksAreThoseWithin
<1>3. t \in TasksOf(jobs) <=> \E d \in Kinds : Job(t, d)
  BY <1>1, <1>2 DEF Job, JobIn, Jobs, Kinds
<1>4. t \in TasksOf(answers) <=> \E ok \in BOOLEAN : Result(t, ok)
  BY <1>1, <1>2 DEF Result, ResultIn, Answers
<1>5. \A d, e \in Kinds : Job(t, d) /\ Job(t, e) => d = e
  BY DistinctWithin DEF Job, JobIn, ConnectionTypeOK
<1>6. ~(Result(t, TRUE) /\ Result(t, FALSE))
  BY DistinctWithin DEF Result, ResultIn, ConnectionTypeOK
<1>7. /\ t \in UnderWay <=> t \in TasksOf(jobs) \/ t \in TasksOf(answers)
      /\ ~(t \in TasksOf(jobs) /\ t \in TasksOf(answers))
  BY DEF ConnectionTypeOK
<1> QED BY <1>3, <1>4, <1>5, <1>6, <1>7

\* Putting a job into the queue, for a call that has nothing in it.
LEMMA Submitted ==
  ASSUME ConnectionTypeOK, NEW t \in Tasks, NEW does \in Kinds, t \notin TasksOf(jobs),
         Submit(t, does)
  PROVE  /\ jobs' \in Seq(Jobs) /\ Distinct(jobs') /\ TasksOf(jobs') = TasksOf(jobs) \cup {t}
         /\ \A u, d : JobIn(jobs', u, d) <=> Job(u, d) \/ (u = t /\ d = does)
<1> DEFINE job == [task |-> t, does |-> does]
<1>1. job \in Jobs /\ job.task = t /\ job.does = does
  BY DEF Jobs, Kinds
<1>2. jobs \in Seq(Jobs) /\ Distinct(jobs) /\ jobs' = Append(jobs, job)
  BY DEF ConnectionTypeOK, Submit
<1> HIDE DEF job
<1>3. jobs' \in Seq(Jobs) /\ Within(jobs') = Within(jobs) \cup {job}
  BY <1>1, <1>2, PutIntoQueue
<1>4. Distinct(jobs')
  BY <1>1, <1>2, PutDistinct
<1>5. TasksOf(jobs') = TasksOf(jobs) \cup {t}
  BY <1>1, <1>3, TasksAreThoseWithin
<1>6. \A u, d : JobIn(jobs', u, d) <=> Job(u, d) \/ (u = t /\ d = does)
  BY <1>1, <1>3 DEF Job, JobIn
<1> QED BY <1>3, <1>4, <1>5, <1>6

\* The thread has done a job and given its answer.
LEMMA Answered ==
  ASSUME ConnectionTypeOK, NEW does, NEW ok \in BOOLEAN, Does(does), Answer(ok)
  PROVE  \E t \in Tasks :
           /\ t = Head(jobs).task /\ Job(t, does)
           /\ jobs' \in Seq(Jobs) /\ Distinct(jobs') /\ TasksOf(jobs') = TasksOf(jobs) \ {t}
           /\ \A u, d : JobIn(jobs', u, d) <=> Job(u, d) /\ u # t
           /\ answers' \in Seq(Answers) /\ Distinct(answers')
           /\ TasksOf(answers') = TasksOf(answers) \cup {t}
           /\ \A u, b : ResultIn(answers', u, b) <=> Result(u, b) \/ (u = t /\ b = ok)
<1> DEFINE t == Head(jobs).task
           result == [task |-> t, ok |-> ok]
<1>1. /\ jobs \in Seq(Jobs) /\ Distinct(jobs) /\ jobs # <<>> /\ jobs' = Tail(jobs)
      /\ answers \in Seq(Answers) /\ Distinct(answers) /\ answers' = Append(answers, result)
      /\ TasksOf(jobs) \cap TasksOf(answers) = {} /\ Head(jobs).does = does
  BY DEF ConnectionTypeOK, Does, Answer
<1>2. /\ Head(jobs) \in Within(jobs) /\ Head(jobs) \in Jobs
      /\ jobs' \in Seq(Jobs) /\ Distinct(jobs')
      /\ Within(jobs') = {e \in Within(jobs) : e.task # t}
  BY <1>1, TakeFromQueue
<1>3. t \in Tasks /\ result \in Answers /\ result.task = t /\ result.ok = ok
  BY <1>2 DEF Jobs, Answers
<1>4. t \in TasksOf(jobs)
  BY <1>2, TasksAreThoseWithin
<1> HIDE DEF result
<1>5. answers' \in Seq(Answers) /\ Within(answers') = Within(answers) \cup {result}
  BY <1>1, <1>3, PutIntoQueue
<1>6. Distinct(answers')
  BY <1>1, <1>3, <1>4, PutDistinct
<1>7. Job(t, does)
  BY <1>1, <1>2 DEF Job, JobIn
<1> HIDE DEF t
<1>8. TasksOf(jobs') = TasksOf(jobs) \ {t} /\ TasksOf(answers') = TasksOf(answers) \cup {t}
  BY <1>2, <1>3, <1>5, TasksAreThoseWithin
<1>9. /\ \A u, d : JobIn(jobs', u, d) <=> Job(u, d) /\ u # t
      /\ \A u, b : ResultIn(answers', u, b) <=> Result(u, b) \/ (u = t /\ b = ok)
  BY <1>2, <1>3, <1>5 DEF Job, JobIn, Result, ResultIn
<1> QED BY <1>2, <1>3, <1>5, <1>6, <1>7, <1>8, <1>9 DEF t

\* A coroutine takes the answer it is resumed with.
LEMMA AnswerTaken ==
  ASSUME ConnectionTypeOK, answers # <<>>, answers' = Tail(answers)
  PROVE  /\ Head(answers).task \in Tasks /\ Head(answers).ok \in BOOLEAN
         /\ Result(Head(answers).task, Head(answers).ok)
         /\ answers' \in Seq(Answers) /\ Distinct(answers')
         /\ TasksOf(answers') = TasksOf(answers) \ {Head(answers).task}
         /\ \A u, b : ResultIn(answers', u, b) <=> Result(u, b) /\ u # Head(answers).task
<1>1. answers \in Seq(Answers) /\ Distinct(answers)
  BY DEF ConnectionTypeOK
<1>2. /\ Head(answers) \in Within(answers) /\ Head(answers) \in Answers
      /\ answers' \in Seq(Answers) /\ Distinct(answers')
      /\ Within(answers') = {e \in Within(answers) : e.task # Head(answers).task}
  BY <1>1, TakeFromQueue
<1>3. TasksOf(answers') = TasksOf(answers) \ {Head(answers).task}
  BY <1>2, TasksAreThoseWithin
<1>4. Result(Head(answers).task, Head(answers).ok)
  BY <1>2 DEF Result, ResultIn
<1>5. \A u, b : ResultIn(answers', u, b) <=> Result(u, b) /\ u # Head(answers).task
  BY <1>2 DEF Result, ResultIn
<1> QED BY <1>2, <1>3, <1>4, <1>5 DEF Answers

-----------------------------------------------------------------------------
(* The steps, by what they do to what the calls wait for *)

\* Where a coroutine is resumed to with an answer.
ResumesTo(t, ok, place) ==
  LET row == {"executing", "finishing"} IN
  \/ at[t] = "beginning" /\ ok /\ t = Import /\ place \in row
  \/ at[t] = "beginning" /\ ~ok /\ place = "raised"
  \/ at[t] = "executing" /\ ok /\ place = "committing"
  \/ at[t] \in {"executing", "committing"} /\ ~ok /\ t \in Deletions /\ place = "raised"
  \/ at[t] \in {"executing", "committing"} /\ ~ok /\ t \notin Deletions /\ place = "rollingback"
  \/ at[t] \in {"committing", "rollingback"} /\ t = Import /\ place \in row
  \/ at[t] = "committing" /\ ok /\ t # Import /\ place = "returned"
  \/ at[t] = "rollingback" /\ t # Import /\ place = "raised"
  \/ at[t] = "finishing" /\ ok /\ place = "returned"
  \/ at[t] = "finishing" /\ ~ok /\ place = "undoing"
  \/ at[t] = "undoing" /\ place = "raised"

JobAt(place) == CASE place = "beginning" -> "begin"
                  [] place = "executing" -> "write"
                  [] place \in {"committing", "finishing"} -> "commit"
                  [] place \in {"rollingback", "undoing"} -> "rollback"

\* Every job is of the place of its call; only the import begins a transaction of its own.
JobsFit ==
  /\ \A t \in Tasks, does \in Kinds : Job(t, does) => does = JobAt(at[t])
  /\ \A t \in Tasks \ {Import} : at[t] \notin {"beginning", "finishing", "undoing"}
  /\ \A t \in Deletions : at[t] # "rollingback"
  /\ at[Import] = "executing" => importRow \in 1..ImportRows

\* After a resumption, the call has left or waits for its next job.
Resumed(t, ok, place) ==
  /\ Result(t, ok) /\ ResumesTo(t, ok, place)
  /\ at' = [at EXCEPT ![t] = place]
  /\ answers' \in Seq(Answers) /\ Distinct(answers') /\ TasksOf(answers') = TasksOf(answers) \ {t}
  /\ \A u, b : ResultIn(answers', u, b) <=> Result(u, b) /\ u # t
  /\ importRow' \in 0..ImportRows /\ (t # Import => importRow' = importRow)
  /\ t = Import /\ place = "executing" => importRow' \in 1..ImportRows
  /\ jobs' \in Seq(Jobs) /\ Distinct(jobs')
  /\ place \in {"returned", "raised"} => jobs' = jobs
  /\ place \notin {"returned", "raised"} =>
       /\ TasksOf(jobs') = TasksOf(jobs) \cup {t}
       /\ \A u, d : JobIn(jobs', u, d) <=> Job(u, d) \/ (u = t /\ d = JobAt(place))

\* Whatever place a coroutine goes on from, it takes the first answer, and may put a job into the queue.
LEMMA ResumeResumes ==
  ASSUME ConnectionTypeOK, JobsFit, Resume
  PROVE  \E t \in Tasks, ok \in BOOLEAN, place \in {"executing", "committing", "rollingback",
                       "finishing", "undoing", "returned", "raised"} : Resumed(t, ok, place)
<1> DEFINE t == Head(answers).task
           ok == Head(answers).ok
<1>1. /\ t \in Tasks /\ ok \in BOOLEAN /\ Result(t, ok)
      /\ answers' \in Seq(Answers) /\ Distinct(answers') /\ TasksOf(answers') = TasksOf(answers) \ {t}
      /\ \A u, b : ResultIn(answers', u, b) <=> Result(u, b) /\ u # t
  BY AnswerTaken DEF Resume
<1>2. t \notin TasksOf(jobs)
  <2>1. t \in TasksOf(answers)
    <3>1. answers \in Seq(Answers) /\ answers # <<>>
      BY DEF ConnectionTypeOK, Resume
    <3>2. 1 \in DOMAIN answers /\ Head(answers) = answers[1]
      BY <3>1
    <3> QED BY <3>2 DEF TasksOf
  <2> QED BY <2>1 DEF ConnectionTypeOK
<1>3. \/ at[t] = "beginning" /\ ok /\ CallEnds(t, "returned")
      \/ at[t] = "beginning" /\ ~ok /\ Leave(t, "raised")
      \/ at[t] = "executing" /\ ok /\ NextJob(t, "committing", "commit")
      \/ at[t] \in {"executing", "committing"} /\ ~ok /\ Recovers(t)
      \/ at[t] = "committing" /\ ok /\ CallEnds(t, "returned")
      \/ at[t] = "rollingback" /\ CallEnds(t, "raised")
      \/ at[t] = "finishing" /\ ok /\ Leave(t, "returned")
      \/ at[t] = "finishing" /\ ~ok /\ NextJob(t, "undoing", "rollback")
      \/ at[t] = "undoing" /\ Leave(t, "raised")
  BY DEF Resume
<1> HIDE DEF t, ok
<1>4. importRow \in 0..ImportRows /\ jobs \in Seq(Jobs) /\ Distinct(jobs)
  BY DEF ConnectionTypeOK
<1>5. ASSUME NEW place \in {"returned", "raised"}, ResumesTo(t, ok, place), Leave(t, place)
      PROVE  Resumed(t, ok, place)
  BY <1>1, <1>4, <1>5 DEF Resumed, Leave, MovesTo
<1>6. ASSUME NEW place \in {"executing", "committing", "rollingback", "finishing", "undoing"},
             ResumesTo(t, ok, place), MovesTo(t, place), Submit(t, JobAt(place)),
             importRow' \in 0..ImportRows, t # Import => importRow' = importRow,
             t = Import /\ place = "executing" => importRow' \in 1..ImportRows
      PROVE  Resumed(t, ok, place)
  <2>1. JobAt(place) \in Kinds
    BY <1>6 DEF JobAt, Kinds
  <2>2. /\ jobs' \in Seq(Jobs) /\ Distinct(jobs') /\ TasksOf(jobs') = TasksOf(jobs) \cup {t}
        /\ \A u, d : JobIn(jobs', u, d) <=> Job(u, d) \/ (u = t /\ d = JobAt(place))
    BY <1>1, <1>2, <1>6, <2>1, Submitted
  <2> QED BY <1>1, <1>6, <2>2 DEF Resumed, MovesTo
<1>7. ASSUME ImportGoesOn, t = Import, \A place \in {"executing", "finishing"} : ResumesTo(t, ok, place)
      PROVE  \E place \in {"executing", "finishing"} : Resumed(t, ok, place)
  <2>1. CASE importRow < ImportRows
    <3>1. importRow' = importRow + 1 /\ MovesTo(t, "executing") /\ Submit(t, JobAt("executing"))
      BY <1>7, <2>1 DEF ImportGoesOn, JobAt
    <3>2. importRow' \in 1..ImportRows
      BY <1>4, <2>1, <3>1, ConnectionAssumption
    <3>3. importRow' \in 0..ImportRows
      BY <3>2, ConnectionAssumption
    <3> QED BY <1>6, <1>7, <3>1, <3>2, <3>3
  <2>2. CASE ~(importRow < ImportRows)
    <3>1. importRow' = importRow /\ MovesTo(t, "finishing") /\ Submit(t, JobAt("finishing"))
      BY <1>7, <2>2 DEF ImportGoesOn, JobAt, NextJob
    <3> QED BY <1>4, <1>6, <1>7, <3>1
  <2> QED BY <2>1, <2>2
<1>8. t # Import => at[t] \notin {"beginning", "finishing", "undoing"}
  BY <1>1 DEF JobsFit
<1>9. CASE at[t] = "beginning" /\ ok /\ CallEnds(t, "returned")
  BY <1>1, <1>7, <1>8, <1>9 DEF CallEnds, ResumesTo
<1>10. CASE at[t] = "beginning" /\ ~ok /\ Leave(t, "raised")
  BY <1>1, <1>5, <1>10 DEF ResumesTo
<1>11. CASE at[t] = "executing" /\ ok /\ NextJob(t, "committing", "commit")
  <2>1. JobAt("committing") = "commit" /\ ResumesTo(t, ok, "committing")
    BY <1>11 DEF JobAt, ResumesTo
  <2> QED BY <1>1, <1>4, <1>6, <1>11, <2>1 DEF NextJob
<1>12. CASE at[t] \in {"executing", "committing"} /\ ~ok /\ Recovers(t)
  <2>1. CASE t \in Deletions
    <3>1. ResumesTo(t, ok, "raised") /\ Leave(t, "raised")
      BY <1>12, <2>1 DEF Recovers, DeletionFails, ResumesTo
    <3> QED BY <1>1, <1>5, <3>1
  <2>2. CASE t \notin Deletions
    <3>1. JobAt("rollingback") = "rollback" /\ ResumesTo(t, ok, "rollingback")
      BY <1>12, <2>2 DEF JobAt, ResumesTo
    <3>2. NextJob(t, "rollingback", "rollback")
      BY <1>12, <2>2 DEF Recovers
    <3> QED BY <1>1, <1>4, <1>6, <3>1, <3>2 DEF NextJob
  <2> QED BY <2>1, <2>2
<1>13. CASE at[t] \in {"committing", "rollingback"} /\ t = Import /\ ImportGoesOn
  BY <1>1, <1>7, <1>13 DEF ResumesTo
<1>14. CASE at[t] = "committing" /\ ok /\ t # Import /\ Leave(t, "returned")
  BY <1>1, <1>5, <1>14 DEF ResumesTo
<1>15. CASE at[t] = "rollingback" /\ t # Import /\ Leave(t, "raised")
  BY <1>1, <1>5, <1>15 DEF ResumesTo
<1>16. CASE at[t] = "finishing" /\ ok /\ Leave(t, "returned")
  BY <1>1, <1>5, <1>16 DEF ResumesTo
<1>17. CASE at[t] = "finishing" /\ ~ok /\ NextJob(t, "undoing", "rollback")
  <2>1. JobAt("undoing") = "rollback" /\ ResumesTo(t, ok, "undoing")
    BY <1>17 DEF JobAt, ResumesTo
  <2> QED BY <1>1, <1>4, <1>6, <1>17, <2>1 DEF NextJob
<1>18. CASE at[t] = "undoing" /\ Leave(t, "raised")
  BY <1>1, <1>5, <1>18 DEF ResumesTo
<1> QED BY <1>3, <1>9, <1>10, <1>11, <1>12, <1>13, <1>14, <1>15, <1>16, <1>17, <1>18 DEF CallEnds

\* A job done, with what the thread answers to it.
Served(t, does, ok) ==
  /\ Job(t, does)
  /\ at' = at /\ importRow' = importRow
  /\ jobs' \in Seq(Jobs) /\ Distinct(jobs') /\ TasksOf(jobs') = TasksOf(jobs) \ {t}
  /\ \A u, d : JobIn(jobs', u, d) <=> Job(u, d) /\ u # t
  /\ answers' \in Seq(Answers) /\ Distinct(answers')
  /\ TasksOf(answers') = TasksOf(answers) \cup {t}
  /\ \A u, b : ResultIn(answers', u, b) <=> Result(u, b) \/ (u = t /\ b = ok)

\* Every job of the thread ends with an answer to its task.
LEMMA AnswerServes ==
  ASSUME ConnectionTypeOK, NEW does \in Kinds, NEW ok \in BOOLEAN, Does(does), Answer(ok)
  PROVE  \E t \in Tasks : t = Head(jobs).task /\ Served(t, does, ok)
<1>1. at' = at /\ importRow' = importRow
  BY DEF Answer
<1> QED BY <1>1, Answered DEF Served

\* A call made, with its first job.
Called(t) ==
  LET place == IF t = Import THEN "beginning" ELSE "executing" IN
  /\ at[t] = "idle" /\ at' = [at EXCEPT ![t] = place]
  /\ jobs' \in Seq(Jobs) /\ Distinct(jobs') /\ TasksOf(jobs') = TasksOf(jobs) \cup {t}
  /\ \A u, d : JobIn(jobs', u, d) <=> Job(u, d) \/ (u = t /\ d = JobAt(place))
  /\ answers' = answers /\ importRow' = importRow

\* A new call puts its first job into the queue.
LEMMA CallCalls ==
  ASSUME ConnectionTypeOK, NEW t \in Tasks, Call(t)
  PROVE  Called(t)
<1>1. t \notin TasksOf(jobs)
  BY DEF Call, ConnectionTypeOK, UnderWay
<1> DEFINE does == IF t = Import THEN "begin" ELSE "write"
<1>2. does \in Kinds /\ Submit(t, does)
  BY DEF Kinds, Call
<1> HIDE DEF does
<1>3. /\ jobs' \in Seq(Jobs) /\ Distinct(jobs') /\ TasksOf(jobs') = TasksOf(jobs) \cup {t}
      /\ \A u, d : JobIn(jobs', u, d) <=> Job(u, d) \/ (u = t /\ d = does)
  BY <1>1, <1>2, Submitted
<1>4. does = JobAt(IF t = Import THEN "beginning" ELSE "executing")
  BY DEF does, JobAt
<1> QED BY <1>3, <1>4 DEF Called, Call, MovesTo

-----------------------------------------------------------------------------
(* Types *)

Places == {"idle", "beginning", "executing", "committing",
           "rollingback", "finishing", "undoing", "returned", "raised"}

\* A job of a task is one that the place of the task asks for.
LEMMA PlaceOfJob ==
  ASSUME ConnectionTypeOK, JobsFit, NEW t \in Tasks, NEW does \in Kinds, Job(t, does)
  PROVE  /\ does = "begin" => at[t] = "beginning"
         /\ does = "write" => at[t] = "executing"
         /\ does = "commit" => at[t] \in {"committing", "finishing"}
         /\ does = "rollback" => at[t] \in {"rollingback", "undoing"}
<1>1. t \in UnderWay
  BY OneThing
<1>2. at[t] \in {"beginning", "executing", "committing", "rollingback", "finishing", "undoing"}
  BY <1>1 DEF UnderWay, ConnectionTypeOK
<1>3. does = JobAt(at[t])
  BY DEF JobsFit
<1> QED BY <1>2, <1>3 DEF JobAt

\* Every step keeps the types, and one job or answer for each call under way.
LEMMA StepsKeepQueues ==
  ASSUME ConnectionTypeOK, JobsFit, [ConnectionNext]_connectionVars
  PROVE  ConnectionTypeOK' /\ JobsFit'
<1>1. /\ at \in [Tasks -> Places] /\ importRow \in 0..ImportRows
      /\ jobs \in Seq(Jobs) /\ answers \in Seq(Answers)
      /\ Distinct(jobs) /\ Distinct(answers) /\ TasksOf(jobs) \cap TasksOf(answers) = {}
      /\ UnderWay = TasksOf(jobs) \cup TasksOf(answers)
  BY DEF ConnectionTypeOK, Places
<1>2. \A t \in Tasks : t \in TasksOf(jobs) <=> \E d \in Kinds : Job(t, d)
  <2>1. Within(jobs) \subseteq Jobs
    BY <1>1 DEF Within
  <2>2. TasksOf(jobs) = {e.task : e \in Within(jobs)}
    BY TasksAreThoseWithin
  <2> QED BY <2>1, <2>2 DEF Job, JobIn, Jobs, Kinds
<1>3. \A t \in Tasks : t \in TasksOf(answers) <=> \E ok \in BOOLEAN : Result(t, ok)
  <2>1. Within(answers) \subseteq Answers
    BY <1>1 DEF Within
  <2>2. TasksOf(answers) = {e.task : e \in Within(answers)}
    BY TasksAreThoseWithin
  <2> QED BY <2>1, <2>2 DEF Result, ResultIn, Answers
<1>4. ASSUME NEW t \in Tasks, Called(t)
      PROVE  /\ at' \in [Tasks -> Places] /\ importRow' \in 0..ImportRows
             /\ jobs' \in Seq(Jobs) /\ answers' \in Seq(Answers)
             /\ Distinct(jobs)' /\ Distinct(answers)' /\ TasksOf(jobs') \cap TasksOf(answers') = {}
             /\ UnderWay' = TasksOf(jobs') \cup TasksOf(answers')
             /\ JobsFit'
  <2>1. t \notin UnderWay /\ UnderWay' = UnderWay \cup {t}
    BY <1>1, <1>4 DEF Called, UnderWay
  <2>2. \A u \in Tasks : at'[u] = IF u # t THEN at[u]
                                   ELSE IF t = Import THEN "beginning" ELSE "executing"
    BY <1>1, <1>4 DEF Called
  <2>3. \A u \in Tasks, does \in Kinds : Job(u, does)' => does = JobAt(at'[u])
    <3>1. \A d \in Kinds : ~Job(t, d)
      BY <1>1, <1>2, <2>1
    <3>2. \A u \in Tasks, d \in Kinds : Job(u, d)' => Job(u, d) \/ (u = t /\ d = JobAt(at'[t]))
      BY <1>4, <2>2 DEF Called, Job
    <3> QED BY <2>2, <3>1, <3>2 DEF JobsFit
  <2>4. \A u \in Tasks \ {Import} : at'[u] \notin {"beginning", "finishing", "undoing"}
    BY <2>2 DEF JobsFit
  <2>5. (\A u \in Deletions : at'[u] # "rollingback") /\ (at'[Import] = "executing" => importRow' \in 1..ImportRows)
    BY <1>4, <2>2 DEF JobsFit, Called, Tasks
  <2>6. JobsFit'
    BY <2>3, <2>4, <2>5 DEF JobsFit
  <2> QED BY <1>1, <1>4, <2>1, <2>6 DEF Called, Places
<1>5. ASSUME NEW t \in Tasks, NEW ok \in BOOLEAN,
             NEW place \in {"executing", "committing", "rollingback",
                            "finishing", "undoing", "returned", "raised"}, Resumed(t, ok, place)
      PROVE  /\ at' \in [Tasks -> Places] /\ importRow' \in 0..ImportRows
             /\ jobs' \in Seq(Jobs) /\ answers' \in Seq(Answers)
             /\ Distinct(jobs)' /\ Distinct(answers)' /\ TasksOf(jobs') \cap TasksOf(answers') = {}
             /\ UnderWay' = TasksOf(jobs') \cup TasksOf(answers')
             /\ JobsFit'
  <2>1. t \in TasksOf(answers) /\ t \in UnderWay /\ t \notin TasksOf(jobs)
    BY <1>1, <1>3, <1>5 DEF Resumed
  <2>2. UnderWay' = IF place \in {"returned", "raised"} THEN UnderWay \ {t} ELSE UnderWay
    BY <1>1, <1>5, <2>1 DEF Resumed, UnderWay
  <2>3. /\ at' \in [Tasks -> Places] /\ importRow' \in 0..ImportRows
        /\ jobs' \in Seq(Jobs) /\ answers' \in Seq(Answers)
        /\ Distinct(jobs)' /\ Distinct(answers)'
    BY <1>1, <1>5 DEF Resumed, Places
  <2>4. TasksOf(jobs') \cap TasksOf(answers') = {} /\ UnderWay' = TasksOf(jobs') \cup TasksOf(answers')
    BY <1>1, <1>5, <2>1, <2>2 DEF Resumed
  <2>5. \A u \in Tasks, does \in Kinds : Job(u, does)' => does = JobAt(at'[u])
    <3>1. \A d \in Kinds : ~Job(t, d)
      BY <1>2, <2>1
    <3>2. \A u \in Tasks, d \in Kinds : Job(u, d)' => Job(u, d) \/ (u = t /\ d = JobAt(place))
      BY <1>5 DEF Resumed, Job
    <3>3. \A u \in Tasks : at'[u] = IF u = t THEN place ELSE at[u]
      BY <1>1, <1>5 DEF Resumed
    <3> QED BY <3>1, <3>2, <3>3 DEF JobsFit
  <2>6. \A u \in Tasks \ {Import} : at'[u] \notin {"beginning", "finishing", "undoing"}
    BY <1>1, <1>5 DEF Resumed, ResumesTo, JobsFit
  <2>7. \A u \in Deletions : at'[u] # "rollingback"
    BY <1>1, <1>5 DEF Resumed, ResumesTo, JobsFit, Tasks
  <2>8. at'[Import] = "executing" => importRow' \in 1..ImportRows
    BY <1>1, <1>5 DEF Resumed, JobsFit, Tasks
  <2> QED BY <2>3, <2>4, <2>5, <2>6, <2>7, <2>8 DEF JobsFit
<1>6. ASSUME NEW t \in Tasks, NEW ok \in BOOLEAN, NEW does \in Kinds, Served(t, does, ok)
      PROVE  /\ at' \in [Tasks -> Places] /\ importRow' \in 0..ImportRows
             /\ jobs' \in Seq(Jobs) /\ answers' \in Seq(Answers)
             /\ Distinct(jobs)' /\ Distinct(answers)' /\ TasksOf(jobs') \cap TasksOf(answers') = {}
             /\ UnderWay' = TasksOf(jobs') \cup TasksOf(answers')
             /\ JobsFit'
  <2>1. t \in TasksOf(jobs) /\ UnderWay' = UnderWay
    BY <1>2, <1>6 DEF Served, UnderWay
  <2>2. JobsFit'
    BY <1>6 DEF Served, JobsFit, Job
  <2> QED BY <1>1, <1>6, <2>1, <2>2 DEF Served
<1> DEFINE Typed == /\ at' \in [Tasks -> Places] /\ importRow' \in 0..ImportRows
                    /\ jobs' \in Seq(Jobs) /\ answers' \in Seq(Answers)
                    /\ Distinct(jobs)' /\ Distinct(answers)' /\ TasksOf(jobs') \cap TasksOf(answers') = {}
                    /\ UnderWay' = TasksOf(jobs') \cup TasksOf(answers')
                    /\ JobsFit'
<1>7. Overlapping => disturbed' \subseteq Tasks
  BY DEF Overlapping, ConnectionTypeOK
<1>8. /\ inTransaction \in BOOLEAN /\ unsaved \subseteq Rows /\ file \subseteq Rows
      /\ unsaved # {} => inTransaction
  BY DEF ConnectionTypeOK
<1> DEFINE Stored == /\ inTransaction' \in BOOLEAN /\ unsaved' \subseteq Rows /\ file' \subseteq Rows
                     /\ unsaved' # {} => inTransaction'
<1>9. ASSUME Typed, Stored, Overlapping PROVE ConnectionTypeOK' /\ JobsFit'
  BY <1>7, <1>9 DEF ConnectionTypeOK, Places
<1>10. ASSUME NEW t \in Tasks, Call(t) PROVE ConnectionTypeOK' /\ JobsFit'
  <2>1. Typed
    BY <1>4, <1>10, CallCalls
  <2>2. Stored /\ Overlapping
    BY <1>8, <1>10 DEF Call, transaction
  <2> QED BY <1>9, <2>1, <2>2
<1>11. ASSUME Resume PROVE ConnectionTypeOK' /\ JobsFit'
  <2>1. Typed
    BY <1>5, <1>11, ResumeResumes
  <2>2. Stored /\ Overlapping
    BY <1>8, <1>11 DEF Resume, transaction
  <2> QED BY <1>9, <2>1, <2>2
<1>12. ASSUME NEW does \in Kinds, NEW ok \in BOOLEAN, Does(does), Answer(ok) PROVE Typed /\ Overlapping
  BY <1>6, <1>12, AnswerServes DEF Answer
<1>13. ASSUME BeginTransaction PROVE ConnectionTypeOK' /\ JobsFit'
  <2>1. Typed /\ Overlapping
    BY <1>8, <1>12, <1>13 DEF BeginTransaction, Kinds
  <2>2. Stored
    BY <1>8, <1>13 DEF BeginTransaction
  <2> QED BY <1>9, <2>1, <2>2
<1>14. ASSUME Write PROVE ConnectionTypeOK' /\ JobsFit'
  <2>1. Typed /\ Overlapping
    BY <1>12, <1>14 DEF Write, Kinds
  <2>2. RowOf(Head(jobs).task) \in Rows
    <3>1. PICK t \in Tasks : t = Head(jobs).task /\ Job(t, "write")
      BY <1>14, Answered DEF Write
    <3>2. at[t] = "executing"
      BY <3>1, PlaceOfJob DEF Kinds
    <3> QED BY <3>1, <3>2 DEF RowOf, Rows, Tasks, JobsFit
  <2>3. Stored
    <3>1. CASE inTransaction' = TRUE
      BY <1>8, <1>14, <2>2, <3>1 DEF Write
    <3>2. CASE inTransaction' = inTransaction /\ unsaved' = unsaved /\ file' = file
      BY <1>8, <3>2
    <3> QED BY <1>14, <3>1, <3>2 DEF Write
  <2> QED BY <1>9, <2>1, <2>3
<1>15. ASSUME Commit PROVE ConnectionTypeOK' /\ JobsFit'
  <2>1. Typed /\ Overlapping
    BY <1>12, <1>15 DEF Commit, Kinds
  <2>2. Stored
    <3>1. CASE unsaved' = {} /\ inTransaction' = FALSE /\ file' \in {file, file \cup unsaved}
      BY <1>8, <3>1
    <3>2. CASE UNCHANGED transaction
      BY <1>8, <3>2 DEF transaction
    <3> QED BY <1>15, <3>1, <3>2 DEF Commit
  <2> QED BY <1>9, <2>1, <2>2
<1>16. ASSUME Rollback PROVE ConnectionTypeOK' /\ JobsFit'
  <2>1. Typed /\ Overlapping
    BY <1>12, <1>16 DEF Rollback, Kinds
  <2>2. Stored
    BY <1>8, <1>16 DEF Rollback
  <2> QED BY <1>9, <2>1, <2>2
<1>17. ASSUME UNCHANGED connectionVars PROVE ConnectionTypeOK' /\ JobsFit'
  <2>1. /\ at' = at /\ importRow' = importRow /\ jobs' = jobs /\ answers' = answers
        /\ inTransaction' = inTransaction /\ unsaved' = unsaved /\ file' = file
        /\ disturbed' = disturbed
    BY <1>17 DEF connectionVars
  <2>2. ConnectionTypeOK'
    BY <2>1 DEF ConnectionTypeOK, UnderWay
  <2>3. JobsFit'
    BY <2>1 DEF JobsFit, Job
  <2> QED BY <2>2, <2>3
<1> QED BY <1>10, <1>11, <1>13, <1>14, <1>15, <1>16, <1>17 DEF ConnectionNext

\* The queues start empty, with nothing under way.
LEMMA InitQueues == ConnectionInit => ConnectionTypeOK /\ JobsFit
<1> SUFFICES ASSUME ConnectionInit PROVE ConnectionTypeOK /\ JobsFit
  OBVIOUS
<1>1. TasksOf(jobs) = {} /\ TasksOf(answers) = {} /\ Within(jobs) = {} /\ UnderWay = {}
  BY DEF ConnectionInit, TasksOf, Within, UnderWay
<1>2. /\ at \in [Tasks -> {"idle"}] /\ importRow \in 0..ImportRows
      /\ jobs \in Seq(Jobs) /\ answers \in Seq(Answers) /\ Distinct(jobs) /\ Distinct(answers)
  BY ConnectionAssumption DEF ConnectionInit, Distinct
<1>3. ConnectionTypeOK
  BY <1>1, <1>2 DEF ConnectionInit, ConnectionTypeOK
<1>4. \A t \in Tasks : at[t] = "idle"
  BY DEF ConnectionInit
<1>5. JobsFit
  BY <1>1, <1>4 DEF JobsFit, Job, JobIn, Tasks
<1> QED BY <1>3, <1>5

\* The types; besides, a call under way has one job in the queue of the thread or one
\* answer on its way back, and changes are unsaved only within a transaction.
THEOREM ConnectionTypes == ConnectionSpec => []ConnectionTypeOK
<1>1. ConnectionTypeOK /\ JobsFit /\ [ConnectionNext]_connectionVars => ConnectionTypeOK' /\ JobsFit'
  BY StepsKeepQueues
<1> QED BY <1>1, InitQueues, PTL DEF ConnectionSpec

-----------------------------------------------------------------------------
(* The row of a writer *)

\* Nothing has been written yet; written, but the writer has not committed it.
Untried(w) == at[w] = "idle" \/ Job(w, "write")
Tried(w) == (at[w] = "executing" /\ Result(w, TRUE)) \/ Job(w, "commit")

\* Someone else may have opened the transaction, and has not committed it.
OthersOpen(w) ==
  \E t \in Tasks \ {w} : \/ at[t] = "executing" \/ Job(t, "commit")
                         \/ at[t] = "beginning" /\ Result(t, TRUE)

\* A writer that nobody's failure has disturbed: its row is where it thinks it is. It
\* may be saved before its own commit, by another one's; the commit then has nothing
\* left to do, unless someone has opened a transaction since.
WriterInv(w) ==
  /\ Untried(w) => w \notin file \cup unsaved
  /\ w \notin disturbed =>
       /\ Tried(w) => w \in file \cup unsaved
       /\ (at[w] = "committing" /\ Result(w, TRUE)) \/ at[w] = "returned" => w \in file
       /\ (at[w] = "executing" /\ Result(w, FALSE)) \/ at[w] = "raised"
          \/ (at[w] = "rollingback" /\ ~Job(w, "rollback")) => w \notin file \cup unsaved
       /\ (at[w] = "committing" /\ Result(w, FALSE)) \/ Job(w, "rollback") => w \notin file
       /\ inTransaction /\ w \in file /\ Tried(w) => OthersOpen(w)

\* While a statement of a call has failed, all calls that it overlaps with are noted.
FailuresNoticed ==
  FailingIn(at, answers) /\ (\E t, u \in UnderWay : t # u) => UnderWay \subseteq disturbed

\* The inductive invariant.
ConnectionInv ==
  /\ ConnectionTypeOK /\ JobsFit /\ FailuresNoticed
  /\ \A w \in Writers : WriterInv(w)

\* Two calls under way while one rolls back or hears of a failure are both disturbed.
LEMMA Noticed ==
  ASSUME ConnectionTypeOK, FailuresNoticed, NEW t \in UnderWay, NEW u \in UnderWay, t # u,
         \/ at[t] \in {"rollingback", "undoing"}
         \/ Result(t, FALSE) /\ at[t] # "beginning"
  PROVE  t \in disturbed /\ u \in disturbed
<1>1. t \in Tasks
  BY DEF UnderWay
<1>2. FailingIn(at, answers)
  BY <1>1 DEF FailingIn, Result, ResultIn, Within
<1> QED BY <1>2 DEF FailuresNoticed

\* The same of the next state, by the definition of Overlapping.
LEMMA NoticedNext ==
  ASSUME Overlapping, NEW t \in UnderWay', NEW u \in UnderWay', t # u,
         \/ at'[t] \in {"rollingback", "undoing"}
         \/ ResultIn(answers', t, FALSE) /\ at'[t] # "beginning"
  PROVE  t \in disturbed' /\ u \in disturbed'
<1>1. t \in Tasks
  BY DEF UnderWay
<1>2. FailingIn(at', answers')
  BY <1>1 DEF FailingIn, ResultIn, Within
<1>3. UnderWay' = {v \in Tasks : at'[v] \notin {"idle", "returned", "raised"}}
  BY DEF UnderWay
<1> QED BY <1>2, <1>3 DEF Overlapping

\* The history notices every such overlap, and forgets none.
LEMMA OverlappingNotices ==
  ASSUME Overlapping
  PROVE  FailuresNoticed' /\ disturbed \subseteq disturbed'
<1>1. UnderWay' = {v \in Tasks : at'[v] \notin {"idle", "returned", "raised"}}
  BY DEF UnderWay
<1>2. FailuresNoticed' = (FailingIn(at', answers') /\ (\E t, u \in UnderWay' : t # u)
                           => UnderWay' \subseteq disturbed')
  BY DEF FailuresNoticed, FailingIn
<1> QED BY <1>1, <1>2 DEF Overlapping

\* A step of someone else leaves a writer what it waits for.
SameFor(w) ==
  /\ at'[w] = at[w]
  /\ \A d : JobIn(jobs', w, d) <=> Job(w, d)
  /\ \A b : ResultIn(answers', w, b) <=> Result(w, b)

\* A step in which a writer neither moves nor is answered keeps what holds of it, when the
\* file and the changes of the transaction keep its write.
LEMMA OfAnother ==
  ASSUME NEW w, WriterInv(w), SameFor(w), disturbed \subseteq disturbed',
         Untried(w) => w \notin file' \cup unsaved',
         w \notin disturbed' =>
           /\ w \in file => w \in file'
           /\ w \in file \cup unsaved /\ Tried(w) => w \in file' \cup unsaved'
           /\ w \notin file \cup unsaved => w \notin file' \cup unsaved'
           /\ (at[w] = "committing" /\ Result(w, FALSE)) \/ Job(w, "rollback") =>
                (w \notin file => w \notin file')
           /\ inTransaction' /\ w \in file' /\ Tried(w) => OthersOpen(w)'
  PROVE  WriterInv(w)'
<1>1. (Untried(w)' <=> Untried(w)) /\ (Tried(w)' <=> Tried(w))
  BY DEF SameFor, Untried, Tried, Job, Result
<1>2. /\ at'[w] = at[w] /\ (Job(w, "rollback")' <=> Job(w, "rollback"))
      /\ (Result(w, TRUE)' <=> Result(w, TRUE)) /\ (Result(w, FALSE)' <=> Result(w, FALSE))
  BY DEF SameFor, Job, Result
<1>3. Untried(w)' => w \notin file' \cup unsaved'
  BY <1>1
<1>4. SUFFICES ASSUME w \notin disturbed'
      PROVE  /\ Tried(w)' => w \in file' \cup unsaved'
             /\ (at'[w] = "committing" /\ Result(w, TRUE)') \/ at'[w] = "returned" => w \in file'
             /\ (at'[w] = "executing" /\ Result(w, FALSE)') \/ at'[w] = "raised"
                \/ (at'[w] = "rollingback" /\ ~Job(w, "rollback")') => w \notin file' \cup unsaved'
             /\ (at'[w] = "committing" /\ Result(w, FALSE)') \/ Job(w, "rollback")' => w \notin file'
             /\ inTransaction' /\ w \in file' /\ Tried(w)' => OthersOpen(w)'
  BY <1>3 DEF WriterInv
<1> QED BY <1>1, <1>2, <1>4 DEF WriterInv

\* A task that waits for something is under way.
LEMMA TriedIsUnderWay ==
  ASSUME ConnectionTypeOK, NEW w \in Tasks
  PROVE  /\ Tried(w) \/ (\E d \in Kinds : Job(w, d)) \/ (\E ok \in BOOLEAN : Result(w, ok)) => w \in UnderWay
         /\ OthersOpen(w) => \E u \in UnderWay : u # w
<1>1. Tried(w) \/ (\E d \in Kinds : Job(w, d)) \/ (\E ok \in BOOLEAN : Result(w, ok)) => w \in UnderWay
  BY OneThing DEF Tried, Kinds
<1>2. \A u \in Tasks : Job(u, "commit") => u \in UnderWay
  BY OneThing DEF Kinds
<1>3. \A u \in Tasks : at[u] \in {"beginning", "executing"} => u \in UnderWay
  BY DEF UnderWay
<1> QED BY <1>1, <1>2, <1>3 DEF OthersOpen

\* The writers are the saves and transactions: neither deletions nor rows of the import.
LEMMA WritersAreTasks ==
  ASSUME NEW w \in Writers
  PROVE  w \in Tasks /\ w # Import /\ w \notin Deletions /\ w \notin 1..ImportRows
  BY ConnectionAssumption DEF Tasks

\* A new call keeps what holds of each writer.
LEMMA CallKeeps ==
  ASSUME ConnectionInv, NEW t \in Tasks, Call(t), NEW w \in Writers
  PROVE  WriterInv(w)'
<1>1. ConnectionTypeOK /\ WriterInv(w) /\ at \in [Tasks -> Places]
  BY DEF ConnectionInv, ConnectionTypeOK, Places
<1>2. w \in Tasks /\ w # Import
  BY WritersAreTasks
<1>3. Called(t) /\ disturbed \subseteq disturbed' /\ inTransaction' = inTransaction
      /\ unsaved' = unsaved /\ file' = file
  BY <1>1, CallCalls, OverlappingNotices DEF Call, transaction
<1>4. \A b : ResultIn(answers', w, b) <=> Result(w, b)
  BY <1>3 DEF Called, Result
<1>5. CASE w = t
  <2>1. at'[w] = "executing" /\ at[w] = "idle" /\ \A d : Job(w, d)' <=> Job(w, d) \/ d = "write"
    BY <1>1, <1>2, <1>3, <1>5 DEF Called, Job, JobAt
  <2>2. (\A d \in Kinds : ~Job(w, d)) /\ (\A ok \in BOOLEAN : ~Result(w, ok))
    BY <1>1, <1>2, <2>1, OneThing DEF UnderWay
  <2>3. ~Tried(w)' /\ ~Result(w, TRUE)' /\ ~Result(w, FALSE)' /\ ~Job(w, "rollback")'
    BY <1>4, <2>1, <2>2 DEF Tried, Result, Kinds
  <2>4. w \notin file \cup unsaved
    BY <1>1, <2>1 DEF WriterInv, Untried
  <2> QED BY <1>3, <2>1, <2>3, <2>4 DEF WriterInv
<1>6. CASE w # t
  <2>1. SameFor(w)
    BY <1>1, <1>2, <1>3, <1>4, <1>6 DEF SameFor, Called
  <2>2. OthersOpen(w) => OthersOpen(w)'
    <3>1. ASSUME NEW u \in Tasks \ {w},
                 at[u] = "executing" \/ Job(u, "commit") \/ (at[u] = "beginning" /\ Result(u, TRUE))
          PROVE  \/ at'[u] = "executing" \/ JobIn(jobs', u, "commit")
                 \/ at'[u] = "beginning" /\ ResultIn(answers', u, TRUE)
      BY <1>1, <1>3, <3>1 DEF Called, Result
    <3> QED BY <3>1 DEF OthersOpen, Job, Result
  <2>3. /\ Untried(w) => w \notin file' \cup unsaved'
        /\ inTransaction' /\ w \in file' /\ Tried(w) /\ w \notin disturbed' => OthersOpen(w)'
    BY <1>1, <1>3, <2>2 DEF WriterInv
  <2> QED BY <1>1, <1>3, <2>1, <2>3, OfAnother
<1> QED BY <1>5, <1>6

\* A coroutine that goes on keeps what holds of each writer.
LEMMA ResumeKeeps ==
  ASSUME ConnectionInv, Resume, NEW w \in Writers
  PROVE  WriterInv(w)'
<1>1. ConnectionTypeOK /\ JobsFit /\ FailuresNoticed /\ WriterInv(w) /\ at \in [Tasks -> Places]
  BY DEF ConnectionInv, ConnectionTypeOK, Places
<1>2. w \in Tasks /\ w # Import /\ w \notin Deletions
      /\ at[w] \notin {"beginning", "finishing", "undoing"}
  BY <1>1, WritersAreTasks DEF JobsFit
<1>3. PICK t \in Tasks, ok \in BOOLEAN, place \in {"executing", "committing", "rollingback",
               "finishing", "undoing", "returned", "raised"} : Resumed(t, ok, place)
  BY <1>1, ResumeResumes
<1>4. disturbed \subseteq disturbed' /\ inTransaction' = inTransaction
      /\ unsaved' = unsaved /\ file' = file
  BY OverlappingNotices DEF Resume, transaction
<1>5. t \in UnderWay /\ \A d \in Kinds : ~Job(t, d)
  BY <1>1, <1>3, OneThing DEF Resumed
<1>6. \A u \in Tasks : at'[u] = IF u = t THEN place ELSE at[u]
  BY <1>1, <1>3 DEF Resumed
<1>7. \A u \in Tasks : \A d : u # t => (JobIn(jobs', u, d) <=> Job(u, d))
  BY <1>3 DEF Resumed, Job
<1>8. \A u \in Tasks : \A b : u # t => (ResultIn(answers', u, b) <=> Result(u, b))
  BY <1>3 DEF Resumed
<1>9. \A b : ~ResultIn(answers', t, b)
  BY <1>3 DEF Resumed
<1>10. place \notin {"returned", "raised"} => \A d \in Kinds : JobIn(jobs', t, d) <=> d = JobAt(place)
  BY <1>3, <1>5 DEF Resumed
<1>11. CASE w = t
  <2>1. \/ at[w] = "executing" /\ ok /\ place = "committing"
        \/ at[w] \in {"executing", "committing"} /\ ~ok /\ place = "rollingback"
        \/ at[w] = "committing" /\ ok /\ place = "returned"
        \/ at[w] = "rollingback" /\ place = "raised"
    BY <1>2, <1>3, <1>11 DEF Resumed, ResumesTo
  <2>2. Result(w, ok) /\ at'[w] = place /\ (\A b : ~Result(w, b)') /\ (\A d \in Kinds : ~Job(w, d))
    BY <1>3, <1>5, <1>6, <1>9, <1>11 DEF Resumed, Result
  <2>3. place \in {"returned", "raised"} => \A d \in Kinds : ~Job(w, d)'
    BY <1>3, <1>5, <1>11 DEF Resumed, Job
  <2>4. /\ place = "committing" => Job(w, "commit")' /\ ~Job(w, "rollback")' /\ ~Job(w, "write")'
        /\ place = "rollingback" => Job(w, "rollback")' /\ ~Job(w, "commit")' /\ ~Job(w, "write")'
    BY <1>10, <1>11 DEF Kinds, JobAt, Job
  <2>5. OthersOpen(w) => OthersOpen(w)'
    <3>1. ASSUME NEW u \in Tasks \ {w},
                 at[u] = "executing" \/ Job(u, "commit") \/ (at[u] = "beginning" /\ Result(u, TRUE))
          PROVE  \/ at'[u] = "executing" \/ JobIn(jobs', u, "commit")
                 \/ at'[u] = "beginning" /\ ResultIn(answers', u, TRUE)
      BY <1>6, <1>7, <1>8, <1>11, <3>1
    <3> QED BY <3>1 DEF OthersOpen, Job, Result
  <2>6. CASE at[w] = "executing" /\ ok /\ place = "committing"
    <3>1. Tried(w) /\ ~Untried(w)' /\ Tried(w)'
      BY <2>2, <2>4, <2>6 DEF Tried, Untried
    <3> QED BY <1>1, <1>4, <2>2, <2>4, <2>5, <2>6, <3>1 DEF WriterInv
  <2>7. CASE at[w] \in {"executing", "committing"} /\ ~ok /\ place = "rollingback"
    <3>1. Result(w, FALSE) /\ ~Untried(w)' /\ ~Tried(w)'
      BY <2>2, <2>4, <2>7 DEF Tried, Untried
    <3> QED BY <1>1, <1>4, <2>2, <2>4, <2>7, <3>1 DEF WriterInv
  <2>8. CASE at[w] = "committing" /\ ok /\ place = "returned"
    <3>1. Result(w, TRUE) /\ ~Untried(w)' /\ ~Tried(w)' /\ ~Job(w, "rollback")'
      BY <2>2, <2>3, <2>8 DEF Tried, Untried, Kinds
    <3> QED BY <1>1, <1>4, <2>2, <2>8, <3>1 DEF WriterInv
  <2>9. CASE at[w] = "rollingback" /\ place = "raised"
    <3>1. ~Job(w, "rollback") /\ ~Untried(w)' /\ ~Tried(w)' /\ ~Job(w, "rollback")'
      BY <2>2, <2>3, <2>9 DEF Tried, Untried, Kinds
    <3> QED BY <1>1, <1>4, <2>2, <2>9, <3>1 DEF WriterInv
  <2> QED BY <2>1, <2>6, <2>7, <2>8, <2>9
<1>12. CASE w # t
  <2>1. SameFor(w)
    BY <1>2, <1>6, <1>7, <1>8, <1>12 DEF SameFor
  <2>2. OthersOpen(w) /\ Tried(w) /\ w \notin disturbed' => OthersOpen(w)'
    <3>1. SUFFICES ASSUME NEW u \in Tasks \ {w}, Tried(w), w \notin disturbed,
                 at[u] = "executing" \/ Job(u, "commit") \/ (at[u] = "beginning" /\ Result(u, TRUE))
          PROVE  \/ at'[u] = "executing" \/ JobIn(jobs', u, "commit")
                 \/ at'[u] = "beginning" /\ ResultIn(answers', u, TRUE)
      BY <1>4 DEF OthersOpen, Job, Result
    <3>2. CASE u # t
      BY <1>6, <1>7, <1>8, <3>1, <3>2
    <3>3. CASE u = t
      <4>1. Result(t, ok) /\ ResumesTo(t, ok, place) /\ ~Job(t, "commit")
        BY <1>3, <1>5 DEF Resumed, Kinds
      <4>2. w \in UnderWay
        BY <1>1, <1>2, <3>1, TriedIsUnderWay
      <4>3. ok
        <5>1. CASE at[t] = "executing"
          BY <1>1, <1>5, <1>12, <3>1, <4>1, <4>2, <5>1, Noticed
        <5>2. CASE Result(t, TRUE)
          BY <1>1, <4>1, <5>2, OneThing
        <5> QED BY <3>1, <3>3, <4>1, <5>1, <5>2
      <4>4. place \in {"executing", "committing", "finishing"}
        BY <3>1, <3>3, <4>1, <4>3 DEF ResumesTo
      <4> QED BY <1>6, <1>10, <3>3, <4>4 DEF JobAt, Kinds
    <3> QED BY <3>2, <3>3
  <2>3. /\ Untried(w) => w \notin file' \cup unsaved'
        /\ inTransaction' /\ w \in file' /\ Tried(w) /\ w \notin disturbed' => OthersOpen(w)'
    BY <1>1, <1>4, <2>2 DEF WriterInv
  <2> QED BY <1>1, <1>4, <2>1, <2>3, OfAnother
<1> QED BY <1>11, <1>12

\* What a job done changes for a writer: the thread has answered someone else, or itself.
LEMMA ServedOther ==
  ASSUME NEW t \in Tasks, NEW does, NEW ok, Served(t, does, ok), NEW w \in Tasks, w # t
  PROVE  SameFor(w)
  BY DEF Served, SameFor

\* What the task itself has after its job: an answer, and no job.
LEMMA ServedItself ==
  ASSUME ConnectionTypeOK, NEW t \in Tasks, NEW does \in Kinds, NEW ok \in BOOLEAN, Served(t, does, ok)
  PROVE  /\ at'[t] = at[t] /\ \A d \in Kinds : ~JobIn(jobs', t, d)
         /\ ResultIn(answers', t, TRUE) <=> ok
         /\ ResultIn(answers', t, FALSE) <=> ~ok
<1>1. at'[t] = at[t] /\ \A d \in Kinds : ~JobIn(jobs', t, d)
  BY DEF Served
<1>2. ~Result(t, TRUE) /\ ~Result(t, FALSE)
  BY OneThing DEF Served
<1>3. (ResultIn(answers', t, TRUE) <=> TRUE = ok) /\ (ResultIn(answers', t, FALSE) <=> FALSE = ok)
  BY <1>2 DEF Served
<1>4. (TRUE = ok <=> ok) /\ (FALSE = ok <=> ~ok)
  OBVIOUS
<1> QED BY <1>1, <1>3, <1>4

\* Another task that holds the transaction open goes on holding it.
LEMMA ServedNotWitness ==
  ASSUME NEW t \in Tasks, NEW does, NEW ok, Served(t, does, ok), NEW u \in Tasks, u # t,
         at[u] = "executing" \/ Job(u, "commit") \/ (at[u] = "beginning" /\ Result(u, TRUE))
  PROVE  \/ at'[u] = "executing" \/ JobIn(jobs', u, "commit")
         \/ at'[u] = "beginning" /\ ResultIn(answers', u, TRUE)
  BY DEF Served

\* A begin keeps what holds of each writer: it opens the transaction, and writes nothing.
LEMMA BeginKeeps ==
  ASSUME ConnectionInv, BeginTransaction, NEW w \in Writers
  PROVE  WriterInv(w)'
<1>1. ConnectionTypeOK /\ JobsFit /\ WriterInv(w) /\ at \in [Tasks -> Places]
  BY DEF ConnectionInv, ConnectionTypeOK, Places
<1>2. "begin" \in Kinds /\ (~inTransaction) \in BOOLEAN
  BY DEF Kinds
<1>3. PICK t \in Tasks : Served(t, "begin", ~inTransaction)
  BY <1>1, <1>2, AnswerServes DEF BeginTransaction
<1>4. at[t] = "beginning" /\ ~Job(t, "commit") /\ ~Result(t, TRUE)
  <2>1. Job(t, "begin")
    BY <1>3 DEF Served
  <2> QED BY <1>1, <2>1, PlaceOfJob, OneThing DEF Kinds
<1>5. t # w
  BY <1>1, <1>4, WritersAreTasks DEF JobsFit
<1>6. SameFor(w)
  BY <1>3, <1>5, WritersAreTasks, ServedOther
<1>7. disturbed \subseteq disturbed' /\ unsaved' = unsaved /\ file' = file
  BY OverlappingNotices DEF BeginTransaction, Answer
<1>8. inTransaction /\ OthersOpen(w) => OthersOpen(w)'
  <2>1. \A u \in Tasks : \/ at[u] = "executing" \/ Job(u, "commit")
                         \/ at[u] = "beginning" /\ Result(u, TRUE)
          => u # t
    BY <1>4
  <2>3. ASSUME NEW u \in Tasks \ {w},
               at[u] = "executing" \/ Job(u, "commit") \/ (at[u] = "beginning" /\ Result(u, TRUE))
        PROVE  \/ at'[u] = "executing" \/ JobIn(jobs', u, "commit")
               \/ at'[u] = "beginning" /\ ResultIn(answers', u, TRUE)
    BY <1>3, <2>1, <2>3, ServedNotWitness
  <2> QED BY <2>3 DEF OthersOpen, Job, Result
<1>9. ~inTransaction => OthersOpen(w)'
  <2>1. SUFFICES ASSUME ~inTransaction PROVE OthersOpen(w)'
    OBVIOUS
  <2>2. at'[t] = "beginning" /\ ResultIn(answers', t, TRUE)
    <3>1. ResultIn(answers', t, ~inTransaction) /\ at' = at
      BY <1>3 DEF Served
    <3>2. (~inTransaction) = TRUE
      BY <2>1
    <3> QED BY <1>4, <3>1, <3>2
  <2> QED BY <1>5, <2>2 DEF OthersOpen, Result
<1>10. /\ Untried(w) => w \notin file' \cup unsaved'
       /\ inTransaction' /\ w \in file' /\ Tried(w) /\ w \notin disturbed' => OthersOpen(w)'
  BY <1>1, <1>7, <1>8, <1>9 DEF WriterInv
<1> QED BY <1>1, <1>6, <1>7, <1>10, OfAnother

\* So does the write of any task.
LEMMA WriteKeeps ==
  ASSUME ConnectionInv, Write, NEW w \in Writers
  PROVE  WriterInv(w)'
<1>1. ConnectionTypeOK /\ JobsFit /\ WriterInv(w) /\ at \in [Tasks -> Places] /\ w \in Tasks
  BY WritersAreTasks DEF ConnectionInv, ConnectionTypeOK, Places
<1>2. "write" \in Kinds
  BY DEF Kinds
<1>3. PICK ok \in BOOLEAN : Answer(ok) /\ unsaved' = IF ok THEN unsaved \cup {RowOf(Head(jobs).task)} ELSE unsaved
  BY DEF Write
<1>4. PICK t \in Tasks : t = Head(jobs).task /\ Served(t, "write", ok)
  BY <1>1, <1>2, <1>3, AnswerServes DEF Write
<1>5. Job(t, "write") /\ at[t] = "executing" /\ at' = at
  <2>1. Job(t, "write") /\ at' = at
    BY <1>4 DEF Served
  <2> QED BY <1>1, <1>2, <2>1, PlaceOfJob
<1>6. disturbed \subseteq disturbed' /\ file' = file
  BY <1>3, OverlappingNotices DEF Write, Answer
<1>7. CASE w = t
  <2>1. at'[w] = "executing" /\ (\A d \in Kinds : ~JobIn(jobs', w, d))
        /\ (ResultIn(answers', w, TRUE) <=> ok) /\ (ResultIn(answers', w, FALSE) <=> ~ok)
    BY <1>1, <1>2, <1>3, <1>4, <1>5, <1>7, ServedItself
  <2>2. ~Untried(w)' /\ (Tried(w)' <=> ok) /\ (Result(w, FALSE)' <=> ~ok) /\ ~Job(w, "rollback")'
    BY <2>1 DEF Untried, Tried, Job, Result, Kinds
  <2>3. w \notin file \cup unsaved
    BY <1>1, <1>5, <1>7 DEF WriterInv, Untried
  <2>4. ok => w \in unsaved'
    BY <1>3, <1>4, <1>7, WritersAreTasks DEF RowOf
  <2>5. ~ok => unsaved' = unsaved
    BY <1>3
  <2> QED BY <1>6, <2>1, <2>2, <2>3, <2>4, <2>5 DEF WriterInv
<1>8. CASE w # t
  <2>1. SameFor(w)
    BY <1>1, <1>4, <1>8, ServedOther
  <2>2. RowOf(t) # w
    <3>1. CASE t = Import
      BY <1>5, <3>1, WritersAreTasks DEF RowOf, JobsFit, ConnectionInv
    <3> QED BY <1>8, <3>1 DEF RowOf
  <2>3. w \in unsaved' <=> w \in unsaved
    BY <1>3, <1>4, <2>2
  <2>4. OthersOpen(w)'
    BY <1>5, <1>8 DEF OthersOpen
  <2>5. Untried(w) => w \notin file' \cup unsaved'
    BY <1>1, <1>6, <2>3 DEF WriterInv
  <2> QED BY <1>1, <1>6, <2>1, <2>3, <2>4, <2>5, OfAnother
<1> QED BY <1>7, <1>8

\* So does a commit, which saves the changes of everyone.
LEMMA CommitKeeps ==
  ASSUME ConnectionInv, Commit, NEW w \in Writers
  PROVE  WriterInv(w)'
<1>1. ConnectionTypeOK /\ JobsFit /\ FailuresNoticed /\ WriterInv(w) /\ at \in [Tasks -> Places]
      /\ w \in Tasks
  BY WritersAreTasks DEF ConnectionInv, ConnectionTypeOK, Places
<1>2. "commit" \in Kinds
  BY DEF Kinds
<1>3. PICK ok \in BOOLEAN :
        /\ Answer(ok)
        /\ ok => file' = file \cup unsaved /\ unsaved' = {} /\ inTransaction' = FALSE
        /\ ~ok => inTransaction /\ file' = file /\ unsaved' \subseteq unsaved
  BY DEF Commit, transaction
<1>4. PICK t \in Tasks : Served(t, "commit", ok)
  BY <1>1, <1>2, <1>3, AnswerServes DEF Commit
<1>5. Job(t, "commit") /\ at[t] \in {"committing", "finishing"} /\ at' = at
      /\ ResultIn(answers', t, ok) /\ t \in UnderWay
  <2>1. Job(t, "commit") /\ at' = at /\ ResultIn(answers', t, ok)
    BY <1>4 DEF Served
  <2>2. t \in UnderWay
    BY <1>1, <1>2, <2>1, OneThing
  <2> QED BY <1>1, <1>2, <2>1, <2>2, PlaceOfJob
<1>6. Overlapping /\ disturbed \subseteq disturbed' /\ UnderWay' = UnderWay
  BY <1>3, <1>5, OverlappingNotices DEF Answer, UnderWay
<1>7. ~ok => \A u \in UnderWay : u # t => u \in disturbed' /\ t \in disturbed'
  <2>1. ~ok => ResultIn(answers', t, FALSE)
    BY <1>5
  <2> QED BY <1>5, <1>6, <2>1, NoticedNext
<1>8. CASE w = t
  <2>1. at[w] = "committing" /\ Tried(w)
    BY <1>1, <1>5, <1>8, WritersAreTasks DEF JobsFit, Tried
  <2>2. at'[w] = "committing" /\ (\A d \in Kinds : ~JobIn(jobs', w, d))
        /\ (ResultIn(answers', w, TRUE) <=> ok) /\ (ResultIn(answers', w, FALSE) <=> ~ok)
    BY <1>1, <1>2, <1>3, <1>4, <1>8, <2>1, ServedItself
  <2>3. ~Untried(w)' /\ ~Tried(w)' /\ (Result(w, TRUE)' <=> ok) /\ (Result(w, FALSE)' <=> ~ok)
        /\ ~Job(w, "rollback")'
    BY <2>2 DEF Untried, Tried, Job, Result, Kinds
  <2>4. ok /\ w \notin disturbed' => w \in file'
    BY <1>1, <1>3, <1>6, <2>1 DEF WriterInv
  <2>5. ~ok /\ w \notin disturbed' => w \notin file'
    <3>1. SUFFICES ASSUME ~ok, w \notin disturbed', w \in file PROVE FALSE
      BY <1>3
    <3>2. OthersOpen(w)
      BY <1>1, <1>3, <1>6, <2>1, <3>1 DEF WriterInv
    <3>3. PICK u \in UnderWay : u # w
      BY <1>1, <3>2, TriedIsUnderWay
    <3> QED BY <1>7, <1>8, <3>1, <3>3
  <2> QED BY <2>2, <2>3, <2>4, <2>5 DEF WriterInv
<1>9. CASE w # t
  <2>1. SameFor(w)
    BY <1>1, <1>4, <1>9, ServedOther
  <2>2. Untried(w) => w \notin file' \cup unsaved'
    BY <1>1, <1>3 DEF WriterInv
  <2>3. Tried(w) \/ Result(w, FALSE) \/ Job(w, "rollback") => w \in UnderWay
    BY <1>1, TriedIsUnderWay DEF Kinds
  <2>4. CASE ok
    <3>1. (at[w] = "committing" /\ Result(w, FALSE)) \/ Job(w, "rollback") => w \in disturbed
      <4>1. Job(w, "rollback") => at[w] \in {"rollingback", "undoing"}
        BY <1>1, PlaceOfJob DEF Kinds
      <4> QED BY <1>1, <1>5, <1>9, <2>3, <4>1, Noticed
    <3>2. /\ w \in file => w \in file'
          /\ w \in file' \cup unsaved' <=> w \in file \cup unsaved
          /\ ~inTransaction'
      BY <1>3, <2>4
    <3> QED BY <1>1, <1>6, <2>1, <2>2, <3>1, <3>2, OfAnother
  <2>5. CASE ~ok
    <3>1. Tried(w) => w \in disturbed'
      BY <1>7, <1>9, <2>3, <2>5
    <3>2. file' = file /\ unsaved' \subseteq unsaved
      BY <1>3, <2>5
    <3> QED BY <1>1, <1>6, <2>1, <2>2, <3>1, <3>2, OfAnother
  <2> QED BY <2>4, <2>5
<1> QED BY <1>8, <1>9

\* So does a rollback, which drops the changes of everyone.
LEMMA RollbackKeeps ==
  ASSUME ConnectionInv, Rollback, NEW w \in Writers
  PROVE  WriterInv(w)'
<1>1. ConnectionTypeOK /\ JobsFit /\ FailuresNoticed /\ WriterInv(w) /\ at \in [Tasks -> Places]
      /\ w \in Tasks
  BY WritersAreTasks DEF ConnectionInv, ConnectionTypeOK, Places
<1>2. "rollback" \in Kinds /\ TRUE \in BOOLEAN
  BY DEF Kinds
<1>3. PICK t \in Tasks : Served(t, "rollback", TRUE)
  BY <1>1, <1>2, AnswerServes DEF Rollback
<1>4. Job(t, "rollback") /\ at[t] \in {"rollingback", "undoing"} /\ t \in UnderWay
  <2>1. Job(t, "rollback")
    BY <1>3 DEF Served
  <2>2. t \in UnderWay
    BY <1>1, <1>2, <2>1, OneThing
  <2> QED BY <1>1, <1>2, <2>1, <2>2, PlaceOfJob
<1>5. disturbed \subseteq disturbed' /\ unsaved' = {} /\ inTransaction' = FALSE /\ file' = file
  BY OverlappingNotices DEF Rollback, Answer
<1>6. CASE w = t
  <2>1. at'[w] = "rollingback" /\ \A d \in Kinds : ~JobIn(jobs', w, d)
    <3>1. at[w] = "rollingback"
      BY <1>1, <1>4, <1>6, WritersAreTasks DEF JobsFit
    <3> QED BY <1>1, <1>2, <1>3, <1>6, <3>1, ServedItself
  <2>2. ~Untried(w)' /\ ~Tried(w)' /\ ~Job(w, "rollback")'
    BY <2>1 DEF Untried, Tried, Job, Result, Kinds
  <2>3. w \notin disturbed => w \notin file
    BY <1>1, <1>4, <1>6 DEF WriterInv
  <2> QED BY <1>5, <2>1, <2>2, <2>3 DEF WriterInv
<1>7. CASE w # t
  <2>1. SameFor(w)
    BY <1>1, <1>3, <1>7, ServedOther
  <2>2. w \in UnderWay => w \in disturbed
    BY <1>1, <1>4, <1>7, Noticed
  <2>3. Tried(w) => w \in disturbed
    BY <1>1, <2>2, TriedIsUnderWay
  <2>4. Untried(w) => w \notin file' \cup unsaved'
    BY <1>1, <1>5 DEF WriterInv
  <2> QED BY <1>1, <1>5, <2>1, <2>3, <2>4, OfAnother
<1> QED BY <1>6, <1>7

-----------------------------------------------------------------------------

\* The invariant of the connection at the start, and in every step.
LEMMA ConnectionInvStarts == ConnectionInit => ConnectionInv
<1> SUFFICES ASSUME ConnectionInit PROVE ConnectionInv
  OBVIOUS
<1>1. ConnectionTypeOK /\ JobsFit
  BY InitQueues
<1>2. UnderWay = {} /\ \A t \in Tasks : at[t] = "idle"
  BY DEF ConnectionInit, UnderWay
<1>3. FailuresNoticed
  BY <1>2 DEF FailuresNoticed
<1>4. ASSUME NEW w \in Writers PROVE WriterInv(w)
  <2>1. w \in Tasks /\ at[w] = "idle" /\ w \notin file \cup unsaved
    BY <1>2, WritersAreTasks DEF ConnectionInit
  <2>2. ~Tried(w) /\ ~Job(w, "rollback")
    BY <1>1, <1>2, <2>1, TriedIsUnderWay DEF Kinds
  <2> QED BY <2>1, <2>2 DEF WriterInv
<1> QED BY <1>1, <1>3, <1>4 DEF ConnectionInv

LEMMA ConnectionInvStays ==
  ConnectionInv /\ [ConnectionNext]_connectionVars => ConnectionInv'
<1> SUFFICES ASSUME ConnectionInv, [ConnectionNext]_connectionVars PROVE ConnectionInv'
  OBVIOUS
<1>1. ConnectionTypeOK' /\ JobsFit'
  BY StepsKeepQueues DEF ConnectionInv
<1>2. CASE UNCHANGED connectionVars
  <2>1. /\ at' = at /\ jobs' = jobs /\ answers' = answers /\ disturbed' = disturbed
        /\ inTransaction' = inTransaction /\ unsaved' = unsaved /\ file' = file
    BY <1>2 DEF connectionVars
  <2>2. FailuresNoticed'
    BY <2>1 DEF ConnectionInv, FailuresNoticed, UnderWay
  <2>3. \A w \in Writers : WriterInv(w)'
    BY <2>1 DEF ConnectionInv, WriterInv, Untried, Tried, OthersOpen, Job, Result
  <2> QED BY <1>1, <2>2, <2>3 DEF ConnectionInv
<1>3. CASE ConnectionNext
  <2>1. Overlapping
    BY <1>3 DEF ConnectionNext, Call, Resume, BeginTransaction, Write, Commit, Rollback, Answer
  <2>2. FailuresNoticed'
    BY <2>1, OverlappingNotices
  <2>3. ASSUME NEW w \in Writers PROVE WriterInv(w)'
    BY <1>3, CallKeeps, ResumeKeeps, BeginKeeps, WriteKeeps, CommitKeeps, RollbackKeeps
       DEF ConnectionNext
  <2> QED BY <1>1, <2>2, <2>3 DEF ConnectionInv
<1> QED BY <1>2, <1>3

\* What _execute answers of a write that no failure of a statement overlapped is true:
\* one that it has returned is in the file, one that it has refused is not and is not
\* about to be, whatever the other calls over the same connection do.
THEOREM WritesAnsweredTruly == ConnectionSpec => []AnswersAreTrue
<1>1. ConnectionInv => AnswersAreTrue
  BY DEF ConnectionInv, WriterInv, AnswersAreTrue
<1> QED BY <1>1, ConnectionInvStarts, ConnectionInvStays, PTL DEF ConnectionSpec

-----------------------------------------------------------------------------
(* Times in ascending order *)

Ascending(times) == \A i, j \in 1..Len(times) : i <= j => times[i] <= times[j]

\* A set of numbers has a least one.
LEMMA LeastNumber ==
  ASSUME NEW S \in SUBSET Nat, S # {}
  PROVE  \E n \in S : \A m \in S : n <= m
<1>1. PICK n \in S : \A m \in S : ~ (<<m, n>> \in OpToRel(<, Nat))
  BY NatLessThanWellFounded, WFMin
<1>2. \A m \in S : ~(m < n)
  BY <1>1 DEF OpToRel
<1> QED BY <1>2

\* Of ascending times, those within the window are the last ones.
LEMMA RecentAreTheLast ==
  ASSUME NEW times \in Seq(Nat), Ascending(times), time \in Nat
  PROVE  \E n \in 0..Len(times) :
           /\ Recent(times) = SubSeq(times, n + 1, Len(times))
           /\ \A i \in 1..Len(times) : times[i] + Window <= time <=> i <= n
<1> DEFINE Old(n) == \A i \in 1..Len(times) : times[i] + Window <= time <=> i <= n
           young == {i \in 1..Len(times) : ~(times[i] + Window <= time)}
<1>1. Len(times) \in Nat /\ Window \in Nat /\ \A i \in 1..Len(times) : times[i] \in Nat
  BY LimitAssumption
<1>2. \E n \in 0..Len(times) : Old(n)
  <2>1. CASE young = {}
    <3>1. \A i \in 1..Len(times) : times[i] + Window <= time
      BY <2>1
    <3>2. Len(times) \in 0..Len(times) /\ Old(Len(times))
      BY <1>1, <3>1
    <3> QED BY <3>2
  <2>2. CASE young # {}
    <3>1. young \subseteq Nat
      BY <1>1
    <3>2. PICK m \in young : \A i \in young : m <= i
      BY <2>2, <3>1, LeastNumber
    <3>3. m - 1 \in 0..Len(times)
      BY <1>1, <3>2
    <3>4. ASSUME NEW i \in 1..Len(times) PROVE times[i] + Window <= time <=> i <= m - 1
      <4>1. times[i] \in Nat /\ times[m] \in Nat /\ ~(times[m] + Window <= time)
        BY <1>1, <3>2
      <4>2. CASE i <= m - 1
        <5>1. i \notin young
          BY <1>1, <3>2, <4>2
        <5> QED BY <4>2, <5>1
      <4>3. CASE ~(i <= m - 1)
        <5>1. m <= i /\ m \in 1..Len(times)
          BY <1>1, <3>2, <4>3
        <5>2. times[m] <= times[i]
          BY <5>1 DEF Ascending
        <5> QED BY <1>1, <4>1, <4>3, <5>2
      <4> QED BY <4>2, <4>3
    <3> QED BY <3>3, <3>4
  <2> QED BY <2>1, <2>2
<1>3. DEFINE old == CHOOSE n \in 0..Len(times) : Old(n)
<1>4. old \in 0..Len(times) /\ Old(old)
  BY <1>2
<1>5. Recent(times) = SubSeq(times, old + 1, Len(times))
  BY DEF Recent
<1> HIDE DEF old
<1> QED BY <1>4, <1>5

-----------------------------------------------------------------------------
(* Lists that are the end of others *)

\* rest is the end of times, and what is missing is outside the window that ends now.
EndOf(rest, times, now) ==
  /\ Len(rest) <= Len(times)
  /\ \A i \in 1..Len(rest) : rest[i] = times[i + (Len(times) - Len(rest))]
  /\ \A i \in 1..(Len(times) - Len(rest)) : times[i] + Window <= now

\* An end of an end is an end.
LEMMA EndOfEnd ==
  ASSUME NEW a \in Seq(Nat), NEW b \in Seq(Nat), NEW c \in Seq(Nat), NEW now,
         EndOf(b, a, now), EndOf(c, b, now)
  PROVE  EndOf(c, a, now)
<1>1. Len(a) \in Nat /\ Len(b) \in Nat /\ Len(c) \in Nat /\ Len(c) <= Len(b) /\ Len(b) <= Len(a)
  BY DEF EndOf
<1>2. ASSUME NEW i \in 1..Len(c) PROVE c[i] = a[i + (Len(a) - Len(c))]
  <2>1. c[i] = b[i + (Len(b) - Len(c))] /\ i + (Len(b) - Len(c)) \in 1..Len(b)
    BY <1>1 DEF EndOf
  <2>2. b[i + (Len(b) - Len(c))] = a[(i + (Len(b) - Len(c))) + (Len(a) - Len(b))]
    BY <2>1 DEF EndOf
  <2>3. (i + (Len(b) - Len(c))) + (Len(a) - Len(b)) = i + (Len(a) - Len(c))
    BY <1>1
  <2> QED BY <2>1, <2>2, <2>3
<1>3. ASSUME NEW i \in 1..(Len(a) - Len(c)) PROVE a[i] + Window <= now
  <2>1. CASE i <= Len(a) - Len(b)
    BY <1>1, <2>1 DEF EndOf
  <2>2. CASE ~(i <= Len(a) - Len(b))
    <3> DEFINE j == i - (Len(a) - Len(b))
    <3>1. j \in 1..Len(b) /\ j \in 1..(Len(b) - Len(c)) /\ j + (Len(a) - Len(b)) = i
      BY <1>1, <2>2
    <3>2. b[j] + Window <= now /\ b[j] = a[j + (Len(a) - Len(b))]
      BY <3>1 DEF EndOf
    <3> QED BY <3>1, <3>2
  <2> QED BY <2>1, <2>2
<1> QED BY <1>1, <1>2, <1>3 DEF EndOf

\* An end of ascending times ascends.
LEMMA EndAscends ==
  ASSUME NEW a \in Seq(Nat), NEW b \in Seq(Nat), NEW now, EndOf(b, a, now), Ascending(a)
  PROVE  Ascending(b)
<1>1. Len(a) \in Nat /\ Len(b) \in Nat /\ Len(b) <= Len(a)
  BY DEF EndOf
<1>2. SUFFICES ASSUME NEW i \in 1..Len(b), NEW j \in 1..Len(b), i <= j PROVE b[i] <= b[j]
  BY DEF Ascending
<1>3. /\ i + (Len(a) - Len(b)) \in 1..Len(a) /\ j + (Len(a) - Len(b)) \in 1..Len(a)
      /\ i + (Len(a) - Len(b)) <= j + (Len(a) - Len(b))
  BY <1>1, <1>2
<1>4. a[i + (Len(a) - Len(b))] <= a[j + (Len(a) - Len(b))]
  BY <1>3 DEF Ascending
<1> QED BY <1>4 DEF EndOf

\* What Recent returns is the end of the times, and within the window.
LEMMA RecentIsEnd ==
  ASSUME NEW times \in Seq(Nat), Ascending(times), time \in Nat
  PROVE  /\ Recent(times) \in Seq(Nat) /\ EndOf(Recent(times), times, time)
         /\ \A i \in 1..Len(Recent(times)) : Recent(times)[i] + Window > time
<1>1. PICK n \in 0..Len(times) :
        /\ Recent(times) = SubSeq(times, n + 1, Len(times))
        /\ \A i \in 1..Len(times) : times[i] + Window <= time <=> i <= n
  BY RecentAreTheLast
<1>2. Len(times) \in Nat /\ Window \in Nat /\ \A i \in 1..Len(times) : times[i] \in Nat
  BY LimitAssumption
<1>3. n \in Nat /\ n <= Len(times)
  BY <1>1, <1>2
<1> DEFINE rest == SubSeq(times, n + 1, Len(times))
<1>4. /\ rest \in Seq(Nat) /\ Len(rest) = Len(times) - n
      /\ \A i \in 1..Len(rest) : rest[i] = times[i + n]
  <2>1. \A i \in (n + 1)..Len(times) : times[i] \in Nat
    BY <1>2, <1>3
  <2>2. /\ rest \in Seq(Nat)
        /\ Len(rest) = IF n + 1 <= Len(times) THEN Len(times) - (n + 1) + 1 ELSE 0
        /\ \A i \in 1..(Len(times) - (n + 1) + 1) : rest[i] = times[(n + 1) + i - 1]
    BY <1>2, <1>3, <2>1, SubSeqProperties
  <2>3. Len(rest) = Len(times) - n
    BY <1>2, <1>3, <2>2
  <2>4. ASSUME NEW i \in 1..Len(rest) PROVE rest[i] = times[i + n]
    <3>1. i \in 1..(Len(times) - (n + 1) + 1) /\ (n + 1) + i - 1 = i + n
      BY <1>2, <1>3, <2>3
    <3> QED BY <2>2, <3>1
  <2> QED BY <2>2, <2>3, <2>4
<1> HIDE DEF rest
<1>5. EndOf(rest, times, time)
  BY <1>1, <1>2, <1>3, <1>4 DEF EndOf
<1>6. ASSUME NEW i \in 1..Len(rest) PROVE rest[i] + Window > time
  <2>1. i + n \in 1..Len(times) /\ ~(i + n <= n)
    BY <1>2, <1>3, <1>4
  <2>2. ~(times[i + n] + Window <= time)
    BY <1>1, <2>1
  <2> QED BY <1>2, <1>4, <2>1, <2>2, SMTT(60)
<1> QED BY <1>1, <1>4, <1>5, <1>6 DEF rest

-----------------------------------------------------------------------------
(* The inductive invariant *)

\* No window holds more than MaxRequests of the times.
Spread(times) == \A i \in 1..(Len(times) - MaxRequests) : times[i + MaxRequests] >= times[i] + Window

\* What is kept of a key's requests is the end of all those let in; a request that
\* was refused has MaxRequests before it, and its Retry-After outlasts the first of them.
KeyInv(k) ==
  LET times == admitted[k] IN
  /\ Ascending(times)
  /\ EndOf(requests[k], times, time)
  /\ Spread(times)
  /\ retryAt[k] # Never =>
       /\ MaxRequests <= Len(times)
       /\ retryAt[k] > times[Len(times) - MaxRequests + 1] + Window

LimitInv == LimitTypeOK /\ \A k \in Keys : KeyInv(k)

\* Requests are told apart by numbers.
LEMMA TimesAreNumbers ==
  ASSUME LimitTypeOK
  PROVE  /\ time \in Nat /\ cleaned \in Nat
         /\ requests \in [Keys -> Seq(Nat)] /\ admitted \in [Keys -> Seq(Nat)]
         /\ \A k \in Keys : /\ \A i \in 1..Len(admitted[k]) : admitted[k][i] \in 0..time
                           /\ \A i \in 1..Len(requests[k]) : requests[k][i] \in 0..time
<1>1. time \in Nat /\ cleaned \in Nat
  BY LimitAssumption DEF LimitTypeOK
<1>2. 0..time \subseteq Nat
  BY <1>1
<1>3. \A k \in Keys : requests[k] \in Seq(0..time) /\ admitted[k] \in Seq(0..time)
  BY DEF LimitTypeOK
<1>4. \A k \in Keys : requests[k] \in Seq(Nat) /\ admitted[k] \in Seq(Nat)
  BY <1>2, <1>3, SeqMonotonic
<1>5. \A k \in Keys : /\ \A i \in 1..Len(admitted[k]) : admitted[k][i] \in 0..time
                     /\ \A i \in 1..Len(requests[k]) : requests[k][i] \in 0..time
  BY <1>3, ElementOfSeq
<1>6. requests = [k \in Keys |-> requests[k]] /\ admitted = [k \in Keys |-> admitted[k]]
  BY DEF LimitTypeOK
<1> QED BY <1>1, <1>4, <1>5, <1>6

\* A list of small numbers is a list of those.
LEMMA SmallTimes ==
  ASSUME NEW times \in Seq(Nat), NEW now \in Nat, \A i \in 1..Len(times) : times[i] \in 0..now
  PROVE  times \in Seq(0..now)
<1>1. Len(times) \in Nat /\ times = [i \in 1..Len(times) |-> times[i]]
  BY LenProperties
<1>2. times \in [1..Len(times) -> 0..now]
  BY <1>1
<1> QED BY <1>1, <1>2, SeqDef

\* What is_allowed looks at: the end of the list, within the window.
LEMMA LookedAt ==
  ASSUME LimitInv, NEW k \in Keys
  PROVE  /\ Kept(k) \in Seq(Nat) /\ EndOf(Kept(k), admitted[k], time)
         /\ Recent(Kept(k)) \in Seq(Nat) /\ EndOf(Recent(Kept(k)), admitted[k], time)
         /\ Len(Recent(Kept(k))) <= MaxRequests /\ Len(Kept(k)) <= MaxRequests
         /\ \A i \in 1..Len(Recent(Kept(k))) : Recent(Kept(k))[i] + Window > time
<1>1. /\ time \in Nat /\ requests[k] \in Seq(Nat) /\ admitted[k] \in Seq(Nat)
      /\ Ascending(admitted[k]) /\ EndOf(requests[k], admitted[k], time)
      /\ Len(requests[k]) <= MaxRequests
  BY TimesAreNumbers DEF LimitInv, LimitTypeOK, KeyInv
<1>2. Ascending(requests[k])
  BY <1>1, EndAscends
<1>3. EndOf(Kept(k), requests[k], time) /\ Kept(k) \in Seq(Nat)
  <2>1. CASE Kept(k) = requests[k]
    <3>1. EndOf(requests[k], requests[k], time)
      BY <1>1 DEF EndOf
    <3> QED BY <1>1, <2>1, <3>1
  <2>2. CASE Kept(k) = <<>> /\ Recent(requests[k]) = <<>>
    BY <1>1, <1>2, <2>2, RecentIsEnd
  <2> QED BY <2>1, <2>2 DEF Kept, Stale
<1>4. EndOf(Kept(k), admitted[k], time)
  BY <1>1, <1>3, EndOfEnd
<1>5. Ascending(Kept(k))
  BY <1>1, <1>3, <1>4, EndAscends
<1>6. /\ Recent(Kept(k)) \in Seq(Nat) /\ EndOf(Recent(Kept(k)), Kept(k), time)
      /\ \A i \in 1..Len(Recent(Kept(k))) : Recent(Kept(k))[i] + Window > time
  BY <1>1, <1>3, <1>5, RecentIsEnd
<1>7. EndOf(Recent(Kept(k)), admitted[k], time)
  BY <1>1, <1>3, <1>4, <1>6, EndOfEnd
<1>8. Len(Kept(k)) <= MaxRequests /\ Len(Recent(Kept(k))) <= MaxRequests
  <2>1. /\ Len(Recent(Kept(k))) \in Nat /\ Len(Kept(k)) \in Nat /\ Len(requests[k]) \in Nat
        /\ MaxRequests \in Nat
    BY <1>1, <1>3, <1>6, LimitAssumption
  <2>2. Len(Recent(Kept(k))) <= Len(Kept(k)) /\ Len(Kept(k)) <= Len(requests[k])
    BY <1>3, <1>6 DEF EndOf
  <2> QED BY <1>1, <2>1, <2>2
<1> QED BY <1>3, <1>4, <1>6, <1>7, <1>8

\* A request that is admitted now comes after those before it.
LEMMA AppendAscends ==
  ASSUME NEW times \in Seq(Nat), NEW now \in Nat, Ascending(times),
         \A i \in 1..Len(times) : times[i] \in 0..now
  PROVE  Ascending(Append(times, now))
<1> DEFINE longer == Append(times, now)
<1>1. /\ Len(longer) = Len(times) + 1 /\ longer[Len(times) + 1] = now /\ Len(times) \in Nat
      /\ \A i \in 1..Len(times) : longer[i] = times[i]
  BY AppendProperties
<1> HIDE DEF longer
<1>2. SUFFICES ASSUME NEW i \in 1..Len(longer), NEW j \in 1..Len(longer), i <= j
               PROVE  longer[i] <= longer[j]
  BY DEF Ascending, longer
<1>3. CASE j \in 1..Len(times)
  <2>1. i \in 1..Len(times) /\ longer[i] = times[i] /\ longer[j] = times[j]
    BY <1>1, <1>2, <1>3
  <2> QED BY <1>2, <1>3, <2>1 DEF Ascending
<1>4. CASE j = Len(times) + 1
  <2>1. i \in 1..Len(times) \/ i = Len(times) + 1
    BY <1>1
  <2> QED BY <1>1, <1>4, <2>1
<1> QED BY <1>1, <1>3, <1>4

\* Admitting a request adds it to the list and to the history alike.
LEMMA AppendKeepsEnd ==
  ASSUME NEW times \in Seq(Nat), NEW rest \in Seq(Nat), NEW now \in Nat, EndOf(rest, times, now)
  PROVE  EndOf(Append(rest, now), Append(times, now), now)
<1> DEFINE a == Append(times, now)
           b == Append(rest, now)
<1>1. /\ Len(a) = Len(times) + 1 /\ a[Len(times) + 1] = now /\ Len(times) \in Nat
      /\ \A i \in 1..Len(times) : a[i] = times[i]
  BY AppendProperties
<1>2. /\ Len(b) = Len(rest) + 1 /\ b[Len(rest) + 1] = now /\ Len(rest) \in Nat
      /\ \A i \in 1..Len(rest) : b[i] = rest[i]
  BY AppendProperties
<1> HIDE DEF a, b
<1>3. Len(rest) <= Len(times)
  BY DEF EndOf
<1>4. ASSUME NEW i \in 1..Len(b) PROVE b[i] = a[i + (Len(a) - Len(b))]
  <2>1. CASE i \in 1..Len(rest)
    <3>1. i + (Len(times) - Len(rest)) \in 1..Len(times)
          /\ i + (Len(times) - Len(rest)) = i + (Len(a) - Len(b))
      BY <1>1, <1>2, <1>3, <2>1
    <3>2. rest[i] = times[i + (Len(times) - Len(rest))]
      BY <2>1 DEF EndOf
    <3> QED BY <1>1, <1>2, <2>1, <3>1, <3>2
  <2>2. CASE i = Len(rest) + 1
    <3>1. i + (Len(a) - Len(b)) = Len(times) + 1
      BY <1>1, <1>2, <2>2
    <3> QED BY <1>1, <1>2, <2>2, <3>1
  <2> QED BY <1>2, <2>1, <2>2, SMTT(60)
<1>5. ASSUME NEW i \in 1..(Len(a) - Len(b)) PROVE a[i] + Window <= now
  <2>1. i \in 1..(Len(times) - Len(rest)) /\ i \in 1..Len(times)
    BY <1>1, <1>2, <1>3
  <2>2. times[i] + Window <= now
    BY <2>1 DEF EndOf
  <2> QED BY <1>1, <2>1, <2>2
<1>6. Len(b) <= Len(a)
  BY <1>1, <1>2, <1>3
<1>7. EndOf(b, a, now)
  BY <1>4, <1>5, <1>6 DEF EndOf
<1> QED BY <1>7 DEF a, b

\* The times in an end are no later than those of the whole.
LEMMA EndIsSmall ==
  ASSUME NEW times \in Seq(Nat), NEW rest \in Seq(Nat), NEW now \in Nat, NEW then, EndOf(rest, times, then),
         \A i \in 1..Len(times) : times[i] \in 0..now
  PROVE  rest \in Seq(0..now)
<1>1. Len(times) \in Nat /\ Len(rest) \in Nat /\ Len(rest) <= Len(times)
  BY DEF EndOf
<1>2. ASSUME NEW i \in 1..Len(rest) PROVE rest[i] \in 0..now
  <2>1. i + (Len(times) - Len(rest)) \in 1..Len(times)
    BY <1>1
  <2> QED BY <2>1 DEF EndOf
<1> QED BY <1>2, SmallTimes

\* Admitting a request when the one MaxRequests before it is outside the window.
LEMMA AppendKeepsSpread ==
  ASSUME NEW times \in Seq(Nat), NEW now \in Nat, Spread(times),
         \A i \in 1..Len(times) : i + MaxRequests = Len(times) + 1 => times[i] + Window <= now
  PROVE  Spread(Append(times, now))
<1> DEFINE longer == Append(times, now)
<1>1. /\ Len(longer) = Len(times) + 1 /\ longer[Len(times) + 1] = now /\ Len(times) \in Nat
      /\ \A i \in 1..Len(times) : longer[i] = times[i]
  BY AppendProperties
<1>2. MaxRequests \in Nat \ {0} /\ Window \in Nat /\ \A i \in 1..Len(times) : times[i] \in Nat
  BY LimitAssumption
<1> HIDE DEF longer
<1>3. ASSUME NEW i \in 1..(Len(longer) - MaxRequests)
      PROVE  longer[i + MaxRequests] >= longer[i] + Window
  <2>1. i \in 1..Len(times) /\ longer[i] = times[i]
    BY <1>1, <1>2
  <2>2. CASE i + MaxRequests = Len(times) + 1
    BY <1>1, <1>2, <2>1, <2>2
  <2>3. CASE i + MaxRequests # Len(times) + 1
    <3>1. i \in 1..(Len(times) - MaxRequests) /\ i + MaxRequests \in 1..Len(times)
      BY <1>1, <1>2, <2>3
    <3> QED BY <1>1, <2>1, <3>1 DEF Spread
  <2> QED BY <2>2, <2>3
<1> QED BY <1>3 DEF Spread, longer

\* What was dropped as too old stays too old.
LEMMA LaterEnd ==
  ASSUME NEW times \in Seq(Nat), NEW rest \in Seq(Nat), NEW now \in Nat, NEW later \in Nat,
         now <= later, EndOf(rest, times, now)
  PROVE  EndOf(rest, times, later)
<1>1. Len(times) \in Nat /\ Len(rest) \in Nat /\ Window \in Nat
      /\ \A i \in 1..Len(times) : times[i] \in Nat
  BY LimitAssumption
<1>2. \A i \in 1..(Len(times) - Len(rest)) : i \in 1..Len(times)
  BY <1>1
<1> QED BY <1>1, <1>2 DEF EndOf

-----------------------------------------------------------------------------
(* The steps *)

\* A request that is let in keeps what holds of each key.
LEMMA AdmitKeeps ==
  ASSUME LimitInv, NEW k \in Keys, Admit(k), NEW j \in Keys
  PROVE  /\ requests'[j] \in Seq(0..time') /\ admitted'[j] \in Seq(0..time')
         /\ Len(requests'[j]) <= MaxRequests /\ KeyInv(j)'
<1> DEFINE times == admitted[j]
           seen == Recent(Kept(k))
<1>1. /\ time \in Nat /\ times \in Seq(Nat) /\ Len(times) \in Nat
      /\ MaxRequests \in Nat \ {0} /\ Window \in Nat
      /\ \A i \in 1..Len(times) : times[i] \in 0..time
      /\ Ascending(times) /\ retryAt \in [Keys -> Nat \cup {Never}]
      /\ admitted \in [Keys -> Seq(Nat)]
  BY TimesAreNumbers, LimitAssumption DEF LimitInv, KeyInv, LimitTypeOK
<1>2. time' = time
  BY DEF Admit
<1>3. CASE j = k
  <2>1. /\ seen \in Seq(Nat) /\ EndOf(seen, times, time) /\ Len(seen) < MaxRequests
        /\ Len(seen) \in Nat
    BY <1>3, LookedAt DEF Admit, Allowed
  <2>2. requests'[j] = Append(seen, time) /\ admitted'[j] = Append(times, time) /\ retryAt'[j] = Never
    BY <1>1, <1>3 DEF Admit
  <2> HIDE DEF seen
  <2>3. Ascending(Append(times, time)) /\ EndOf(Append(seen, time), Append(times, time), time)
    BY <1>1, <2>1, AppendAscends, AppendKeepsEnd
  <2>4. seen \in Seq(0..time) /\ times \in Seq(0..time) /\ time \in 0..time
    BY <1>1, <2>1, EndIsSmall, SmallTimes
  <2>5. /\ Append(seen, time) \in Seq(0..time) /\ Append(times, time) \in Seq(0..time)
        /\ Len(Append(seen, time)) = Len(seen) + 1
    BY <2>4, AppendProperties
  <2>6. Spread(Append(times, time))
    <3>1. ASSUME NEW i \in 1..Len(times), i + MaxRequests = Len(times) + 1
          PROVE  times[i] + Window <= time
      <4>1. i \in 1..(Len(times) - Len(seen))
        BY <1>1, <2>1, <3>1
      <4> QED BY <2>1, <4>1 DEF EndOf
    <3>2. Spread(times)
      BY DEF LimitInv, KeyInv
    <3> QED BY <1>1, <3>1, <3>2, AppendKeepsSpread
  <2>7. KeyInv(j)'
    <3> DEFINE longer == Append(times, time)
    <3>1. admitted'[j] = longer /\ Ascending(longer) /\ EndOf(requests'[j], longer, time') /\ Spread(longer)
      BY <1>2, <2>2, <2>3, <2>6
    <3> HIDE DEF longer
    <3> QED BY <2>2, <3>1 DEF KeyInv, Spread
  <2> QED BY <1>1, <1>2, <2>1, <2>2, <2>5, <2>7
<1>4. CASE j # k
  <2>1. requests'[j] = Kept(j) /\ admitted'[j] = times /\ retryAt'[j] = retryAt[j]
    BY <1>1, <1>4 DEF Admit
  <2>2. Kept(j) \in Seq(Nat) /\ EndOf(Kept(j), times, time) /\ Len(Kept(j)) <= MaxRequests
    BY LookedAt
  <2>3. KeyInv(j)'
    BY <1>2, <2>1, <2>2 DEF KeyInv, LimitInv, Spread
  <2>4. times \in Seq(0..time)
    BY <1>1, SmallTimes
  <2>5. Kept(j) \in Seq(0..time)
    <3>1. Kept(j) = requests[j] \/ Kept(j) = <<>>
      BY DEF Kept
    <3> QED BY <3>1, EmptySeq DEF LimitInv, LimitTypeOK
  <2> QED BY <1>2, <2>1, <2>2, <2>3, <2>4, <2>5
<1> QED BY <1>3, <1>4

\* The answer is rounded down to whole units, and a unit is added.
LEMMA Rounding ==
  ASSUME NEW rest \in Nat, NEW d \in Nat \ {0}
  PROVE  rest \div d \in Nat /\ rest < d * (rest \div d + 1)
  BY Z3

\* A request that is refused keeps it as well, and gives its key a time to come back.
LEMMA RefuseKeeps ==
  ASSUME LimitInv, NEW k \in Keys, Refuse(k), NEW j \in Keys
  PROVE  /\ requests'[j] \in Seq(0..time') /\ admitted'[j] \in Seq(0..time')
         /\ Len(requests'[j]) <= MaxRequests /\ KeyInv(j)' /\ retryAt'[j] \in Nat \cup {Never}
<1> DEFINE times == admitted[j]
           seen == Recent(Kept(j))
<1>1. /\ time \in Nat /\ times \in Seq(Nat) /\ Len(times) \in Nat
      /\ MaxRequests \in Nat \ {0} /\ Window \in Nat /\ Second \in Nat \ {0}
      /\ \A i \in 1..Len(times) : times[i] \in 0..time
      /\ retryAt \in [Keys -> Nat \cup {Never}]
  BY TimesAreNumbers, LimitAssumption DEF LimitInv, LimitTypeOK
<1>2. time' = time /\ admitted' = admitted
  BY DEF Refuse
<1>3. times \in Seq(0..time)
  BY <1>1, SmallTimes
<1>4. requests'[j] \in {Kept(j), seen}
  BY DEF Refuse
<1>5. /\ Kept(j) \in Seq(Nat) /\ EndOf(Kept(j), times, time) /\ Len(Kept(j)) <= MaxRequests
      /\ seen \in Seq(Nat) /\ EndOf(seen, times, time) /\ Len(seen) <= MaxRequests
      /\ \A i \in 1..Len(seen) : seen[i] + Window > time
  BY LookedAt
<1>6. requests'[j] \in Seq(Nat) /\ EndOf(requests'[j], times, time) /\ Len(requests'[j]) <= MaxRequests
  BY <1>4, <1>5
<1>7. requests'[j] \in Seq(0..time)
  BY <1>1, <1>6, EndIsSmall
<1>8. /\ retryAt'[j] \in Nat \cup {Never}
      /\ retryAt'[j] # Never => /\ MaxRequests <= Len(times)
                                /\ retryAt'[j] > times[Len(times) - MaxRequests + 1] + Window
  <2>1. CASE j # k
    <3>1. retryAt'[j] = retryAt[j]
      BY <1>1, <2>1 DEF Refuse
    <3> QED BY <1>1, <3>1 DEF LimitInv, KeyInv
  <2>2. CASE j = k
    <3>1. /\ requests'[j] = seen /\ Len(seen) \in Nat
          /\ ~(Len(seen) < MaxRequests)
          /\ retryAt'[j] = time + Second * RetryAfter(seen)
      BY <1>1, <1>5, <2>2 DEF Refuse, Allowed
    <3>2. Len(seen) = MaxRequests /\ Len(seen) <= Len(times)
      BY <1>1, <1>5, <3>1 DEF EndOf
    <3>3. 1 \in 1..Len(seen) /\ 1 + (Len(times) - Len(seen)) = Len(times) - MaxRequests + 1
          /\ Len(times) - MaxRequests + 1 \in 1..Len(times)
      BY <1>1, <3>1, <3>2
    <3> HIDE DEF seen, times
    <3>4. seen[1] = times[Len(times) - MaxRequests + 1] /\ seen[1] + Window > time /\ seen[1] \in Nat
      <4>1. seen[1] = times[1 + (Len(times) - Len(seen))]
        BY <1>5, <3>3 DEF EndOf
      <4> QED BY <1>5, <3>3, <4>1
    <3>5. Head(seen) = seen[1]
      BY <1>5, <3>1, <3>3
    <3> DEFINE rest == seen[1] + Window - time
    <3>6. rest \in Nat /\ retryAt'[j] = time + Second * (rest \div Second + 1)
      <4>1. RetryAfter(seen) = rest \div Second + 1
        BY <3>5 DEF RetryAfter
      <4> QED BY <1>1, <3>1, <3>4, <4>1, SMTT(60)
    <3>7. rest \div Second \in Nat /\ rest < Second * (rest \div Second + 1)
      BY <1>1, <3>6, Rounding
    <3> DEFINE wait == Second * (rest \div Second + 1)
    <3>8. wait \in Nat /\ retryAt'[j] = time + wait /\ rest < wait
      BY <1>1, <3>6, <3>7
    <3>9. rest = seen[1] + Window - time
      OBVIOUS
    <3> HIDE DEF wait, rest
    <3>10. retryAt'[j] > seen[1] + Window /\ retryAt'[j] \in Nat
      <4>1. time \in Nat /\ Window \in Nat /\ seen[1] \in Nat
        BY <1>1, <3>4
      <4>2. retryAt'[j] \in Nat /\ time + wait > time + rest
        BY <3>6, <3>8, <4>1
      <4>3. time + rest = seen[1] + Window
        BY <3>9, <4>1
      <4> QED BY <3>8, <4>2, <4>3
    <3> QED BY <3>2, <3>4, <3>10
  <2> QED BY <2>1, <2>2
<1>9. KeyInv(j)'
  <2> HIDE DEF seen
  <2>1. admitted'[j] = times
    BY <1>2
  <2>2. Ascending(times) /\ Spread(times)
    BY DEF LimitInv, KeyInv
  <2> HIDE DEF times
  <2> QED BY <1>2, <1>6, <1>8, <2>1, <2>2 DEF KeyInv, Spread
<1> QED BY <1>2, <1>3, <1>6, <1>7, <1>8, <1>9

\* Both ways of is_allowed, after the clean-up that comes before them.
LEMMA AnswerKeeps ==
  ASSUME LimitInv, NEW k \in Keys, AnswerRequest(k), NEW j \in Keys
  PROVE  /\ requests'[j] \in Seq(0..time') /\ admitted'[j] \in Seq(0..time')
         /\ Len(requests'[j]) <= MaxRequests /\ KeyInv(j)'
<1> DEFINE times == admitted[j]
           seen == Recent(requests[j])
<1>1. /\ time \in Nat /\ times \in Seq(Nat) /\ Len(times) \in Nat /\ Ascending(times)
      /\ \A i \in 1..Len(times) : times[i] \in 0..time
      /\ requests \in [Keys -> Seq(Nat)] /\ requests[j] \in Seq(Nat) /\ Len(requests[j]) \in Nat
      /\ \A i \in 1..Len(requests[j]) : requests[j][i] \in 0..time
      /\ EndOf(requests[j], times, time) /\ Len(requests[j]) <= MaxRequests /\ MaxRequests \in Nat
  BY TimesAreNumbers, LimitAssumption DEF LimitInv, LimitTypeOK, KeyInv
<1>2. time' = time /\ admitted' = admitted /\ retryAt' = retryAt
  BY DEF AnswerRequest
<1>3. requests'[j] \in {requests[j], seen}
  BY <1>1 DEF AnswerRequest
<1>4. seen \in Seq(Nat) /\ Len(seen) \in Nat /\ EndOf(seen, requests[j], time)
  <2>1. Ascending(requests[j])
    BY <1>1, EndAscends
  <2> QED BY <1>1, <2>1, RecentIsEnd
<1> HIDE DEF seen
<1>5. EndOf(seen, times, time) /\ Len(seen) <= MaxRequests
  <2>1. EndOf(seen, times, time)
    BY <1>1, <1>4, EndOfEnd
  <2>2. Len(seen) <= Len(requests[j])
    BY <1>4 DEF EndOf
  <2> QED BY <1>1, <1>4, <2>1, <2>2
<1>6. seen \in Seq(0..time)
  BY <1>1, <1>4, EndIsSmall
<1>7. requests[j] \in Seq(0..time) /\ times \in Seq(0..time)
  BY <1>1, SmallTimes
<1>8. EndOf(requests'[j], times, time)
  BY <1>1, <1>3, <1>5
<1>9. KeyInv(j)'
  BY <1>2, <1>8 DEF LimitInv, KeyInv, Spread
<1> QED BY <1>1, <1>2, <1>3, <1>5, <1>6, <1>7, <1>9

\* Time that goes on keeps what holds of each key.
LEMMA TimeKeeps ==
  ASSUME LimitInv, TimeGoesOn, NEW j \in Keys
  PROVE  /\ requests'[j] \in Seq(0..time') /\ admitted'[j] \in Seq(0..time')
         /\ Len(requests'[j]) <= MaxRequests /\ KeyInv(j)'
<1>1. /\ time \in Nat /\ requests[j] \in Seq(0..time) /\ admitted[j] \in Seq(0..time)
      /\ requests[j] \in Seq(Nat) /\ admitted[j] \in Seq(Nat)
      /\ KeyInv(j) /\ Len(requests[j]) <= MaxRequests
  BY TimesAreNumbers DEF LimitInv, LimitTypeOK
<1>2. /\ time' = time + 1 /\ requests' = requests /\ admitted' = admitted /\ retryAt' = retryAt
  BY DEF TimeGoesOn
<1>3. time' \in Nat /\ time <= time' /\ 0..time \subseteq 0..time'
  BY <1>1, <1>2
<1>4. requests[j] \in Seq(0..time') /\ admitted[j] \in Seq(0..time')
  BY <1>1, <1>3, SeqMonotonic
<1>5. EndOf(requests[j], admitted[j], time')
  BY <1>1, <1>3, LaterEnd DEF KeyInv
<1>6. KeyInv(j)'
  BY <1>1, <1>2, <1>5 DEF KeyInv, Spread
<1> QED BY <1>1, <1>2, <1>4, <1>6

\* The invariant of the limit at the start, and in every step.
LEMMA LimitInvStarts == LimitInit => LimitInv
<1> SUFFICES ASSUME LimitInit PROVE LimitInv
  OBVIOUS
<1>1. \A k \in Keys : requests[k] = <<>> /\ admitted[k] = <<>> /\ retryAt[k] = Never
  BY DEF LimitInit
<1>2. LimitTypeOK
  BY <1>1, EmptySeq, LimitAssumption DEF LimitInit, LimitTypeOK
<1>3. ASSUME NEW k \in Keys PROVE KeyInv(k)
  <2>1. Len(<<>>) = 0 /\ 1..0 = {} /\ MaxRequests \in Nat /\ 1..(0 - MaxRequests) = {}
    BY LimitAssumption
  <2>2. Ascending(<<>>) /\ EndOf(<<>>, <<>>, time) /\ Spread(<<>>)
    BY <2>1 DEF Ascending, EndOf, Spread
  <2> QED BY <1>1, <2>2 DEF KeyInv, Spread
<1> QED BY <1>2, <1>3 DEF LimitInv

LEMMA LimitInvStays == LimitInv /\ [LimitNext]_limitVars => LimitInv'
<1> SUFFICES ASSUME LimitInv, [LimitNext]_limitVars PROVE LimitInv'
  OBVIOUS
<1>1. /\ time \in 0..LastTime /\ cleaned \in 0..time /\ answering \subseteq Keys
      /\ retryAt \in [Keys -> Nat \cup {Never}] /\ LastTime \in Nat
      /\ requests = [k \in Keys |-> requests[k]] /\ admitted = [k \in Keys |-> admitted[k]]
  BY LimitAssumption DEF LimitInv, LimitTypeOK
<1>2. ASSUME time' \in 0..LastTime, cleaned' \in 0..time', answering' \subseteq Keys,
             retryAt' \in [Keys -> Nat \cup {Never}],
             requests' = [k \in Keys |-> requests'[k]], admitted' = [k \in Keys |-> admitted'[k]],
             \A j \in Keys : /\ requests'[j] \in Seq(0..time') /\ admitted'[j] \in Seq(0..time')
                            /\ Len(requests'[j]) <= MaxRequests /\ KeyInv(j)'
      PROVE  LimitInv'
  <2>1. requests' \in [Keys -> Seq(0..time')] /\ admitted' \in [Keys -> Seq(0..time')]
    BY <1>2
  <2>2. LimitTypeOK'
    BY <1>2, <2>1 DEF LimitTypeOK
  <2> QED BY <1>2, <2>2 DEF LimitInv
<1>3. ASSUME NEW k \in Keys, Admit(k) PROVE LimitInv'
  <2>1. /\ time' \in 0..LastTime /\ cleaned' \in 0..time' /\ answering' \subseteq Keys
        /\ retryAt' \in [Keys -> Nat \cup {Never}]
    BY <1>1, <1>3 DEF Admit, Cleanup
  <2>2. requests' = [j \in Keys |-> requests'[j]] /\ admitted' = [j \in Keys |-> admitted'[j]]
    BY <1>1, <1>3 DEF Admit
  <2> QED BY <1>2, <1>3, <2>1, <2>2, AdmitKeeps
<1>4. ASSUME NEW k \in Keys, Refuse(k) PROVE LimitInv'
  <2>1. time' \in 0..LastTime /\ cleaned' \in 0..time' /\ answering' \subseteq Keys
    BY <1>1, <1>4 DEF Refuse, Cleanup
  <2>2. /\ requests' = [j \in Keys |-> requests'[j]] /\ admitted' = [j \in Keys |-> admitted'[j]]
        /\ retryAt' = [j \in Keys |-> retryAt'[j]]
    BY <1>1, <1>4 DEF Refuse
  <2>3. retryAt' \in [Keys -> Nat \cup {Never}]
    BY <1>4, <2>2, RefuseKeeps
  <2> QED BY <1>2, <1>4, <2>1, <2>2, <2>3, RefuseKeeps
<1>5. ASSUME NEW k \in Keys, AnswerRequest(k) PROVE LimitInv'
  <2>1. /\ time' \in 0..LastTime /\ cleaned' \in 0..time' /\ answering' \subseteq Keys
        /\ retryAt' \in [Keys -> Nat \cup {Never}]
    BY <1>1, <1>5 DEF AnswerRequest
  <2>2. requests' = [j \in Keys |-> requests'[j]] /\ admitted' = [j \in Keys |-> admitted'[j]]
    BY <1>1, <1>5 DEF AnswerRequest
  <2> QED BY <1>2, <1>5, <2>1, <2>2, AnswerKeeps
<1>6. ASSUME TimeGoesOn PROVE LimitInv'
  <2>1. /\ time' \in 0..LastTime /\ cleaned' \in 0..time' /\ answering' \subseteq Keys
        /\ retryAt' \in [Keys -> Nat \cup {Never}]
    BY <1>1, <1>6 DEF TimeGoesOn
  <2>2. requests' = [j \in Keys |-> requests'[j]] /\ admitted' = [j \in Keys |-> admitted'[j]]
    BY <1>1, <1>6 DEF TimeGoesOn
  <2> QED BY <1>2, <1>6, <2>1, <2>2, TimeKeeps
<1>7. ASSUME UNCHANGED limitVars PROVE LimitInv'
  BY <1>7 DEF limitVars, LimitInv, LimitTypeOK, KeyInv, Spread
<1> QED BY <1>3, <1>4, <1>5, <1>6, <1>7 DEF LimitNext

-----------------------------------------------------------------------------

\* The types; besides, no key has more requests in its list than are allowed.
THEOREM LimitTypes == LimitSpec => []LimitTypeOK
<1>1. LimitInv => LimitTypeOK
  BY DEF LimitInv
<1> QED BY <1>1, LimitInvStarts, LimitInvStays, PTL DEF LimitSpec

\* Any MaxRequests + 1 requests let in one after the other with one key span at least
\* a window, however requests, clean-ups and answers follow each other.
THEOREM WindowIsKept == LimitSpec => []WindowKept
<1>1. LimitInv => WindowKept
  BY DEF LimitInv, KeyInv, Spread, WindowKept
<1> QED BY <1>1, LimitInvStarts, LimitInvStays, PTL DEF LimitSpec

\* A client that comes back after its Retry-After is let in: what was refused had
\* MaxRequests before it, and the first of these is outside the window by then.
THEOREM WaitingSuffices == LimitSpec => []RetrySuffices
<1>1. ASSUME LimitInv PROVE RetrySuffices
  <2>1. SUFFICES ASSUME NEW k \in Keys, retryAt[k] # Never, time >= retryAt[k] PROVE Allowed(k)
    BY DEF RetrySuffices
  <2> DEFINE times == admitted[k]
             seen == Recent(Kept(k))
  <2>2. /\ time \in Nat /\ times \in Seq(Nat) /\ Len(times) \in Nat /\ retryAt[k] \in Nat
        /\ MaxRequests \in Nat \ {0} /\ Window \in Nat /\ \A i \in 1..Len(times) : times[i] \in Nat
    BY <1>1, <2>1, TimesAreNumbers, LimitAssumption DEF LimitInv, LimitTypeOK
  <2>3. /\ seen \in Seq(Nat) /\ Len(seen) \in Nat /\ EndOf(seen, times, time)
        /\ Len(seen) <= MaxRequests /\ \A i \in 1..Len(seen) : seen[i] + Window > time
    BY <1>1, LookedAt
  <2>4. MaxRequests <= Len(times) /\ retryAt[k] > times[Len(times) - MaxRequests + 1] + Window
    BY <1>1, <2>1 DEF LimitInv, KeyInv
  <2> HIDE DEF times, seen
  <2>5. ASSUME Len(seen) = MaxRequests PROVE FALSE
    <3>1. 1 \in 1..Len(seen) /\ 1 + (Len(times) - Len(seen)) = Len(times) - MaxRequests + 1
          /\ Len(times) - MaxRequests + 1 \in 1..Len(times)
      BY <2>2, <2>4, <2>5
    <3>2. seen[1] = times[Len(times) - MaxRequests + 1]
      BY <2>3, <3>1 DEF EndOf
    <3>3. times[Len(times) - MaxRequests + 1] + Window > time
      BY <2>3, <3>1, <3>2
    <3> QED BY <2>1, <2>2, <2>4, <3>1, <3>3
  <2>6. Len(seen) < MaxRequests
    BY <2>2, <2>3, <2>5
  <2> QED BY <2>6 DEF Allowed, seen
<1> QED BY <1>1, LimitInvStarts, LimitInvStays, PTL DEF LimitSpec

-----------------------------------------------------------------------------
(* All parts *)

\* The servers, the mirror, the connection to the database and the limit of one instance
\* keep their types, whichever part moves: none changes the state of another.
THEOREM MirrorTypes == AllSpec => []MirrorTypeOK
<1>1. AllInit => ServingInit /\ PushInit /\ ConnectionInit /\ LimitInit
  BY DEF AllInit
<1>2. [AllNext]_allVars => /\ [ServingNext]_servingVars /\ [PushNext]_pushVars
                           /\ [ConnectionNext]_connectionVars /\ [LimitNext]_limitVars
  BY DEF AllNext, OfCatalogue, OfUpdates, OfServers, OfMirror, OfConnection, OfLimit, CallsMade,
         allVars
<1>3. AllSpec => ServingSpec
  BY <1>1, <1>2, PTL DEF AllSpec, ServingSpec
<1>4. AllSpec => PushSpec
  BY <1>1, <1>2, PTL DEF AllSpec, PushSpec
<1>5. AllSpec => ConnectionSpec
  BY <1>1, <1>2, PTL DEF AllSpec, ConnectionSpec
<1>6. AllSpec => LimitSpec
  BY <1>1, <1>2, PTL DEF AllSpec, LimitSpec
<1>7. ServingTypeOK /\ PushTypeOK /\ ConnectionTypeOK /\ LimitTypeOK <=> MirrorTypeOK
  BY DEF MirrorTypeOK
<1> QED BY <1>3, <1>4, <1>5, <1>6, <1>7, TypeCorrect, PushTypeCorrect, ConnectionTypes,
           LimitTypes, PTL
=============================================================================
