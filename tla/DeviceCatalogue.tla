--------------------------- MODULE DeviceCatalogue ---------------------------
(***************************************************************************)
(* The three records of which devices exist: the engine's _devices, the    *)
(* rows of the devices table, and what the subscribers of DeviceCreated    *)
(* and DeviceRemoved have been told (engine/engine.py, api/v1/             *)
(* device_routes.py, db/session.py, main.py).                              *)
(*                                                                         *)
(* Every API call is a coroutine of one event loop, so a step below runs   *)
(* from one suspension to the next.  A call suspends in the database, and  *)
(* in the protocol server when that server's create_device or              *)
(* remove_device awaits something (OPC UA, MQTT, GB28181); the other       *)
(* servers only take an uncontended lock, which does not suspend.  The     *)
(* database has one connection and executes statements in the order they   *)
(* were issued.                                                            *)
(***************************************************************************)
EXTENDS Sequences

CONSTANTS
  Ids,            \* device identifiers
  Configs,        \* configurations a client may send
  Protocols,
  Protocol,       \* the protocol each configuration is for
  SlowProtocols,  \* those whose server suspends the calls of the engine
  Calls,          \* slots for API calls in flight
  Ops,            \* the calls clients make
  OneCallPerId,   \* clients wait for the answer before they name the id again
  DbMayFail,      \* statements may raise
  None

ASSUME ConfigAssumption ==
  /\ Protocol \in [Configs -> Protocols]
  /\ SlowProtocols \subseteq Protocols
  /\ Ops \subseteq {"create", "delete", "update"}
  /\ OneCallPerId \in BOOLEAN /\ DbMayFail \in BOOLEAN
  /\ None \notin Configs \cup Ids

VARIABLES
  devices,    \* the engine's devices, by their configuration
  rows,       \* the devices table
  announced,  \* ids of which the last event said that they exist
  calls,      \* the API calls in flight
  dbQueue,    \* calls waiting for the database, in the order of their statements
  owed        \* ids a client was told exist and nobody has asked to delete

memory == <<devices, announced, calls, dbQueue>>
vars == <<devices, rows, announced, calls, dbQueue, owed>>

CallTypes ==
  [op : {"create", "delete", "update", "rollback"}, id : Ids,
   config : Configs \cup {None},
   pc : {"registering", "syncing", "stopping", "unregistering",
         "saving", "erasing", "erasingAgain"}]

Idle == [op |-> "none", id |-> None, config |-> None, pc |-> "idle"]

TypeOK ==
  /\ devices \in [Ids -> Configs \cup {None}]
  /\ rows \in [Ids -> Configs \cup {None}]
  /\ announced \subseteq Ids
  /\ calls \in [Calls -> CallTypes \cup {Idle}]
  /\ dbQueue \in Seq(Calls)
  /\ owed \subseteq Ids

Slow(config) == Protocol[config] \in SlowProtocols

Quiet(id) == \A c \in Calls : calls[c].id # id

\* A client may send a call about id from slot c.
MayCall(c, op, id) ==
  /\ op \in Ops
  /\ calls[c] = Idle
  /\ OneCallPerId => Quiet(id)

Init ==
  /\ devices = [id \in Ids |-> None]
  /\ rows = [id \in Ids |-> None]
  /\ announced = {}
  /\ calls = [c \in Calls |-> Idle]
  /\ dbQueue = <<>>
  /\ owed = {}

-----------------------------------------------------------------------------
(* Where a call goes next; q is the database queue without its statement *)

At(c, call, pc) == calls' = [calls EXCEPT ![c] = [call EXCEPT !.pc = pc]]

Awaits(c, call, pc, q) == At(c, call, pc) /\ dbQueue' = q

Issues(c, call, pc, q) == At(c, call, pc) /\ dbQueue' = Append(q, c)

\* Broken: the record of the finished call is kept.
ReturnsKeepingCall(c, q) == At(c, calls[c], "idle") /\ dbQueue' = q

Returns(c, q) == calls' = [calls EXCEPT ![c] = Idle] /\ dbQueue' = q

\* The rest of engine.create_device: registration with the server, the event;
\* then the route saves the row.
AddTo(c, call, told, q) ==
  /\ devices' = [devices EXCEPT ![call.id] = call.config]
  /\ IF Slow(call.config)
     THEN announced' = told /\ Awaits(c, call, "registering", q)
     ELSE announced' = told \cup {call.id} /\ Issues(c, call, "saving", q)

\* Broken: the device is looked up (get) where it should be taken out (pop).
TakeOutPeeking(c, call, q) ==
  /\ UNCHANGED <<devices, announced>>
  /\ IF Slow(devices[call.id])
     THEN Awaits(c, call, "unregistering", q)
     ELSE Issues(c, call, "erasing", q)

\* engine.remove_device up to its first suspension: the device is taken out of
\* the dictionary, deregistered, and its row deleted.
TakeOut(c, call, q) ==
  /\ devices' = [devices EXCEPT ![call.id] = None]
  /\ UNCHANGED announced
  /\ IF Slow(devices[call.id])
     THEN Awaits(c, call, "unregistering", q)
     ELSE Issues(c, call, "erasing", q)

\* The second half of an update that changes the protocol. The id may have been
\* taken meanwhile: create_device refuses, and so does restoring the old device.
Recreate(c, call, told, q) ==
  IF devices[call.id] = None
  THEN AddTo(c, call, told, q)
  ELSE announced' = told /\ Returns(c, q) /\ UNCHANGED devices

-----------------------------------------------------------------------------
(* The calls of clients *)

\* POST /devices. An id in use is refused with no effect.
Create(c, id, config) ==
  /\ MayCall(c, "create", id)
  /\ devices[id] = None
  /\ AddTo(c, [op |-> "create", id |-> id, config |-> config, pc |-> "idle"],
           announced, dbQueue)
  /\ UNCHANGED <<rows, owed>>

\* DELETE /devices/{id}. An unknown id is refused with no effect.
Delete(c, id) ==
  /\ MayCall(c, "delete", id)
  /\ devices[id] # None
  /\ TakeOut(c, [op |-> "delete", id |-> id, config |-> None, pc |-> "idle"], dbQueue)
  /\ owed' = owed \ {id}
  /\ UNCHANGED rows

\* Broken: the server suspends every update, whichever the protocol, before its
\* row is saved.
HotUpdateSyncingFirst(c, id, config) ==
  /\ MayCall(c, "update", id)
  /\ devices[id] # None
  /\ Protocol[config] = Protocol[devices[id]]
  /\ devices' = [devices EXCEPT ![id] = config]
  /\ Awaits(c, [op |-> "update", id |-> id, config |-> config, pc |-> "idle"],
            "syncing", dbQueue)
  /\ UNCHANGED <<rows, announced, owed>>

\* PUT /devices/{id} with the protocol unchanged: the instance is given the new
\* configuration at once, its points are written to the server, then the row.
HotUpdate(c, id, config) ==
  LET call == [op |-> "update", id |-> id, config |-> config, pc |-> "idle"] IN
  /\ MayCall(c, "update", id)
  /\ devices[id] # None
  /\ Protocol[config] = Protocol[devices[id]]
  /\ devices' = [devices EXCEPT ![id] = config]
  /\ IF Slow(config) THEN Awaits(c, call, "syncing", dbQueue)
     ELSE Issues(c, call, "saving", dbQueue)
  /\ UNCHANGED <<rows, announced, owed>>

\* PUT with another protocol removes the device, its row included, and creates
\* it again. A device that is ONLINE is stopped first, which can suspend.
ChangeProtocol(c, id, config) ==
  LET call == [op |-> "update", id |-> id, config |-> config, pc |-> "idle"] IN
  /\ MayCall(c, "update", id)
  /\ devices[id] # None
  /\ Protocol[config] # Protocol[devices[id]]
  /\ \/ TakeOut(c, call, dbQueue)
     \/ /\ Slow(devices[id])
        /\ Awaits(c, call, "stopping", dbQueue)
        /\ UNCHANGED <<devices, announced>>
  /\ UNCHANGED <<rows, owed>>

-----------------------------------------------------------------------------
(* A protocol server lets a call go on *)

\* Broken: nobody is told of a device whose server took its time.
RegisteredSilently(c) ==
  /\ calls[c].pc = "registering"
  /\ Issues(c, calls[c], "saving", dbQueue)
  /\ UNCHANGED <<devices, rows, announced, owed>>

Registered(c) ==
  /\ calls[c].pc = "registering"
  /\ announced' = announced \cup {calls[c].id}
  /\ Issues(c, calls[c], "saving", dbQueue)
  /\ UNCHANGED <<devices, rows, owed>>

Synced(c) ==
  /\ calls[c].pc = "syncing"
  /\ Issues(c, calls[c], "saving", dbQueue)
  /\ UNCHANGED <<devices, rows, announced, owed>>

\* remove_device raises when the device is gone; the update goes on all the same.
Stopped(c) ==
  /\ calls[c].pc = "stopping"
  /\ IF devices[calls[c].id] # None
     THEN TakeOut(c, calls[c], dbQueue)
     ELSE Recreate(c, calls[c], announced, dbQueue)
  /\ UNCHANGED <<rows, owed>>

Unregistered(c) ==
  /\ calls[c].pc = "unregistering"
  /\ Issues(c, calls[c], "erasing", dbQueue)
  /\ UNCHANGED <<devices, rows, announced, owed>>

-----------------------------------------------------------------------------
(* The database executes the statement at the head of its queue *)

Outcomes == IF DbMayFail THEN BOOLEAN ELSE {TRUE}

Executes(c, pc) == dbQueue # <<>> /\ c = Head(dbQueue) /\ calls[c].pc = pc

\* save_device of a creation: the client gets its answer, or the device is
\* removed again, whichever device has the id by now.
SaveCreated(c) ==
  /\ Executes(c, "saving") /\ calls[c].op = "create"
  /\ LET call == calls[c] IN
     \/ /\ rows' = [rows EXCEPT ![call.id] = call.config]
        /\ owed' = owed \cup {call.id}
        /\ Returns(c, Tail(dbQueue))
        /\ UNCHANGED <<devices, announced>>
     \/ /\ DbMayFail
        /\ UNCHANGED <<rows, owed>>
        /\ IF devices[call.id] # None
           THEN TakeOut(c, [call EXCEPT !.op = "rollback"], Tail(dbQueue))
           ELSE Returns(c, Tail(dbQueue)) /\ UNCHANGED <<devices, announced>>

\* Broken: a failed save removes the device, as the creation route does.
SaveUpdatedRollingBack(c) ==
  /\ Executes(c, "saving") /\ calls[c].op = "update"
  /\ \/ /\ rows' = [rows EXCEPT ![calls[c].id] = calls[c].config]
        /\ Returns(c, Tail(dbQueue))
        /\ UNCHANGED <<devices, announced>>
     \/ /\ DbMayFail
        /\ TakeOut(c, [calls[c] EXCEPT !.op = "rollback"], Tail(dbQueue))
        /\ UNCHANGED rows
  /\ UNCHANGED owed

\* save_device of an update: a failure is only reported.
SaveUpdated(c) ==
  /\ Executes(c, "saving") /\ calls[c].op = "update"
  /\ \E ok \in Outcomes :
       rows' = IF ok THEN [rows EXCEPT ![calls[c].id] = calls[c].config] ELSE rows
  /\ Returns(c, Tail(dbQueue))
  /\ UNCHANGED <<devices, announced, owed>>

\* delete_device in engine.remove_device, the event, and what the caller of
\* remove_device does next.
Erase(c) ==
  /\ Executes(c, "erasing")
  /\ LET call == calls[c]
         told == announced \ {call.id} IN
     /\ \E ok \in Outcomes : rows' = IF ok THEN [rows EXCEPT ![call.id] = None] ELSE rows
     /\ \/ /\ call.op = "delete"
           /\ announced' = told
           /\ Issues(c, call, "erasingAgain", Tail(dbQueue))
           /\ UNCHANGED devices
        \/ /\ call.op = "rollback"
           /\ announced' = told
           /\ Returns(c, Tail(dbQueue))
           /\ UNCHANGED devices
        \/ /\ call.op = "update"
           /\ Recreate(c, call, told, Tail(dbQueue))
  /\ UNCHANGED owed

\* The route deletes the row once more.
EraseAgain(c) ==
  /\ Executes(c, "erasingAgain")
  /\ \E ok \in Outcomes :
       rows' = IF ok THEN [rows EXCEPT ![calls[c].id] = None] ELSE rows
  /\ Returns(c, Tail(dbQueue))
  /\ UNCHANGED <<devices, announced, owed>>

\* The process dies and comes back: _restore_persisted_data creates a device
\* for every row before the first request is served.
Restart ==
  /\ devices' = rows
  /\ announced' = {id \in Ids : rows[id] # None}
  /\ calls' = [c \in Calls |-> Idle]
  /\ dbQueue' = <<>>
  /\ UNCHANGED <<rows, owed>>

Next ==
  \/ \E c \in Calls, id \in Ids :
       \/ \E config \in Configs : \/ Create(c, id, config)
                                  \/ HotUpdate(c, id, config)
                                  \/ ChangeProtocol(c, id, config)
       \/ Delete(c, id)
  \/ \E c \in Calls : \/ Registered(c) \/ Synced(c) \/ Stopped(c) \/ Unregistered(c)
                      \/ SaveCreated(c) \/ SaveUpdated(c)
                      \/ Erase(c) \/ EraseAgain(c)
  \/ Restart

Spec == Init /\ [][Next]_vars

-----------------------------------------------------------------------------
(* Properties *)

\* Between calls about it, a device is in memory exactly as it is in the
\* database: a restart changes nothing (the comments at engine.py 531 and
\* device_routes.py 53).
RowsMatch == \A id \in Ids : Quiet(id) => rows[id] = devices[id]

\* Between calls about it, the events published about a device leave its
\* subscribers (IntegrationManager mirrors them to EdgeLite) with the truth.
AnnouncedMatch ==
  \A id \in Ids : Quiet(id) => (id \in announced <=> devices[id] # None)

\* A device whose creation was confirmed and that nobody has asked to delete
\* exists, in memory and on disk, between calls about it, whatever writes failed
\* and whenever the process died.
AcknowledgedSurvives ==
  \A id \in owed : Quiet(id) => devices[id] # None /\ rows[id] # None
=============================================================================
