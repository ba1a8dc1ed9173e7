----------------------------- MODULE EdgeLitePush -----------------------------
(***************************************************************************)
(* The devices of one protocol and their registrations on EdgeLite:        *)
(* pushes, with the conflict handling of a device that is registered       *)
(* already, and removals (integrations/integration/manager.py).            *)
(*                                                                         *)
(* A push is a coroutine that awaits one HTTP request after the other.     *)
(* Pushes are made by the handlers of DeviceCreatedEvent and               *)
(* ProtocolStatusEvent, which the event bus runs as tasks of their own,    *)
(* and by the routes: push, batch push and pipeline verification.          *)
(***************************************************************************)
EXTENDS Naturals, FiniteSets

CONSTANTS
  Devices,      \* devices of the protocol that are to be mirrored on EdgeLite
  Pushers,      \* slots for tasks that push
  Ports,        \* ports the protocol server may get; the configured one may be in use
  Absent,       \* not registered on EdgeLite
  NoDevice,     \* the device of a task between two pushes
  MaxLate       \* bound: late requests at a time

ASSUME PushAssumption ==
  /\ IsFiniteSet(Pushers) /\ NoDevice \notin Devices
  /\ Ports \subseteq Nat /\ Ports # {} /\ Absent \notin Ports
  /\ MaxLate \in Nat

VARIABLES
  orderly,    \* clients remove a device when no push of it is under way or due, and
              \* create it again when its removal is over (environment)
  lossy,      \* requests may fail, or time out and take effect later (environment)
  present,    \* devices the engine has
  listening,  \* the protocol server: running or not
  port,       \* its port, or the configured one while it does not run
  edge,       \* EdgeLite's registrations, by the port their driver connects to
  created,    \* devices whose DeviceCreatedEvent is not handled yet
  started,    \* a ProtocolStatusEvent "running" is not handled yet
  tasks,      \* the tasks that push
  removals,   \* devices whose DELETE from _on_device_removed is under way
  late,       \* requests that timed out and may yet take effect
  report      \* history: the port of the last push of a device reported as ok, while no
              \* later push, removal or late request has touched the registration

environment == <<orderly, lossy>>
engine == <<present, listening, port, created, started>>
pushVars == <<environment, engine, edge, tasks, removals, late, report>>

NoPush == [todo |-> {}, device |-> NoDevice, pc |-> "idle", port |-> Absent]

Requests == [op : {"post", "put", "delete"}, device : Devices, port : Ports]

\* The types, and that a task has a device and a port exactly while it pushes.
PushTypeOK ==
  /\ orderly \in BOOLEAN /\ lossy \in BOOLEAN
  /\ present \subseteq Devices /\ created \subseteq Devices /\ removals \subseteq Devices
  /\ listening \in {"stopped", "running"} /\ port \in Ports /\ started \in BOOLEAN
  /\ edge \in [Devices -> Ports \cup {Absent}]
  /\ tasks \in [Pushers ->
       [todo : SUBSET Devices, device : Devices \cup {NoDevice}, port : Ports \cup {Absent},
        pc : {"idle", "starting", "posting", "putting", "deleting", "reposting", "cleaning"}]]
  /\ \A p \in Pushers :
       /\ tasks[p].pc = "idle" <=> tasks[p].device = NoDevice
       /\ tasks[p].pc # "idle" => tasks[p].port \in Ports
  /\ late \subseteq Requests
  /\ report \in [Devices -> Ports \cup {Absent}]

PushInit ==
  /\ orderly \in BOOLEAN /\ lossy \in BOOLEAN
  /\ present = {} /\ created = {} /\ started = FALSE
  /\ listening = "stopped" /\ port \in Ports
  /\ edge = [d \in Devices |-> Absent]
  /\ tasks = [p \in Pushers |-> NoPush]
  /\ removals = {} /\ late = {}
  /\ report = [d \in Devices |-> Absent]

-----------------------------------------------------------------------------
(* The engine, as far as its events go *)

Locked(d) == \E p \in Pushers : tasks[p].device = d

\* A push of d is under way or will be made.
PushDue(d) ==
  \/ d \in created \/ (started /\ d \in present)
  \/ \E p \in Pushers : d \in tasks[p].todo \cup {tasks[p].device}

EngineCreates(d) ==
  /\ d \notin present
  /\ orderly => d \notin removals
  /\ present' = present \cup {d} /\ created' = created \cup {d}
  /\ UNCHANGED <<environment, listening, port, started, edge, tasks, removals,
                 late, report>>

\* remove_device, and _on_device_removed as far as sending its DELETE.
EngineRemoves(d) ==
  /\ d \in present
  /\ orderly => ~PushDue(d)
  /\ present' = present \ {d}
  /\ removals' = removals \cup {d}
  /\ report' = [report EXCEPT ![d] = Absent]
  /\ UNCHANGED <<environment, listening, port, created, started, edge,
                 tasks, late>>

EngineStartsServer ==
  /\ listening = "stopped"
  /\ listening' = "running" /\ port' \in Ports /\ started' = TRUE
  /\ UNCHANGED <<environment, present, created, edge, tasks, removals, late, report>>

EngineStopsServer ==
  /\ listening = "running"
  /\ listening' = "stopped" /\ port' \in Ports
  /\ UNCHANGED <<environment, present, created, started, edge, tasks,
                 removals, late, report>>

-----------------------------------------------------------------------------
(* Tasks *)

Assigned(p, devices) ==
  /\ tasks[p] = NoPush
  /\ tasks' = [tasks EXCEPT ![p] = [NoPush EXCEPT !.todo = devices]]

\* _on_device_created goes by the engine's device, if there still is one.
HandleCreated(p, d) ==
  /\ d \in created /\ created' = created \ {d}
  /\ Assigned(p, {d} \cap present)
  /\ UNCHANGED <<environment, present, listening, port, started, edge,
                 removals, late, report>>

\* _on_protocol_status pushes every device of the protocol, one after the other.
HandleStarted(p) ==
  /\ started /\ started' = FALSE
  /\ Assigned(p, present)
  /\ UNCHANGED <<environment, present, listening, port, created, edge,
                 removals, late, report>>

\* A route: a push, one of a batch, or verify_pipeline, which pushes a device it
\* finds missing.
RequestPush(p, d) ==
  /\ d \in present
  /\ Assigned(p, {d})
  /\ UNCHANGED <<environment, engine, edge, removals, late, report>>

\* Broken: nobody asks whether the device is being pushed.
BeginUnlocked(p, d) ==
  /\ tasks[p].device = NoDevice /\ d \in tasks[p].todo
  /\ tasks' = [tasks EXCEPT ![p] =
       [todo |-> @.todo \ {d}, device |-> d, port |-> port,
        pc |-> IF listening = "running" THEN "posting" ELSE "starting"]]
  /\ report' = [report EXCEPT ![d] = Absent]
  /\ UNCHANGED <<environment, engine, edge, removals, late>>

\* push_device: a device that is being pushed is passed over. The payload is put
\* together first, with the port of the moment, and then the server started.
Begin(p, d) ==
  /\ tasks[p].device = NoDevice /\ d \in tasks[p].todo
  /\ IF Locked(d)
     THEN tasks' = [tasks EXCEPT ![p].todo = @ \ {d}] /\ UNCHANGED report
     ELSE /\ tasks' = [tasks EXCEPT ![p] =
               [todo |-> @.todo \ {d}, device |-> d, port |-> port,
                pc |-> IF listening = "running" THEN "posting" ELSE "starting"]]
          /\ report' = [report EXCEPT ![d] = Absent]
  /\ UNCHANGED <<environment, engine, edge, removals, late>>

Goes(p, pc) == tasks' = [tasks EXCEPT ![p].pc = pc]

\* Broken: only the lock of the device is released.
EndsHalfway(p) ==
  tasks' = [tasks EXCEPT ![p].device = NoDevice]

\* The push is over; the task turns to the next device.
Ends(p) ==
  tasks' = [tasks EXCEPT ![p] = [NoPush EXCEPT !.todo = tasks[p].todo]]

Succeeds(p) ==
  /\ report' = [report EXCEPT ![tasks[p].device] = tasks[p].port]
  /\ Ends(p)

Fails(p) == Ends(p) /\ UNCHANGED report

\* start_protocol from the push: it starts the server, on a port that is free,
\* or fails, and the push goes on either way.
AutoStart(p) ==
  /\ tasks[p].pc = "starting"
  /\ Goes(p, "posting")
  /\ \/ /\ listening = "stopped"
        /\ listening' = "running" /\ port' \in Ports /\ started' = TRUE
     \/ UNCHANGED <<listening, port, started>>
  /\ UNCHANGED <<environment, present, created, edge, removals, late, report>>

-----------------------------------------------------------------------------
(* Requests *)

Register(d, q) == edge' = [edge EXCEPT ![d] = q]

\* The request fails without an effect, or with one that comes late.
Unanswered(op, d, q) ==
  /\ lossy /\ UNCHANGED edge
  /\ \/ UNCHANGED late
     \/ Cardinality(late) < MaxLate /\ late' = late \cup {[op |-> op, device |-> d, port |-> q]}

\* POST /push-device. EdgeLite registers the device and starts its driver. 409
\* means that the device is there already, or that its driver did not start,
\* which may leave the record behind; if it never can, the push removes that.
Post(p) ==
  LET d == tasks[p].device
      q == tasks[p].port IN
  /\ tasks[p].pc = "posting"
  /\ \/ edge[d] = Absent /\ Register(d, q) /\ Succeeds(p) /\ UNCHANGED late
     \/ edge[d] # Absent /\ Goes(p, "putting") /\ UNCHANGED <<edge, late, report>>
     \/ /\ lossy /\ edge[d] = Absent
        /\ (Register(d, q) \/ UNCHANGED edge)
        /\ UNCHANGED late
        /\ (Fails(p) \/ (Goes(p, "cleaning") /\ UNCHANGED report))
     \/ Unanswered("post", d, q) /\ Fails(p)
  /\ UNCHANGED <<environment, engine, removals>>

\* PUT /devices/{id}; an answer other than 200, or none in time, leads to the
\* deletion, any other exception out of the push.
Put(p) ==
  LET d == tasks[p].device
      q == tasks[p].port IN
  /\ tasks[p].pc = "putting"
  /\ \/ edge[d] # Absent /\ Register(d, q) /\ Succeeds(p) /\ UNCHANGED late
     \/ Goes(p, "deleting") /\ UNCHANGED <<edge, late, report>>
     \/ /\ Unanswered("put", d, q)
        /\ (Fails(p) \/ (Goes(p, "deleting") /\ UNCHANGED report))
  /\ UNCHANGED <<environment, engine, removals>>

\* Broken: the device is not created again.
DeleteOnly(p) ==
  LET d == tasks[p].device IN
  /\ tasks[p].pc = "deleting"
  /\ \/ Register(d, Absent) /\ UNCHANGED late
     \/ Unanswered("delete", d, tasks[p].port)
  /\ Fails(p)
  /\ UNCHANGED <<environment, engine, removals>>

\* DELETE /devices/{id}, with every error swallowed.
DeleteStale(p) ==
  LET d == tasks[p].device IN
  /\ tasks[p].pc = "deleting"
  /\ \/ Register(d, Absent) /\ UNCHANGED late
     \/ Unanswered("delete", d, tasks[p].port)
  /\ Goes(p, "reposting")
  /\ UNCHANGED <<environment, engine, removals, report>>

Repost(p) ==
  LET d == tasks[p].device
      q == tasks[p].port IN
  /\ tasks[p].pc = "reposting"
  /\ \/ edge[d] = Absent /\ Register(d, q) /\ Succeeds(p) /\ UNCHANGED late
     \/ (edge[d] # Absent \/ lossy) /\ Fails(p) /\ UNCHANGED <<edge, late>>
     \/ Unanswered("post", d, q) /\ Fails(p)
  /\ UNCHANGED <<environment, engine, removals>>

\* The record of a driver that can never start is deleted.
CleanUp(p) ==
  LET d == tasks[p].device IN
  /\ tasks[p].pc = "cleaning"
  /\ \/ Register(d, Absent) /\ UNCHANGED late
     \/ Unanswered("delete", d, tasks[p].port)
  /\ Fails(p)
  /\ UNCHANGED <<environment, engine, removals>>

\* The DELETE of _on_device_removed. When it raises, the command goes to the
\* retry queue of EdgeLiteLink, by which it arrives late or never.
Remove(d) ==
  /\ d \in removals /\ removals' = removals \ {d}
  /\ \/ Register(d, Absent) /\ UNCHANGED late
     \/ \E q \in Ports : Unanswered("delete", d, q)
  /\ report' = [report EXCEPT ![d] = Absent]
  /\ UNCHANGED <<environment, engine, tasks>>

\* A request that had timed out takes effect.
LateEffect(r) ==
  /\ r \in late /\ late' = late \ {r}
  /\ \/ r.op = "post" /\ edge[r.device] = Absent /\ Register(r.device, r.port)
     \/ r.op = "put" /\ edge[r.device] # Absent /\ Register(r.device, r.port)
     \/ r.op = "delete" /\ Register(r.device, Absent)
  /\ report' = [report EXCEPT ![r.device] = Absent]
  /\ UNCHANGED <<environment, engine, tasks, removals>>

Request(p) == Post(p) \/ Put(p) \/ DeleteStale(p) \/ Repost(p) \/ CleanUp(p)

PushNext ==
  \/ \E d \in Devices : EngineCreates(d) \/ EngineRemoves(d) \/ Remove(d)
  \/ EngineStartsServer \/ EngineStopsServer
  \/ \E p \in Pushers :
       \/ \E d \in Devices : HandleCreated(p, d) \/ RequestPush(p, d) \/ Begin(p, d)
       \/ HandleStarted(p) \/ AutoStart(p) \/ Request(p)
  \/ \E r \in late : LateEffect(r)

PushSpec == PushInit /\ [][PushNext]_pushVars

-----------------------------------------------------------------------------
(* Properties *)

\* A registration that a push reported as done stays, with the port it was made
\* with, until a later push of the device, its removal, or a request EdgeLite
\* executes late: pushes of one device do not undo each other.
RegisteredStays == \A d \in Devices : report[d] # Absent => edge[d] = report[d]

\* With clients that remove a device only between its pushes and a network that
\* loses nothing, EdgeLite has a device exactly when the engine has it, whatever
\* creations, restarts of the server and pushes overlap and whether or not
\* EdgeLite accepts the PUT.
MirrorAgrees ==
  orderly /\ ~lossy =>
    \A d \in Devices : ~PushDue(d) /\ d \notin removals
                       => (edge[d] # Absent <=> d \in present)

\* The docstring of _on_protocol_status (manager.py 1570): after the server came
\* up on another port, the devices concerned are pushed again with the new port.
PortFollows ==
  orderly /\ ~lossy /\ listening = "running" =>
    \A d \in present : ~PushDue(d) => edge[d] = port
=============================================================================
